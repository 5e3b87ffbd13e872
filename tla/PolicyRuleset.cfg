SPECIFICATION Spec
CONSTANTS
  Contexts <- MCContexts
  Patterns <- MCPatterns
  AccessRules <- MCAccessRules
  MaxRules = 2
INVARIANTS WildcardIsGlob DenyOverridesAllow
PROPERTIES DenyOnlyTightens AllowOnlyWidens
