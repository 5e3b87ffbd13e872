--------------------------- MODULE MCAgentIdentity ---------------------------
EXTENDS AgentIdentity

CONSTANTS c1, c2, d1, k1, k2

Body(op, key, status, proven) ==
  [op |-> op, did |-> d1, key |-> key, status |-> status, proven |-> proven]

\* One DID: registrations, an update of the key, to an empty key, of the status, a
\* deactivation.
AllBodies ==
  {Body("register", k1, NoStatus, TRUE), Body("register", k1, "inactive", FALSE),
   Body("update", k2, NoStatus, TRUE), Body("update", EmptyKey, NoStatus, TRUE),
   Body("update", NoKey, "active", TRUE),
   Body("deactivate", NoKey, NoStatus, TRUE)}
=============================================================================
