SPECIFICATION Spec
CONSTANTS
  Services = {s1, s2, s3}
  Tariffs = {t1, t2}
  Kinds = {"selected", "other"}
  Filters <- MCFilters
  Limits = {2}
  MaxTime = 3
  Offers <- MCOffers
  SchemaHashes = {"h"}
  TariffHashes = {"p"}
  Uris = {"u"}
SYMMETRY Symmetry
CONSTRAINT Apart
CHECK_DEADLOCK FALSE
INVARIANTS WalkMissesNothing
PROPERTIES PricedInFull EntriesAreFinal
