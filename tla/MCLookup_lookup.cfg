\* A person with any identifier and an institution; up to two requests per entity and source fail.
CONSTANTS
  None = None
  Entity <- Entities
  Predicate <- Preds
  Value <- Values
  Orcid <- People
  WellFormed = {"0001", "0002", "0003", "0009"}
  Item <- Items
  TypeOf <- Types
  Related <- Relations
  Segment <- Segments
  Initial <- Texts
  Rules <- Derivations
  Config <- Shipped
  CandidateFacts <- WhatTheySay
  Claimed <- ItemOf
  Hits <- SearchHits
  Classes <- InstanceOf
  Unrestricted = {}
  Alike <- Equal
  Close <- Equal
  Limit = 2
  MaxFailures = 2
SPECIFICATION Spec
INVARIANTS TypeOK DerivedFromText OrcidsAgree FullScoreHasIdentifier
CHECK_DEADLOCK FALSE
