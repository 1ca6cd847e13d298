SPECIFICATION Spec
CONSTANTS
  g = g
  t = t
  r1 = r1
  r2 = r2
  r3 = r3
  key = key
  Subjects = {g, t}
  Rules = {r1, r2, r3}
  Keys = {key}
  Jobs = {j1, j2}
  OfTeam = {t}
  SubjectOf <- MCSubjectOf
  Listing <- MCListing
  KeyOf <- MCKeyOf
  FirstDraft <- MCFirstDraft
  MaxEdits = 1
  MaxVersion = 3
INVARIANTS FreshPublishIsDraft  StrictestOfScope ClientHasItsPolicy
PROPERTIES ClientConverges
CHECK_DEADLOCK FALSE
