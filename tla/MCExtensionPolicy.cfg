SPECIFICATION Spec
CONSTANTS
  o1 = o1
  o2 = o2
  Orgs <- MCOrgs
  MaxVersion <- MCMaxVersion
  Syncs = {k1, k2}
INVARIANTS NeverLabelledNewer MissesOnlyInTrouble
PROPERTIES UpdatesArrive
