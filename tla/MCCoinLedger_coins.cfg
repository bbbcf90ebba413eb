SPECIFICATION Spec
CONSTANTS
  ann = ann  bob = bob  d1 = d1  d2 = d2  o1 = o1  r1 = r1  r2 = r2  r3 = r3
  Users <- OneAccount
  Known <- OneAccount
  Donations <- TwoDonations
  Donator <- MCDonator
  Price <- MCPrice
  Orders <- OneOrder
  Total <- MCTotal
  Requests <- ThreeRequests
  Kinds <- SalesKinds
  Batches <- MCBatches
  Corrections = {4}
  Bonuses <- MCBonuses
  Opening = 2
  Invitation = 1
  MaxDay = 0
SYMMETRY AnyRequest
INVARIANTS TypeOK GrantsFollowStatus
 
