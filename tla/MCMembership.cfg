SPECIFICATION MembershipSpec
CONSTANTS
  People = {ann, bob}
  SignUps = {ann}
  Adds = {a1, a2}
  Requests = {page, device}
  Pages = {page}
  MaxSeats = 1
  MaxAdds = 3
  MaxAccounts = 2
  MaxFails = 1
INVARIANTS  OverrunIsAccountedFor 
 
CHECK_DEADLOCK FALSE
