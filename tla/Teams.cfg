SPECIFICATION Spec
SYMMETRY Symmetry
CONSTANTS
  Users = {u1, u2, u3}
  Teams = {t1, t2}
  Seats = {2}
  Requests = {r1, r2, r3}
  MaxRestarts = 1
  NoTeam = NoTeam
  NoUser = NoUser
INVARIANTS SeatBound NoDangling OwnerSeated RecordsAgree
