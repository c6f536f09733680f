CONSTANTS
    d1 = d1
    d2 = d2
    Device = {d1, d2}
    Nodes = Nodes
    Stories <- JoinOrInvite
    MaxRestarts = 1
SPECIFICATION FairSpec
INVARIANTS ConsentFirst NoInviteSkipped
PROPERTIES MembershipSettles
CHECK_DEADLOCK FALSE
