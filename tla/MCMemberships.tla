--------------------------- MODULE MCMemberships ---------------------------
\* Memberships with two requests in flight.
EXTENDS Memberships, TLC

MembershipSymmetry == Permutations(Clients) \cup Permutations(Users) \cup Permutations(Tenants)
                      \cup Permutations(Invites)
=============================================================================
