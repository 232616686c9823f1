------------------------------ MODULE MCAccess ------------------------------
EXTENDS Access, TLC

\* A bound: sessions and passwords are explored while there is one user and no
\* organization, everything else without a session, and the domain roles while
\* no request is under way.
Focus ==
  LET alone == live = {} /\ Cardinality({u \in Users : users[u].state # "absent"}) <= 1
      others == {c \in Callers : req[c].op # "login" /\ (req[c].op = "update" => ~req[c].password)}
  IN  /\ (tokens # {} \/ clock > 0) => alone
      /\ ~alone => /\ \A u \in Users : users[u].version = 0
                   /\ others = Callers
      /\ (\E o \in Orgs, u \in Users : members[o][u] \notin {Absent, "admin", "general"}) =>
           \A c \in Callers : req[c] = NoRequest

Sym == Permutations(Callers)
=============================================================================
