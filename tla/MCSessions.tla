----------------------------- MODULE MCSessions -----------------------------
(* Sessions for TLC: a polling browser whose account is edited, two admins   *)
(* against each other, two signups for one address, a bootstrap.             *)
EXTENDS Sessions, TLC
CONSTANTS ann, bob, id1, id2, id3, b1, b2

Is(e, r) == [email |-> e, role |-> r, active |-> TRUE]
Nobody == [a \in Account |-> None]
Ask(do, on) == [do |-> do, on |-> on, role |-> "unset", active |-> "unset"]
Promote(a, r) == [Ask("patch", a) EXCEPT !.role = r]
Switch(a, v) == [Ask("patch", a) EXCEPT !.active = v]

NoCookie == [b \in Browser |-> None]
AdminAndMember == [Nobody EXCEPT ![id1] = Is(ann, "admin"), ![id2] = Is(bob, "member")]
TwoAdmins == [Nobody EXCEPT ![id1] = Is(ann, "admin"), ![id2] = Is(bob, "admin")]

Scenarios ==
  { [accounts |-> AdminAndMember,
     jar |-> [NoCookie EXCEPT ![b1] = [sub |-> id1, role |-> "admin", iat |-> 0]],
     diligent |-> {b2}, listening |-> {b2}, last |-> 4, boots |-> 0,
     asks |-> {<<b1, Promote(id2, "guest")>>, <<b2, Ask("login", bob)>>, <<b2, Ask("poll", None)>>}],
    [accounts |-> TwoAdmins, jar |-> NoCookie, diligent |-> {}, listening |-> {}, last |-> 0, boots |-> 1,
     asks |-> {<<b1, Ask("login", ann)>>, <<b2, Ask("login", bob)>>,
               <<b1, Ask("delete", id2)>>, <<b1, Ask("delete", id1)>>, <<b2, Switch(id1, "no")>>,
               <<b2, Switch(id1, "yes")>>, <<b2, Promote(id1, "member")>>}],
    [accounts |-> Nobody, jar |-> NoCookie, diligent |-> {}, listening |-> {}, last |-> 2, boots |-> 2,
     asks |-> {<<b1, Ask("signup", ann)>>, <<b2, Ask("signup", ann)>>,
               <<b1, Ask("poll", None)>>, <<b1, Ask("logout", None)>>}] }
=============================================================================
