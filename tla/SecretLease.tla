---------------------------- MODULE SecretLease ----------------------------
(***************************************************************************)
(* What the holders of a Secret name may rely on, whoever works on the     *)
(* Secrets and however stale what they have read: a Secret is a lease of   *)
(* its name.  It is taken when the name is free, by one holder, for one    *)
(* kind of credentials; it is renewed with credentials that last at least  *)
(* as long as those it had, and with its holder, kind and labels as they   *)
(* were; and it ends.  No credentials last longer than GitHub grants.      *)
(***************************************************************************)
EXTENDS Integers

CONSTANTS Keys, Holders, Labels, Validity, Nil

Lease == [holder : Holders \cup {Nil}, type : BOOLEAN, labels : Labels, expires : Nat]

VARIABLES lease, time

leaseVars == <<lease, time>>

Init == lease = [k \in Keys |-> Nil] /\ time = 0

Granted(l) == l.expires <= time + Validity

(* A holder of Nil is one nobody knows: what it takes is never renewed.    *)
Take(k) == lease[k] = Nil /\ lease'[k] \in Lease /\ Granted(lease'[k])

Renew(k) ==
    /\ lease[k] # Nil /\ lease[k].holder # Nil
    /\ lease'[k] \in Lease /\ Granted(lease'[k])
    /\ lease'[k] = [lease[k] EXCEPT !.expires = lease'[k].expires]
    /\ lease[k].expires <= lease'[k].expires

End(k) == lease[k] # Nil /\ lease'[k] = Nil

(* One lease changes at a time.                                            *)
Change ==
    /\ lease' # lease /\ UNCHANGED time
    /\ \E k \in Keys : /\ Take(k) \/ Renew(k) \/ End(k)
                      /\ lease' = [lease EXCEPT ![k] = lease'[k]]

Pass == time' = time + 1 /\ UNCHANGED lease

Next == Change \/ Pass

LeaseSpec == Init /\ [][Next]_leaseVars
=============================================================================
