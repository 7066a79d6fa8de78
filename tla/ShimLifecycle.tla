--------------------------- MODULE ShimLifecycle ----------------------------
(***************************************************************************)
(* What a user may rely on about Shim objects, whatever the controllers    *)
(* do: only users create, edit and delete a Shim; a controller may protect *)
(* one that is not being deleted with its finalizer, and may release a     *)
(* protected one that is.  A Shim never comes back under the same uid.     *)
(*                                                                         *)
(* What the controllers do inside is left open.  It is here to tell whose  *)
(* step it is: users' steps leave the controllers where they are, every    *)
(* write of a controller moves it on.                                      *)
(***************************************************************************)
EXTENDS Naturals

CONSTANTS Shims, ShimSpecs, Absent

VARIABLES shim,       \* name -> Absent or [uid, spec, del, fin]
          created,    \* name -> number of Shims created under it
          controller  \* state of the controllers

lifecycleVars == <<shim, created, controller>>

Init == shim = [s \in Shims |-> Absent] /\ created = [s \in Shims |-> 0]

------------------------------------------------------------------------------
(* Users.                                                                   *)

Create(s) ==
  /\ shim[s] = Absent
  /\ created' = [created EXCEPT ![s] = @ + 1]
  /\ \E sp \in ShimSpecs :
       shim' = [shim EXCEPT ![s] = [uid |-> created[s] + 1, spec |-> sp,
                                    del |-> FALSE, fin |-> FALSE]]
  /\ UNCHANGED controller

Edit(s) ==
  /\ shim[s] # Absent
  /\ \E sp \in ShimSpecs : shim' = [shim EXCEPT ![s].spec = sp]
  /\ UNCHANGED <<created, controller>>

Delete(s) ==
  /\ shim[s] # Absent /\ ~shim[s].del
  /\ shim' = [shim EXCEPT ![s] = IF @.fin THEN [@ EXCEPT !.del = TRUE]
                                          ELSE Absent]
  /\ UNCHANGED <<created, controller>>

------------------------------------------------------------------------------
(* The controllers.                                                         *)

Protect(s) ==
  /\ shim[s] # Absent /\ ~shim[s].del
  /\ shim' = [shim EXCEPT ![s].fin = TRUE]
  /\ controller' # controller
  /\ UNCHANGED created

Release(s) ==
  /\ shim[s] # Absent /\ shim[s].del /\ shim[s].fin
  /\ shim' = [shim EXCEPT ![s] = Absent]
  /\ controller' # controller
  /\ UNCHANGED created

\* Whatever else a controller does, no user sees it on a Shim.
Work == controller' # controller /\ UNCHANGED <<shim, created>>

Next == \/ \E s \in Shims : \/ Create(s) \/ Edit(s) \/ Delete(s)
                            \/ Protect(s) \/ Release(s)
        \/ Work

Spec == Init /\ [][Next]_lifecycleVars
=============================================================================
