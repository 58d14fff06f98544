------------------------------- MODULE EventLoop -------------------------------
(***************************************************************************)
(* EventLoop (util/eventloop.cc).  One call of wait_next_event is cut      *)
(* after poll and after each callback, where other threads can act: what   *)
(* poll said is as old as the callbacks before it are many.  Asking the    *)
(* rules and polling are one step, since no other thread sees or changes   *)
(* what the rules look at.                                                 *)
(*                                                                         *)
(* A loop is its rules, in order, and what is left to do of what poll      *)
(* returned.  Every callback of the program reads or writes its            *)
(* descriptor, so that the test for a busy wait never fires.               *)
(***************************************************************************)
EXTENDS Naturals, Sequences, SequencesExt

NewLoop(rules) == [rules |-> rules, due |-> <<>>, pc |-> "run"]

waiting(loop) == loop.pc = "run" /\ loop.due = <<>>

serves(loop, r, defunct) ==
  /\ loop.pc = "run" /\ loop.due # <<>>
  /\ Head(loop.due) = [rule |-> r, defunct |-> defunct]

called(loop) == [loop EXCEPT !.due = Tail(@)]

erased(loop) ==
  [called(loop) EXCEPT !.rules = SelectSeq(@, LAMBDA r : r # Head(loop.due).rule)]

\* wait_next_event.  The rules of ended, whose descriptor is at its end or
\* closed, were cancelled and are erased; of the others asked is the set that is
\* interested, ready what poll finds ready, hup what hangs up.  A rule that is
\* ready will be called, one that was asked for and only hangs up is defunct.
\* Result::Exit when no rule is interested.  A poll that finds nothing to serve
\* (a timeout, a hangup nobody asked about) only comes round again.
wait_next_event(loop, ended, asked, ready, hup) ==
  LET rules  == SelectSeq(loop.rules, LAMBDA r : r \notin ended)
      active == SelectSeq(rules, LAMBDA r : r \in asked \cap (ready \cup hup))
  IN  [loop EXCEPT !.rules = rules,
                   !.due = [k \in DOMAIN active |->
                              [rule |-> active[k], defunct |-> active[k] \notin ready]],
                   !.pc = IF ToSet(rules) \cap asked = {} THEN "exit" ELSE @]
=============================================================================
