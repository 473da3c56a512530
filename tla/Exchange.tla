------------------------------ MODULE Exchange ------------------------------
(***************************************************************************)
(* What a request may amount to for its client and for the backends: it is *)
(* either refused with one page or handed to one backend, once; a backend  *)
(* that has it answers in order; and when all is over the client's         *)
(* connection is kept, after a whole answer only, or closed.               *)
(***************************************************************************)
EXTENDS Sequences

CONSTANT Backends

VARIABLES
  taken,   \* the backends that were handed the request
  said,    \* what was written to the client while it could hear it
  verdict  \* "pending", "kept" or "closed"

exchangeVars == <<taken, said, verdict>>

\* What a backend may say: an interim "continue" at most, a head, a body;
\* a "bare" head has none.
Answers == {<<>>, <<"continue">>, <<"head">>, <<"head", "body">>,
            <<"continue", "head">>, <<"continue", "head", "body">>,
            <<"bare">>, <<"continue", "bare">>}
Whole == {s \in Answers : s # <<>> /\ s[Len(s)] \in {"body", "bare"}}

ExchangeInit == taken = {} /\ said = <<>> /\ verdict = "pending"

Take(b) ==
  /\ verdict = "pending" /\ taken = {} /\ said = <<>>
  /\ taken' = {b}
  /\ UNCHANGED <<said, verdict>>

Refuse ==
  /\ verdict = "pending" /\ taken = {} /\ said = <<>>
  /\ said' \in {<<"page">>, <<"forbidden">>}
  /\ UNCHANGED <<taken, verdict>>

Reply(part) ==
  /\ verdict = "pending" /\ taken # {}
  /\ Append(said, part) \in Answers
  /\ said' = Append(said, part)
  /\ UNCHANGED <<taken, verdict>>

Keep ==
  /\ verdict = "pending" /\ said \in Whole
  /\ verdict' = "kept"
  /\ UNCHANGED <<taken, said>>

Close ==
  /\ verdict = "pending"
  /\ verdict' = "closed"
  /\ UNCHANGED <<taken, said>>

ExchangeNext ==
  \/ \E b \in Backends : Take(b)
  \/ Refuse \/ Keep \/ Close
  \/ \E part \in {"continue", "head", "bare", "body"} : Reply(part)

ExchangeSpec == ExchangeInit /\ [][ExchangeNext]_exchangeVars

=============================================================================
