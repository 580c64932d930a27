---------------------------- MODULE Conversation ----------------------------
(***************************************************************************)
(* What a chat promises its users, without how answers come about: every   *)
(* turn puts its question into one session, and is answered there at most  *)
(* once, after the question. ChatTurn implements it.                       *)
(***************************************************************************)
EXTENDS Naturals, Sequences

CONSTANTS Turn, Session

VARIABLE log   \* all messages, in the order in which they were stored

Entry == [turn : Turn, role : {"user", "assistant"}, session : Session]

Question(t, s) == [turn |-> t, role |-> "user", session |-> s]
Answer(t, s) == [turn |-> t, role |-> "assistant", session |-> s]

Stored(e) == \E i \in DOMAIN log : log[i] = e

Init == log = <<>>

AskQuestion(t, s) ==
  /\ \A r \in Session : ~Stored(Question(t, r))
  /\ log' = Append(log, Question(t, s))

AnswerQuestion(t, s) ==
  /\ Stored(Question(t, s)) /\ ~Stored(Answer(t, s))
  /\ log' = Append(log, Answer(t, s))

Next == \E t \in Turn, s \in Session : AskQuestion(t, s) \/ AnswerQuestion(t, s)

Spec == Init /\ [][Next]_log

-----------------------------------------------------------------------------

TypeOK == log \in Seq(Entry)

(* A message is stored once. *)
StoredOnce == \A i, j \in DOMAIN log : log[i] = log[j] => i = j

(* An answer is in the session of its question, after it. *)
AnswerFollowsQuestion ==
  \A i \in DOMAIN log : log[i].role = "assistant" =>
    \E j \in 1 .. i - 1 : log[j] = Question(log[i].turn, log[i].session)

(* A turn belongs to one session. *)
OneSessionPerTurn ==
  \A i, j \in DOMAIN log : log[i].turn = log[j].turn => log[i].session = log[j].session

=============================================================================
