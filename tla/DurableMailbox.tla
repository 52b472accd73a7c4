--------------------------- MODULE DurableMailbox ---------------------------
(***************************************************************************)
(* What a backend promises an orchestration about its events: an instance  *)
(* that exists has a mailbox of the events accepted for it and not yet     *)
(* processed, a batch of those that a step of the orchestration has taken, *)
(* and a log of those its current execution has processed.  Accepted       *)
(* events come in at the end of the mailbox; a batch is taken from its     *)
(* front and goes back there when it is given up, or to the end of the log *)
(* when the step is done.  So each accepted event is processed once and in *)
(* the order of acceptance, whatever is given up and taken again in        *)
(* between, until the orchestration is over or continues as new.           *)
(***************************************************************************)
EXTENDS Naturals, Sequences, SequencesExt

CONSTANTS Ids, Started  \* Started: the event an execution begins with

VARIABLES mode, mail, batch, log

mvars == <<mode, mail, batch, log>>

Init == \A i \in Ids : /\ mode[i] = "absent"
                       /\ mail[i] = <<>> /\ batch[i] = <<>> /\ log[i] = <<>>

After(n, s) == SubSeq(s, n + 1, Len(s))

(* An event may come in at the end of a mailbox m. *)
AtMostOneMore(m, m2) == m2 = m \/ (m2 # <<>> /\ Front(m2) = m)

Becomes(i, mo, b, l) == mode'[i] = mo /\ batch'[i] = b /\ log'[i] = l

Stays(i) == mail'[i] = mail[i] /\ Becomes(i, mode[i], batch[i], log[i])

Deliver(i) ==
  /\ mode[i] # "absent"
  /\ mail'[i] # <<>> /\ Front(mail'[i]) = mail[i]
  /\ Becomes(i, mode[i], batch[i], log[i])

Create(i) ==
  /\ mode[i] # "live"
  /\ mail'[i] = <<Started>>
  /\ Becomes(i, "live", <<>>, <<>>)

Forget(i) ==
  /\ mode[i] = "over"
  /\ mail'[i] = <<>>
  /\ Becomes(i, "absent", <<>>, <<>>)

Take(i) ==
  \E n \in 1..Len(mail[i]) :
    /\ batch[i] = <<>>
    /\ mail'[i] = After(n, mail[i])
    /\ Becomes(i, mode[i], SubSeq(mail[i], 1, n), log[i])

GiveUp(i) ==
  /\ mail'[i] = batch[i] \o mail[i]
  /\ Becomes(i, mode[i], <<>>, log[i])

(* A step may put one event into the mailbox itself. *)
Process(i) ==
  /\ batch[i] # <<>>
  /\ AtMostOneMore(mail[i], mail'[i])
  /\ \E mo \in {"over"} \union IF mode[i] = "live" THEN {"live"} ELSE {} :
       Becomes(i, mo, <<>>, log[i] \o batch[i])

(* The log is dropped; events of it that found no taker may be kept, before *)
(* those in the mailbox.                                                    *)
ContinueAsNew(i) ==
  /\ mode[i] = "live" /\ batch[i] # <<>>
  /\ mail'[i] # <<>> /\ Head(mail'[i]) = Started
  /\ \E c \in 0..(Len(mail'[i]) - 1) :
       LET kept == SubSeq(mail'[i], 2, c + 1)
       IN  /\ IsInjective(kept)
           /\ ToSet(kept) \subseteq ToSet(log[i] \o batch[i])
           /\ AtMostOneMore(mail[i], After(c + 1, mail'[i]))
  /\ Becomes(i, "live", <<>>, <<>>)

Next == \A i \in Ids : \/ Stays(i) \/ Deliver(i) \/ Create(i) \/ Forget(i)
                       \/ Take(i) \/ GiveUp(i) \/ Process(i) \/ ContinueAsNew(i)

Spec == Init /\ [][Next]_mvars

=============================================================================
