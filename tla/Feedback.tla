------------------------------ MODULE Feedback ------------------------------
(***************************************************************************)
(* ndm_feedback(): a text of environment entries is cut into an array in   *)
(* two loops, one that counts and one that stores; the arguments and the   *)
(* entries go to the core as a document, over a connection of the call's   *)
(* own, and the core answers with the code a script ended with.            *)
(***************************************************************************)
EXTENDS Integers, Sequences, FiniteSetsExt, SequencesExt

CONSTANTS
    EnvChar, Separator, Equals,    \* what environment texts are made of
    MaxText,                    \* bound: their length
    Args,                       \* lists of arguments, the first names the caller
    DefaultTimeout, IntBlock,   \* NDM_CORE_DEFAULT_TIMEOUT and
                                \* NDM_CORE_INTBLOCK_TIMEOUT_, in the same ticks
    None                        \* no document

ASSUME FeedbackAssumption == MaxText \in Nat /\ \A a \in Args : a \in Seq(Range(a))

VARIABLES
    call,       \* the arguments and the text
    fbPc,       \* where the call is
    start,      \* env_start: where the next entry of the text begins
    room,       \* env_count: pointers the array has room for
    entries,    \* env_argv: the entries stored
    document,   \* what is sent
    received,   \* what has reached the core
    reply,      \* what the core answers
    waited,     \* ticks since the call began to wait
    told        \* what the call returned, and errno

fbVars == <<call, fbPc, start, room, entries, document, received, reply, waited, told>>

Text == call.text

\* Where the entry that begins at i ends: at a separator, or with the text.
Cut(i) == Min({k \in i..Len(Text) : Text[k] = Separator} \cup {Len(Text) + 1})

IsEntry(e) == Equals \in Range(e)

\* An entry is cut at the first of its Equals.
Pair(e) ==
    LET k == Min({j \in DOMAIN e : e[j] = Equals})
    IN [name |-> SubSeq(e, 1, k - 1), value |-> SubSeq(e, k + 1, Len(e))]

FeedbackInit ==
    /\ call \in [args : Args, text : BoundedSeq(EnvChar, MaxText)]
    /\ fbPc = "count" /\ start = 1 /\ room = 0 /\ entries = << >>
    /\ document = None /\ received = None /\ reply = None /\ waited = 0
    /\ told = [done |-> FALSE, errno |-> "none"]

FbGoes(to) == fbPc' = to
Gives(done, errno) == FbGoes("returned") /\ told' = [done |-> done, errno |-> errno]

-----------------------------------------------------------------------------
(* The array. *)

Separators == Cardinality({k \in DOMAIN Text : Text[k] = Separator})

\* An entry more than there are separators if there is any text, and the NULL.
Counted == (IF Text = << >> THEN 0 ELSE 1) + Separators + 1

Count ==
    /\ fbPc = "count"
    /\ \/ Gives(FALSE, "ENOMEM") /\ UNCHANGED room
       \/ FbGoes("store") /\ room' = Counted /\ UNCHANGED told
    /\ UNCHANGED <<call, start, entries, document, received, reply, waited>>

\* The last entry is skipped if it is empty: the text ends with a separator.
IsOver == start > Len(Text)

StoreEntry ==
    /\ fbPc = "store" /\ ~IsOver
    /\ LET entry == SubSeq(Text, start, Cut(start) - 1)
       IN /\ entries' = Append(entries, entry)
          /\ start' = Cut(start) + 1
          /\ IF IsEntry(entry) THEN UNCHANGED <<fbPc, told>> ELSE Gives(FALSE, "EINVAL")
    /\ UNCHANGED <<call, room, document, received, reply, waited>>

Stored ==
    /\ fbPc = "store" /\ IsOver
    /\ FbGoes("connect")
    /\ UNCHANGED <<call, start, room, entries, document, received, reply, waited, told>>

-----------------------------------------------------------------------------
(* The exchange. *)

ConnectCore ==
    /\ fbPc = "connect"
    /\ \/ \E e \in {"ENFILE", "ENOENT"} : Gives(FALSE, e)
       \/ FbGoes("build") /\ UNCHANGED told
    /\ UNCHANGED <<call, start, room, entries, document, received, reply, waited>>

Empty == [from |-> << >>, input |-> << >>, environment |-> << >>]

\* Without arguments an empty root is sent, and errno set for nothing.
WholeDocument ==
    IF call.args = << >> THEN Empty
    ELSE [from |-> <<Head(call.args)>>, input |-> Tail(call.args),
          environment |-> [i \in DOMAIN entries |-> Pair(entries[i])]]

\* What is left of it when a node cannot be allocated.
Parts ==
    {Empty} \cup {[WholeDocument EXCEPT !.input = RemoveAt(@, i)] : i \in DOMAIN WholeDocument.input}
            \cup {[WholeDocument EXCEPT !.environment = RemoveAt(@, i)] :
                    i \in DOMAIN WholeDocument.environment}

\* Mutant of IsSendable: nodes that could not be allocated are not noticed.
IsSendableUnchecked(valid) == TRUE

\* ndm_xml_document_is_valid()
IsSendable(valid) == valid

\* An allocation that fails leaves the document invalid.
BuildDocument ==
    /\ fbPc = "build"
    /\ \E valid \in BOOLEAN, stored \in BOOLEAN :
          \E d \in IF valid THEN {WholeDocument} ELSE Parts :
             IF IsSendable(valid) /\ stored
             THEN document' = d /\ FbGoes("send") /\ UNCHANGED told
             ELSE Gives(FALSE, "ENOMEM") /\ UNCHANGED document
    /\ UNCHANGED <<call, start, room, entries, received, reply, waited>>

\* The whole of it gets through, or nothing the core can use.
SendDocument ==
    /\ fbPc = "send" /\ waited < DefaultTimeout
    /\ \/ FbGoes("receive") /\ received' = document /\ UNCHANGED told
       \/ Gives(FALSE, "EPIPE") /\ UNCHANGED received
    /\ UNCHANGED <<call, start, room, entries, document, reply, waited>>

\* An answer without the code is a corrupted one; "0" is the script's success.
Outcome(r) ==
    CASE r = "0" -> "none" [] r = "1" -> "EIO" [] OTHER -> "EBADMSG"

ReceiveReply ==
    /\ fbPc = "receive" /\ reply # None /\ waited < DefaultTimeout
    /\ \/ Gives(Outcome(reply) = "none", Outcome(reply))
       \/ Gives(FALSE, "ENOMEM")
    /\ UNCHANGED <<call, start, room, entries, document, received, reply, waited>>

\* The deadline is that of the default, whatever the caller allowed.
GiveUpWaiting ==
    /\ fbPc \in {"send", "receive"} /\ waited = DefaultTimeout
    /\ Gives(FALSE, "ETIMEDOUT")
    /\ UNCHANGED <<call, start, room, entries, document, received, reply, waited>>

\* A signal is caught, once signals count.
InterruptWait ==
    /\ fbPc \in {"send", "receive"} /\ waited >= IntBlock /\ Gives(FALSE, "EINTR")
    /\ UNCHANGED <<call, start, room, entries, document, received, reply, waited>>

\* External: time passes, up to the deadline.
Pass ==
    /\ fbPc \in {"send", "receive"} /\ waited < DefaultTimeout
    /\ waited' = waited + 1
    /\ UNCHANGED <<call, fbPc, start, room, entries, document, received, reply, told>>

\* External: the core runs a script and answers, well or not.
CoreAnswers ==
    /\ received # None /\ reply = None
    /\ reply' \in {"0", "1", "no code", "no feedback", "garbage"}
    /\ UNCHANGED <<call, fbPc, start, room, entries, document, received, waited, told>>

CallGoesOn ==
    \/ Count \/ StoreEntry \/ Stored \/ ConnectCore \/ BuildDocument \/ SendDocument
    \/ ReceiveReply \/ GiveUpWaiting

FeedbackNext == CallGoesOn \/ InterruptWait \/ Pass \/ CoreAnswers

\* The thread goes on when it can, and clocks do not stop; the core need not
\* answer.
FeedbackSpec ==
    FeedbackInit /\ [][FeedbackNext]_fbVars /\ WF_fbVars(CallGoesOn) /\ WF_fbVars(Pass)

-----------------------------------------------------------------------------
\* What is stored by the second loop has the room the first one counted, with
\* the NULL, which ends the array of a text that is refused as well.
EntriesFit == entries # << >> => Len(entries) < room

\* The entries again, as one text.
Joined(pairs) ==
    FlattenSeq([i \in DOMAIN pairs |->
                  pairs[i].name \o <<Equals>> \o pairs[i].value \o <<Separator>>])

\* A feedback that succeeds has told the core all it was given, entry by entry,
\* and the script's code was zero (without arguments nothing is told); and no
\* entry is stored where there is no room for it.
FeedbackIsTold ==
    /\ EntriesFit
    /\ told.done =>
          /\ reply = "0"
          /\ IF call.args = << >> THEN received = Empty
             ELSE /\ received.from \o received.input = call.args
                  /\ Joined(received.environment) \in {Text, Append(Text, Separator)}

\* The call returns, whether or not the core answers: its deadline passes.
FeedbackReturns == <>(fbPc = "returned")
=============================================================================
