----------------------------- MODULE MCServices -----------------------------
(***************************************************************************)
(* What the library does for programs around the core: it executes         *)
(* processes, prepares what they are executed with, splits commands into   *)
(* arguments, opens connections, sends feedback and finds a value in a     *)
(* response.  A behaviour has one subject; the others stay as they are.    *)
(***************************************************************************)
EXTENDS Spawn, StrArg, Opening, Environment, Feedback, ResponsePath,
        TLC

VARIABLE subject

serviceVars == <<subject, spawnVars, argVars, fbVars, accVars, environmentVars, openVars>>

-----------------------------------------------------------------------------
MCEscaped == [c \in {"'", "dq", "bs", "n"} |-> IF c = "n" THEN "lf" ELSE c]

\* No caller's name, a name alone, and an argument.
MCArgs == {<< >>, <<"a">>, <<"a", "b">>}

NodeOf(parent, name, text, attributes) ==
    [parent |-> parent, name |-> name, value |-> text, attrs |-> attributes]
AttrOf(name, text) == [name |-> name, value |-> text]
a == <<"a">>
b == <<"b">>

\* An empty response, one whose first "a" has no "b" and whose names begin alike,
\* and one with the same names at every depth.
MCResponse ==
    {<<NodeOf(0, << >>, "", << >>)>>,
     <<NodeOf(0, << >>, "", << >>), NodeOf(1, a, "yes", <<AttrOf(b, "7")>>),
       NodeOf(1, a, "x", << >>), NodeOf(3, b, "7", << >>),
       NodeOf(2, <<"a", "b">>, "x", <<AttrOf(b, "x"), AttrOf(a, "yes")>>)>>,
     <<NodeOf(0, << >>, "x", <<AttrOf(a, "x")>>), NodeOf(1, b, "7", << >>),
       NodeOf(2, b, "yes", << >>), NodeOf(3, a, "x", <<AttrOf(a, "7")>>)>>}

\* Environments with a name that comes twice, with a value of the same length and of
\* another, with one that is empty, and with an entry that has no "=".
MCOwn ==
    {<< >>, <<Entry(a, a), Entry(b, << >>), Entry(a, b)>>, <<Malformed(a), Entry(b, a)>>}

MCGiven ==
    {<< >>, <<Entry(a, a \o b)>>, <<Entry(<< >>, a), Entry(b, b), Entry(a \o b, a)>>,
     <<Entry(a, << >>), Malformed(b)>>}

MCNumber == "7" :> 7
MCTruth == "yes" :> TRUE

-----------------------------------------------------------------------------
Subjects ==
    {"process", "command", "feedback", "response", "environment", "connection"}

NoCall ==
    /\ call = [args |-> << >>, text |-> << >>] /\ fbPc = "returned"
    /\ start = 1 /\ room = 0 /\ entries = << >> /\ document = None
    /\ received = None /\ reply = None /\ waited = 0
    /\ told = [done |-> FALSE, errno |-> "none"]

NoAccess ==
    /\ response = << >> /\ path = << >> /\ kind = "none" /\ accPc = "idle"
    /\ left = << >> /\ attr = NoValue /\ at = 1
    /\ accError = "none" /\ accValue = NoValue

NoEnvironment ==
    /\ own = << >> /\ envp = << >> /\ dirs = << >> /\ slash = FALSE
    /\ envPc = "none" /\ next = 1 /\ map = << >> /\ size = 0 /\ block = << >>
    /\ hasEnv = FALSE /\ exec = 0 /\ envErrno = "old"

MCInit ==
    /\ subject \in Subjects
    /\ SpawnInit
    /\ ArgInit /\ (subject # "command" => command = << >>)
    /\ IF subject = "feedback" THEN FeedbackInit ELSE NoCall
    /\ IF subject = "response" THEN AccessInit ELSE NoAccess
    /\ IF subject = "environment" THEN EnvironmentInit ELSE NoEnvironment
    /\ OpeningInit

Processes(step) ==
    /\ subject = "process" /\ step
    /\ UNCHANGED <<subject, argVars, fbVars, accVars, environmentVars, openVars>>
Feedbacks(step) ==
    /\ subject = "feedback" /\ step
    /\ UNCHANGED <<subject, spawnVars, argVars, accVars, environmentVars, openVars>>
Commands(step) ==
    /\ subject = "command" /\ step
    /\ UNCHANGED <<subject, spawnVars, fbVars, accVars, environmentVars, openVars>>

MCNext ==
    \/ Processes(SpawnNext)
    \/ Commands(ArgNext)
    \/ Feedbacks(FeedbackNext)
    \/ /\ subject = "response" /\ AccessNext
       /\ UNCHANGED <<subject, spawnVars, argVars, fbVars, environmentVars, openVars>>
    \/ /\ subject = "environment" /\ EnvironmentNext
       /\ UNCHANGED <<subject, spawnVars, argVars, fbVars, accVars, openVars>>
    \/ /\ subject = "connection" /\ OpeningNext
       /\ UNCHANGED <<subject, spawnVars, argVars, fbVars, accVars, environmentVars>>

MCSpec ==
    /\ MCInit /\ [][MCNext]_serviceVars
    /\ \A c \in Caller : /\ WF_serviceVars(Processes(CallerStep(c)))
                         /\ WF_serviceVars(Processes(ChildStep(c)))
    /\ WF_serviceVars(Feedbacks(CallGoesOn)) /\ WF_serviceVars(Feedbacks(Pass))
    /\ WF_serviceVars(Commands(ArgNext))

-----------------------------------------------------------------------------
\* The properties of the modules, of a behaviour that has their subject.
EveryCallReturns ==
    /\ subject = "process" => SpawnReturns
    /\ subject = "feedback" => FeedbackReturns
    /\ subject = "command" => ParseReturns
=============================================================================
