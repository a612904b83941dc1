------------------------------ MODULE Navigator ------------------------------
(***************************************************************************)
(* The navigator node (navigator_main.py): a destination command becomes a *)
(* NavigateToPose goal; a command that comes while the robot drives cancels*)
(* the goal under way and is started when its result is in; one that comes *)
(* while the action server is away is kept until it is back.               *)
(*                                                                         *)
(* External: the Nav2 action server.  It decides upon the requests in the  *)
(* order they were sent and answers in that order; a goal it accepts ends  *)
(* the one it was executing.                                               *)
(***************************************************************************)
EXTENDS Naturals, Sequences, FiniteSets

CONSTANTS Points,   \* the named destinations of the parameter file
          Unknown,  \* any name that is not among them
          Goals,    \* identities of goals; bounds those alive at the same time
          Nothing   \* None

ASSUME NavigatorAssumption ==
    /\ Unknown \notin Points
    /\ Nothing \notin Points \cup Goals

VARIABLES
    temper,           \* how the others behave, see NavInit
    serverReady,      \* client.server_is_ready()
    pendingCmd, goalInProgress, goalHandle,
    goalCmd, client,  \* per goal: its command; "free", "asked" or "held" by the node
    requests,         \* goals sent and not yet decided upon by the server
    responses,        \* goals decided upon, the answer not yet handled by the node
    server,           \* per goal: "none", "rejected", "running" or "ended"
    cancels,          \* cancel requests under way
    latest            \* the last valid command; Nothing once its goal is rejected

navVars == <<temper, serverReady, pendingCmd, goalInProgress, goalHandle, goalCmd,
             client, requests, responses, server, cancels, latest>>
nav2    == <<requests, responses, server, cancels>>

Free    == {g \in Goals : client[g] = "free"}
Running == {g \in Goals : server[g] = "running"}

\* No answer to a goal request is under way.
Settled == \A g \in Goals : client[g] # "asked"

-----------------------------------------------------------------------------
(* The node *)

\* start_navigation, for the goal identity g the action client hands out.
StartNavigation(cmd, g) ==
    /\ g \in Free
    /\ goalInProgress' = TRUE
    /\ goalCmd' = [goalCmd EXCEPT ![g] = cmd]
    /\ client' = [client EXCEPT ![g] = "asked"]
    /\ requests' = Append(requests, g)

ResetGoalState == goalInProgress' = FALSE /\ goalHandle' = Nothing

CheckServerReady ==
    /\ serverReady
    /\ pendingCmd # Nothing
    /\ ~goalInProgress
    /\ pendingCmd' = Nothing
    /\ \E g \in Goals : StartNavigation(pendingCmd, g)
    /\ UNCHANGED <<temper, serverReady, goalHandle, responses, server, cancels, latest>>

\* Mutants: every command starts its goal at once; the first of several commands
\* that wait for the same result is kept.
StartAtOnce(cmd) ==
    /\ temper.patient => Settled
    /\ cmd \in Points
    /\ latest' = cmd
    /\ \E g \in Goals : StartNavigation(cmd, g)
    /\ UNCHANGED <<temper, serverReady, pendingCmd, goalHandle, responses, server, cancels>>

FirstPendingStays(cmd) ==
    /\ temper.patient => Settled
    /\ cmd \in Points
    /\ latest' = cmd
    /\ IF goalInProgress /\ goalHandle # Nothing
       THEN /\ pendingCmd' = IF pendingCmd = Nothing THEN cmd ELSE pendingCmd
            /\ cancels' = cancels \cup {goalHandle}
            /\ UNCHANGED <<goalInProgress, goalCmd, client, requests>>
       ELSE /\ \E g \in Goals : StartNavigation(cmd, g)
            /\ UNCHANGED <<pendingCmd, cancels>>
    /\ UNCHANGED <<temper, serverReady, goalHandle, responses, server>>

\* cmd_callback.  A preempted goal is only asked to end here; the command waits
\* for its result.
CmdCallback(cmd) ==
    /\ temper.patient => Settled
    /\ IF cmd \notin Points
       THEN UNCHANGED <<pendingCmd, goalInProgress, goalHandle, goalCmd, client, nav2, latest>>
       ELSE /\ latest' = cmd
            /\ IF ~serverReady
               THEN /\ pendingCmd' = cmd
                    /\ UNCHANGED <<goalInProgress, goalHandle, goalCmd, client, nav2>>
               ELSE IF goalInProgress /\ goalHandle # Nothing
               THEN /\ pendingCmd' = cmd
                    /\ cancels' = cancels \cup {goalHandle}
                    /\ UNCHANGED <<goalInProgress, goalHandle, goalCmd, client, requests,
                                  responses, server>>
               ELSE /\ \E g \in Goals : StartNavigation(cmd, g)
                    /\ UNCHANGED <<pendingCmd, goalHandle, responses, server, cancels>>
    /\ UNCHANGED <<temper, serverReady>>

GoalResponseCallback(g) ==
    /\ responses # <<>>
    /\ g = Head(responses)
    /\ responses' = Tail(responses)
    /\ IF server[g] = "rejected"
       THEN /\ ResetGoalState
            /\ client' = [client EXCEPT ![g] = "free"]
            /\ server' = [server EXCEPT ![g] = "none"]
       ELSE /\ goalHandle' = g
            /\ client' = [client EXCEPT ![g] = "held"]
            /\ UNCHANGED <<goalInProgress, server>>
    /\ UNCHANGED <<temper, serverReady, pendingCmd, goalCmd, requests, cancels, latest>>

\* Mutant: the waiting command is started and not taken out of pending_cmd.
ResultKeepsPending(g) ==
    /\ client[g] = "held"
    /\ server[g] = "ended"
    /\ goalHandle' = Nothing
    /\ cancels' = cancels \ {g}
    /\ server' = [server EXCEPT ![g] = "none"]
    /\ IF pendingCmd # Nothing /\ serverReady
       THEN /\ goalInProgress' = TRUE
            /\ goalCmd' = [goalCmd EXCEPT ![g] = pendingCmd]
            /\ client' = [client EXCEPT ![g] = "asked"]
            /\ requests' = Append(requests, g)
       ELSE /\ goalInProgress' = FALSE
            /\ client' = [client EXCEPT ![g] = "free"]
            /\ UNCHANGED <<goalCmd, requests>>
    /\ UNCHANGED <<temper, serverReady, pendingCmd, responses, latest>>

\* result_callback: whichever goal the result is for, the goal state is reset; a
\* waiting command is started, or dropped when the server is away.
ResultCallback(g) ==
    /\ client[g] = "held"
    /\ server[g] = "ended"
    /\ goalHandle' = Nothing
    /\ cancels' = cancels \ {g}
    /\ server' = [server EXCEPT ![g] = "none"]
    /\ pendingCmd' = Nothing
    /\ IF pendingCmd # Nothing /\ serverReady
       THEN /\ goalInProgress' = TRUE
            /\ goalCmd' = [goalCmd EXCEPT ![g] = pendingCmd]
            /\ client' = [client EXCEPT ![g] = "asked"]
            /\ requests' = Append(requests, g)
       ELSE /\ goalInProgress' = FALSE
            /\ client' = [client EXCEPT ![g] = "free"]
            /\ UNCHANGED <<goalCmd, requests>>
    /\ UNCHANGED <<temper, serverReady, responses, latest>>

-----------------------------------------------------------------------------
(* The Nav2 action server (external) *)

Decide ==
    /\ serverReady
    /\ requests # <<>>
    /\ requests' = Tail(requests)
    /\ responses' = Append(responses, Head(requests))
    /\ LET g == Head(requests)
       IN  \/ /\ ~temper.agreeing
              /\ server' = [server EXCEPT ![g] = "rejected"]
              /\ latest' = IF goalCmd[g] = latest THEN Nothing ELSE latest
           \/ /\ server' = [h \in Goals |-> IF h = g THEN "running"
                                            ELSE IF h \in Running THEN "ended" ELSE server[h]]
              /\ UNCHANGED latest
    /\ UNCHANGED <<temper, serverReady, pendingCmd, goalInProgress, goalHandle, goalCmd, client,
                   cancels>>

\* Arrived, aborted, or cancelled.
EndGoal(g) ==
    /\ g \in Running
    /\ server' = [server EXCEPT ![g] = "ended"]
    /\ UNCHANGED <<temper, serverReady, pendingCmd, goalInProgress, goalHandle, goalCmd, client,
                   requests, responses, cancels, latest>>

TakeCancel(g) ==
    /\ g \in cancels
    /\ cancels' = cancels \ {g}
    /\ server' = IF g \in Running THEN [server EXCEPT ![g] = "ended"] ELSE server
    /\ UNCHANGED <<temper, serverReady, pendingCmd, goalInProgress, goalHandle, goalCmd, client,
                   requests, responses, latest>>

\* Discovery finds the server or loses sight of it; the goals live on.
Discover ==
    /\ serverReady' = ~serverReady
    /\ temper.steady => serverReady'
    /\ UNCHANGED <<temper, pendingCmd, goalInProgress, goalHandle, goalCmd, client, nav2,
                   latest>>

-----------------------------------------------------------------------------
\* A patient user gives no command before the answer to the last goal request is
\* in; a steady server is always there; an agreeing one accepts every goal.
NavInit ==
    /\ temper \in [patient: BOOLEAN, steady: BOOLEAN, agreeing: BOOLEAN]
    /\ serverReady = temper.steady
    /\ pendingCmd = Nothing /\ goalInProgress = FALSE /\ goalHandle = Nothing
    /\ goalCmd = [g \in Goals |-> Nothing]
    /\ client = [g \in Goals |-> "free"]
    /\ requests = <<>> /\ responses = <<>>
    /\ server = [g \in Goals |-> "none"]
    /\ cancels = {}
    /\ latest = Nothing

NavNext ==
    \/ CheckServerReady \/ Decide \/ Discover
    \/ \E cmd \in Points \cup {Unknown} : CmdCallback(cmd)
    \/ \E g \in Goals : \/ GoalResponseCallback(g) \/ ResultCallback(g)
                        \/ EndGoal(g) \/ TakeCancel(g)

-----------------------------------------------------------------------------
(* Properties *)

NavTypeOK ==
    /\ temper \in [patient: BOOLEAN, steady: BOOLEAN, agreeing: BOOLEAN]
    /\ {serverReady, goalInProgress} \subseteq BOOLEAN
    /\ {pendingCmd, latest} \subseteq Points \cup {Nothing}
    /\ goalHandle \in Goals \cup {Nothing}
    /\ goalCmd \in [Goals -> Points \cup {Nothing}]
    /\ client \in [Goals -> {"free", "asked", "held"}]
    /\ {requests, responses} \subseteq Seq(Goals)
    /\ server \in [Goals -> {"none", "rejected", "running", "ended"}]
    /\ cancels \subseteq Goals

\* With a steady server the robot ends up driving to the last destination that was
\* named and not rejected, however commands, answers and results of preempted goals
\* interleave (navigator_main.py:124, :180).  Two things may bring an older command
\* kept in pending_cmd back after a newer one: a server that comes and goes, and,
\* for an impatient user, the rejection of one goal while another is under way.
LatestCommandWins ==
    (temper.steady /\ (temper.patient \/ temper.agreeing) /\ requests = <<>> /\ pendingCmd = Nothing /\ latest # Nothing)
        => \A g \in Running : goalCmd[g] = latest

\* With a patient user and a steady server the node has one goal at a time: it is
\* really cancelled, and its result in, before the next is sent.
OneGoalAtATime ==
    (temper.patient /\ temper.steady) => Cardinality(Goals \ Free) <= 1

\* A command that waits is started, replaced by a newer one, or dropped by a
\* result that comes while the server is away; it does not wait for ever.
PendingIsServed == \A cmd \in Points : []<>(pendingCmd # cmd)
=============================================================================
