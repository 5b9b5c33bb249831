------------------------------- MODULE Voting -------------------------------
(***************************************************************************)
(* Votes on server commands: server/voting.c with its callers in           *)
(* stdinhand.c, connecthand.c and srv_main.c.                              *)
(*                                                                         *)
(* A vote is checked whenever a cast changes and at the end of each turn.  *)
(* A vote that passes runs its command at once, from inside the loop over  *)
(* the votes that found it decided; a command that removes a player        *)
(* detaches a connection, which cancels votes and casts in a loop of its   *)
(* own.  The loops over the list of votes are therefore one step per vote, *)
(* with a stack of the loops under way.                                    *)
(*                                                                         *)
(* No command has VCF_NODISSENT or VCF_TEAMONLY, and VCF_NOPASSALONE       *)
(* changes nothing at 50 percent, so the three flags are left out.         *)
(***************************************************************************)
EXTENDS Integers, FiniteSets, Sequences, SequencesExt

CONSTANTS
    Conns,          \* ids of connections; 0 is not one
    Percent,        \* command_vote_percent, 50 for every command with votes
    MaxVotes,       \* bound: votes called in a behaviour
    Demoted,        \* bound: connections whose access level may be taken away
    Targets         \* bound: connections that a vote may remove

ASSUME ConnsAssumption == IsFiniteSet(Conns) /\ Conns \subseteq Nat \ {0}
ASSUME PercentAssumption == Percent \in 50 .. 99
ASSUME BoundsAssumption ==
    MaxVotes \in Nat /\ Demoted \subseteq Conns /\ Targets \subseteq Conns

VARIABLES
    started,        \* game_was_started
    attached,       \* established connections that control a player
    demoted,        \* those with an access level below ALLOW_BASIC
    votes,          \* vote_list
    last,           \* vote_number_sequence
    loops,          \* the loops over vote_list under way, the innermost last
    closing,        \* connections that have left the lists of connections and
                    \* are still to be detached
    freed           \* a player has been freed whose connection is being detached

vars == <<started, attached, demoted, votes, last, loops, closing, freed>>

Ballots == {"none", "yes", "no", "abstain"}

\* who leaves, or Turn for voting_turn; at is the iterator, the number of the
\* next vote, or End.
Turn == 0
End == 0
Loops == [who : Conns \cup {Turn}, at : 0 .. MaxVotes]

\* removes: the connection whose player the command removes, or Nobody for a
\* command that detaches nobody.  said is a history: what each connection has
\* said since it was attached.
Nobody == 0
Votes == [no : 1 .. MaxVotes, caller : Conns, removes : Conns \cup {Nobody},
          turns : 0 .. 2, casts : [Conns -> Ballots], said : [Conns -> Ballots]]

\* Vote numbers grow along the list, and each caller has one vote.
TypeOK ==
    /\ started \in BOOLEAN
    /\ attached \subseteq Conns /\ demoted \subseteq attached
    /\ votes \in Seq(Votes)
    /\ last \in 0 .. MaxVotes
    /\ loops \in Seq(Loops)
    /\ closing \in Seq(Conns \ attached)
    /\ freed \in BOOLEAN
    /\ \A i, j \in DOMAIN votes : i < j =>
          votes[i].no < votes[j].no /\ votes[i].caller # votes[j].caller

Init ==
    /\ started = FALSE
    /\ attached = Conns
    /\ demoted = {}
    /\ votes = <<>>
    /\ last = 0
    /\ loops = <<>>
    /\ closing = <<>>
    /\ freed = FALSE

Idle == loops = <<>> /\ closing = <<>>

\* conn_can_vote
CanVote == attached \ demoted

Numbers == {votes[i].no : i \in DOMAIN votes}

\* remove_vote of get_vote_by_caller
WithoutVoteOf(vs, c) ==
    LET called == {i \in DOMAIN vs : vs[i].caller = c}
    IN  IF called = {} THEN vs ELSE RemoveAt(vs, CHOOSE i \in called : TRUE)

-----------------------------------------------------------------------------
(***************************************************************************)
(* check_vote                                                              *)
(***************************************************************************)
\* Slip: the casts of those who may not vote any more count.
SaidByAnybody(v, ballot) == Cardinality({c \in attached : v.casts[c] = ballot})

Said(v, ballot) == Cardinality({c \in CanVote : v.casts[c] = ballot})

\* Players who abstain remove themselves from the voting pool.
Base(v) == Cardinality(CanVote) - Said(v, "abstain")
Remaining(v) == Said(v, "none")

EnoughYes(v) == 100 * Said(v, "yes") > Percent * Base(v)

\* Slip: the share of those who have voted.
TooManyNoOfCasts(v) ==
    100 * Said(v, "no") >= (100 - Percent) * (Base(v) - Remaining(v))

TooManyNo(v) == 100 * Said(v, "no") >= (100 - Percent) * Base(v)
NotEnoughNo(v) ==
    100 * (Said(v, "no") + Remaining(v)) < (100 - Percent) * Base(v)

NotEnoughYes(v) == 100 * (Said(v, "yes") + Remaining(v)) <= Percent * Base(v)

\* Slip: a vote waits for its last voter.
ResolvesInTime(v) ==
    /\ CanVote # {}
    /\ \/ EnoughYes(v) \/ TooManyNo(v) \/ NotEnoughNo(v) \/ NotEnoughYes(v)
       \/ Remaining(v) = 0

Resolves(v) ==
    /\ CanVote # {}
    /\ \/ EnoughYes(v) \/ TooManyNo(v) \/ NotEnoughNo(v) \/ NotEnoughYes(v)
       \/ Remaining(v) = 0
       \/ v.turns > 1
       \/ Base(v) = 0

\* Connections whose detachment has begun or is owed; they point to their players.
Leaving == ({loops[k].who : k \in DOMAIN loops} \ {Turn}) \cup Range(closing)

First(vs) == IF vs = <<>> THEN End ELSE Head(vs).no

\* Slip: the casts of the connection are kept.
DetachOnly(c, vs, stack) ==
    /\ attached' = attached \ {c}
    /\ demoted' = demoted \ {c}
    /\ votes' = [i \in DOMAIN WithoutVoteOf(vs, c) |->
                    [WithoutVoteOf(vs, c)[i] EXCEPT !.said[c] = "none"]]
    /\ loops' = stack

\* connection_detach: the vote the connection has called is removed, and a loop
\* starts that takes back its casts (cancel_connection_votes).
Detach(c, vs, stack) ==
    LET others == WithoutVoteOf(vs, c)
    IN  /\ attached' = attached \ {c}
        /\ demoted' = demoted \ {c}
        /\ votes' = [i \in DOMAIN others |-> [others[i] EXCEPT !.said[c] = "none"]]
        /\ loops' = Append(stack, [who |-> c, at |-> First(others)])

\* check_vote for the i-th vote of vs, with the loops in stack under way.  The
\* vote is removed before its command runs.  The command to remove a player
\* frees it, detaching the connections that the player still has.
CheckVote(vs, i, stack) ==
    LET v == vs[i]
    IN  \/ /\ ~ Resolves(v)
           /\ votes' = vs
           /\ loops' = stack
           /\ UNCHANGED <<attached, demoted, freed>>
        \/ /\ Resolves(v)
           /\ ~ EnoughYes(v) \/ v.removes \notin attached
           /\ votes' = RemoveAt(vs, i)
           /\ loops' = stack
           /\ freed' = (EnoughYes(v) /\ v.removes \in Leaving)
           /\ UNCHANGED <<attached, demoted>>
        \/ /\ Resolves(v)
           /\ EnoughYes(v)
           /\ v.removes \in attached
           /\ Detach(v.removes, RemoveAt(vs, i), stack)
           /\ UNCHANGED freed

-----------------------------------------------------------------------------
(***************************************************************************)
(* What players and connections do.                                        *)
(***************************************************************************)

\* connection_vote
Cast(vs, i, c, ballot) ==
    CheckVote([vs EXCEPT ![i].casts[c] = ballot, ![i].said[c] = ballot], i, <<>>)

\* vote_new and the caller's own yes, from handle_stdin_input_real.  A previous
\* vote of the caller is removed.  The remove command is for the pregame.
CallVote(c, removes) ==
    LET others == WithoutVoteOf(votes, c)
        blank  == [d \in Conns |-> "none"]
        new    == [no |-> last + 1, caller |-> c, removes |-> removes,
                   turns |-> 0, casts |-> blank, said |-> blank]
    IN  /\ Idle
        /\ last < MaxVotes
        /\ c \in CanVote
        /\ Percent * Cardinality(CanVote) >= 100
        /\ removes # Nobody => ~ started /\ removes \in attached
        /\ last' = last + 1
        /\ Cast(Append(others, new), Len(others) + 1, c, "yes")
        /\ UNCHANGED <<started, closing>>

\* vote_would_pass_immediately: with a single voter the command runs at once.
RemoveAlone(c, target) ==
    /\ Idle
    /\ c \in CanVote
    /\ Percent * Cardinality(CanVote) < 100
    /\ ~ started
    /\ target \in attached
    /\ Detach(target, votes, <<>>)
    /\ UNCHANGED <<started, last, closing, freed>>

\* handle_vote_submit and vote_command
SubmitVote(c, i, ballot) ==
    /\ Idle
    /\ c \in CanVote
    /\ Cast(votes, i, c, ballot)
    /\ UNCHANGED <<started, last, closing>>

\* cancelvote_command, by the caller or by somebody with the right to.
CancelVote(i) ==
    /\ Idle
    /\ votes' = RemoveAt(votes, i)
    /\ UNCHANGED <<started, attached, demoted, last, loops, closing, freed>>

\* srv_running: the votes of the pregame are cleared.
StartGame ==
    /\ Idle
    /\ ~ started
    /\ started' = TRUE
    /\ votes' = <<>>
    /\ UNCHANGED <<attached, demoted, last, loops, closing, freed>>

\* detach_command, and take_command for another player
Leave(c) ==
    /\ Idle
    /\ c \in attached
    /\ Detach(c, votes, <<>>)
    /\ UNCHANGED <<started, last, closing, freed>>

\* really_close_connections: those that were lost or cut since the last round
\* leave the lists together, in the order of the table of connections ...
LoseConnections(cs) ==
    /\ Idle
    /\ cs # {} /\ cs \subseteq attached
    /\ attached' = attached \ cs
    /\ demoted' = demoted \ cs
    /\ closing' \in SetToSeqs(cs)
    /\ UNCHANGED <<started, votes, last, loops, freed>>

\* ... and are detached one after the other, by lost_connection_to_client.
DetachNext ==
    /\ loops = <<>> /\ closing # <<>>
    /\ Detach(Head(closing), votes, <<>>)
    /\ closing' = Tail(closing)
    /\ UNCHANGED <<started, last, freed>>

\* connection_attach; the id may be that of a connection that has left.
Attach(c) ==
    /\ Idle
    /\ c \notin attached
    /\ attached' = attached \cup {c}
    /\ UNCHANGED <<started, demoted, votes, last, loops, closing, freed>>

\* cmdlevel_command; the votes are not checked.
ChangeAccess(c) ==
    /\ Idle
    /\ c \in attached \cap Demoted
    /\ demoted' = IF c \in demoted THEN demoted \ {c} ELSE demoted \cup {c}
    /\ UNCHANGED <<started, attached, votes, last, loops, closing, freed>>

\* voting_turn, called by end_turn.
EndTurn ==
    /\ Idle
    /\ started
    /\ votes # <<>>
    /\ loops' = <<[who |-> Turn, at |-> First(votes)]>>
    /\ UNCHANGED <<started, attached, demoted, votes, last, closing, freed>>

-----------------------------------------------------------------------------
(***************************************************************************)
(* The loops.  TYPED_LIST_ITERATE moves the iterator to the next link      *)
(* before it runs the body.                                                *)
(***************************************************************************)
Older(n) == IF n = 2 THEN 2 ELSE n + 1

Body(who, i, stack) ==
    \/ /\ who = Turn
       /\ CheckVote([votes EXCEPT ![i].turns = Older(@)], i, stack)
    \/ /\ who # Turn
       /\ votes[i].casts[who] # "none"
       /\ CheckVote([votes EXCEPT ![i].casts[who] = "none"], i, stack)
    \/ /\ who # Turn
       /\ votes[i].casts[who] = "none"
       /\ loops' = stack
       /\ UNCHANGED <<attached, demoted, votes, freed>>

\* The innermost loop at the i-th vote.
VisitVote(i) ==
    LET top  == loops[Len(loops)]
        next == IF i = Len(votes) THEN End ELSE votes[i + 1].no
    IN  /\ loops # <<>> /\ ~ freed
        /\ votes[i].no = top.at
        /\ Body(top.who, i, Append(Front(loops), [top EXCEPT !.at = next]))
        /\ UNCHANGED <<started, last, closing>>

EndLoop ==
    /\ loops # <<>> /\ ~ freed
    /\ loops[Len(loops)].at = End
    /\ loops' = Front(loops)
    /\ UNCHANGED <<started, attached, demoted, votes, last, closing, freed>>

\* The iterator points to a link that has been freed, or connection_detach has
\* to go on with a player that has been.  What follows is undefined; of its
\* outcomes the model has the one that a freed pointer leads to, the end of the
\* process.  The launcher starts the server again.
Crash ==
    /\ loops # <<>>
    /\ freed \/ loops[Len(loops)].at \notin Numbers \cup {End}
    /\ started' = FALSE
    /\ attached' = {}
    /\ demoted' = {}
    /\ votes' = <<>>
    /\ last' = 0
    /\ loops' = <<>>
    /\ closing' = <<>>
    /\ freed' = FALSE

Next ==
    \/ \E c \in Conns :
          \/ \E removes \in Targets \cup {Nobody} : CallVote(c, removes)
          \/ \E target \in Targets : RemoveAlone(c, target)
          \/ \E i \in DOMAIN votes, b \in Ballots \ {"none"} : SubmitVote(c, i, b)
          \/ Leave(c)
          \/ Attach(c)
          \/ ChangeAccess(c)
    \/ \E i \in DOMAIN votes : CancelVote(i) \/ VisitVote(i)
    \/ \E cs \in SUBSET attached : LoseConnections(cs)
    \/ DetachNext
    \/ StartGame
    \/ EndTurn
    \/ EndLoop
    \/ Crash

Spec == Init /\ [][Next]_vars

\* A running game ends its turns, and a loop does not stop half way.
FairSpec ==
    /\ Spec
    /\ SF_vars(EndTurn)
    /\ WF_vars(\/ EndLoop \/ Crash \/ DetachNext
               \/ \E i \in DOMAIN votes : VisitVote(i))

-----------------------------------------------------------------------------
(***************************************************************************)
(* Properties.                                                             *)
(***************************************************************************)

\* Nobody has a vote or a cast in it who is not there: an id that is used again
\* finds nothing of its former owner.  What is left is that of connections still
\* to be detached, and casts that a loop under way has yet to take back.
VotesOfThePresent ==
    \A i \in DOMAIN votes :
        /\ votes[i].caller \in attached \cup Range(closing)
        /\ \A c \in Conns : votes[i].casts[c] # "none" =>
              \/ c \in attached
              \/ c \in Range(closing)
              \/ \E k \in DOMAIN loops :
                    loops[k].who = c /\ 0 < loops[k].at /\ loops[k].at <= votes[i].no

\* A majority of those who may vote and do not abstain has said yes, counted by
\* what each of them last said since it was attached.
Approved(v) ==
    LET present(b) == Cardinality({c \in CanVote : v.said[c] = b})
    IN  100 * present("yes")
            > Percent * (Cardinality(CanVote) - present("abstain"))

Gone(i) == votes[i].no \notin {votes'[k].no : k \in DOMAIN votes'}

\* The check of a loop, or of c's ballot b, ends the i-th vote in this step.
EndsByLoop(i) ==
    loops # <<>> /\ ~ freed /\ Gone(i) /\ votes[i].no = loops[Len(loops)].at
EndsByBallot(i, c, b) == Idle /\ Gone(i) /\ SubmitVote(c, i, b)
Heard(i, c, b) == [votes[i] EXCEPT !.said[c] = b]

\* A player is removed by a vote only when a majority is for it in that moment,
\* however often connections have come, gone and lost their rights, and
\* whatever made the vote be checked.
RemovedByMajority ==
    [][\A i \in DOMAIN votes : (attached' # attached \/ freed' # freed) =>
          /\ EndsByLoop(i) => Approved(votes[i])
          /\ \A c \in CanVote, b \in Ballots \ {"none"} :
                EndsByBallot(i, c, b) => Approved(Heard(i, c, b))]_vars

\* The vote when all who have said nothing say yes.
AtBest(v) ==
    [v EXCEPT !.said = [d \in Conns |-> IF @[d] = "none" THEN "yes" ELSE @[d]]]

Lost(v) == ~ Approved(AtBest(v))

\* Before its second turn a vote fails only when it is lost: not even with the
\* yes of all who have said nothing it would be approved.
FailsOnlyWhenLost ==
    [][\A i \in DOMAIN votes : (votes[i].turns = 0 /\ attached' = attached) =>
          /\ EndsByLoop(i) => Approved(votes[i]) \/ Lost(votes[i])
          /\ \A c \in CanVote, b \in Ballots \ {"none"} :
                EndsByBallot(i, c, b) =>
                    Approved(Heard(i, c, b)) \/ Lost(Heard(i, c, b))]_vars

\* In a running game every vote ends, whoever stays away from it, unless there
\* is nobody left who may vote.
VotesEnd ==
    \A n \in 1 .. MaxVotes :
        (started /\ n \in Numbers) ~> (n \notin Numbers \/ CanVote = {})

\* No loop is left with an iterator to a vote that has been freed: genlist.h
\* warns of "removing the next element pointed to by the iterator".
LoopsStayOnList ==
    \A k \in DOMAIN loops : loops[k].at \in Numbers \cup {End}

\* No vote frees a player whose connection connection_detach is working on, or
\* has still to.
NoPlayerFreedInUse == ~ freed
=============================================================================
