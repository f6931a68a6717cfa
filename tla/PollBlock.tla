------------------------------ MODULE PollBlock -----------------------------
(***************************************************************************)
(* The poll block                                                            *)
(* (components/editor/plugins/poll/poll-component.tsx). Every handler        *)
(* computes the whole list of options from the props it was rendered with.   *)
(* An option is its id; the question and the texts are left out, the edits   *)
(* that change them are not. A vote is counted as often as the list of an    *)
(* option names the user.                                                    *)
(***************************************************************************)
EXTENDS SharedBlock

CONSTANTS
  Users,
  Options   \* ids an option can get

VARIABLES
  who,      \* the signed-in user of a page, or Anonymous
  minted,   \* option ids handed out
  cast      \* history: <<user, option>> voted for at some time

pollVars == <<who, minted, cast>>

Anonymous == "anonymous"

NoVotes == [o \in Options |-> [u \in Users |-> 0]]
PollValues == [options: SUBSET Options,
               votes: [Options -> [Users -> 0 .. 2]]]

(* beforeCreate: two options of their own.                                   *)
PollInit ==
  /\ \E two \in SUBSET Options :
       /\ Cardinality(two) = 2
       /\ BlockInit("poll", [options |-> two, votes |-> NoVotes])
       /\ minted = two
  /\ who \in [Pages -> Users \cup {Anonymous}]
  /\ cast = {}

(* poll-user-context.tsx: until the profile is there nobody may vote.        *)
SignedIn(p) == who[p] # Anonymous

(* handleVote toggles. *)
Toggled(list, base, u) == IF list[u] > 0 THEN [base EXCEPT ![u] = 0]
                          ELSE [base EXCEPT ![u] = @ + 1]

Vote(p) ==
  /\ kind = "poll" /\ SignedIn(p)
  /\ \E o \in seen[p].options :
       LET now == seen[p].votes[o] IN
       /\ Put(p, [seen[p] EXCEPT !.votes[o] = Toggled(now, now, who[p])])
       /\ cast' = cast \cup {<<who[p], o>>}
  /\ UNCHANGED <<who, minted>>

(* handleOptionText sends every option again; handleQuestion none of them.   *)
RetextOption(p) ==
  /\ kind = "poll"
  /\ Put(p, seen[p])
  /\ UNCHANGED pollVars

RetextQuestion(p) ==
  /\ kind = "poll"
  /\ Put(p, props[p])
  /\ UNCHANGED pollVars

AddOption(p) ==
  /\ kind = "poll"
  /\ \E o \in Options \ minted :
       /\ Put(p, [seen[p] EXCEPT !.options = @ \cup {o}])
       /\ minted' = minted \cup {o}
  /\ UNCHANGED <<who, cast>>

\* Mutant: the limit is checked after the option is gone.
DeleteOptionLate(p) ==
  /\ kind = "poll"
  /\ \E o \in seen[p].options :
       /\ Cardinality(props[p].options) > 1
       /\ Put(p, [seen[p] EXCEPT !.options = @ \ {o},
                                 !.votes[o] = NoVotes[o]])
  /\ UNCHANGED pollVars

DeleteOption(p) ==
  /\ kind = "poll"
  /\ \E o \in seen[p].options :
       /\ Cardinality(seen[p].options) > 2
       /\ Put(p, [seen[p] EXCEPT !.options = @ \ {o},
                                 !.votes[o] = NoVotes[o]])
  /\ UNCHANGED pollVars

RenderPoll(p) ==
  kind = "poll" /\ Renders(p) /\ UNCHANGED <<kind, props, inbox, edits>>

UsePoll(p) ==
  \/ Vote(p) \/ RetextOption(p) \/ RetextQuestion(p)
  \/ AddOption(p) \/ DeleteOption(p)
  \/ RenderPoll(p) /\ UNCHANGED pollVars

(* A poll of at least two options, where a user counts once for an option    *)
(* and only if they voted for it.                                            *)
PollSound(poll) ==
  /\ Cardinality(poll.options) >= 2
  /\ \A o \in Options, u \in Users :
       /\ poll.votes[o][u] <= 1
       /\ poll.votes[o][u] > 0 => o \in poll.options /\ <<u, o>> \in cast
=============================================================================
