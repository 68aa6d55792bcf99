------------------------------ MODULE Elections ------------------------------
(***************************************************************************)
(* One election: its ballot tokens, ballots, proxy designations, closing   *)
(* and certification.  Nothing here runs in a transaction or reads with a  *)
(* lock: a request is a sequence of round trips, each a step, and what     *)
(* keeps them apart are the unique indexes (a token per person, a ballot   *)
(* per token, a designation per owner) and the foreign keys.  Requests     *)
(* occupy slots; the closing sweep of election-scheduler.ts is one more    *)
(* process.                                                                *)
(*                                                                         *)
(* Left out: the options (there is one, so an election may open) and the   *)
(* choices of a ballot, mails, documents, opensAt, board-only elections.   *)
(* The proxy check of castBallot never fires: nothing writes the column    *)
(* proxyForUnitId it looks for.                                            *)
(***************************************************************************)
EXTENDS Naturals, FiniteSets

CONSTANTS
    Persons, Units,
    Slots,          \* requests under way at once
    Rule,           \* votingRule: "unit-weighted" or "person-weighted"
    Quorum,         \* quorumPercent
    FirstOwners,    \* the ownerships as the election is set up
    MaxTurns,       \* bound: units sold, changes by an administrator after the
                    \* opening, requests and sweeps that die
    NoPerson, NoUnit, NoCertificate

ASSUME ElectionAssumption ==
    /\ IsFiniteSet(Persons) /\ IsFiniteSet(Units) /\ NoPerson \notin Persons /\ NoUnit \notin Units
    /\ Rule \in {"unit-weighted", "person-weighted"}
    /\ Quorum \in 1..100
    /\ FirstOwners \subseteq Units \X Persons
    /\ MaxTurns \in Nat

--------------------------------------------------------------------------------
ElectionStatus == {"draft", "open", "closed", "certified", "cancelled", "deleted"}

\* A row of election_ballot_tokens; "none": there is none for this person.
Token == [status : {"none", "pending", "cast", "consumed", "revoked"},
          unit : Units \cup {NoUnit}]
NoToken == [status |-> "none", unit |-> NoUnit]

\* The certification summary.
Certificate == [votes : Nat, eligible : Nat]

Task == [pc : {"idle", "v_election", "v_insert", "v_spend",
               "g_existing", "g_insert", "g_count",
               "d_update", "d_insert", "d_lockout", "r_update", "r_giveback",
               "c_revoke", "c_cancel", "t_election", "t_casts", "t_certify",
               "x_proxies", "x_tokens", "x_election"},
         person : Persons \cup {NoPerson},
         todo : SUBSET (Units \X Persons),   \* eligiblePairs left to do
         known : SUBSET Persons,             \* existingPersonIds
         eligible : Nat, votes : Nat]

Idle == [pc |-> "idle", person |-> NoPerson, todo |-> {}, known |-> {},
         eligible |-> 0, votes |-> 0]

VARIABLES
    status,     \* elections.status
    expired,    \* closesAt has passed
    eligible,   \* elections.eligibleVoterCount
    certificate,
    token,      \* election_ballot_tokens, one per person
    ballots,    \* rows of election_ballot_casts for the person's token
    proxy,      \* election_proxy_designations, one per owner
    owners,     \* ownerships without an endDate
    task,       \* what each slot is doing
    sweep,      \* the closing sweep
    receipts,   \* history: who was answered with a confirmationRef
    loose,      \* history: voting went on beside or after the tally
    turns

vars == <<status, expired, eligible, certificate, token, ballots, proxy, owners,
          task, sweep, receipts, loose, turns>>
election == <<status, expired, eligible, certificate, loose>>

TypeOK ==
    /\ status \in ElectionStatus /\ expired \in BOOLEAN /\ eligible \in Nat
    /\ certificate \in Certificate \cup {NoCertificate}
    /\ token \in [Persons -> Token]
    /\ ballots \in [Persons -> Nat]
    /\ proxy \in [Persons -> {"none", "active", "revoked"}]
    /\ owners \subseteq Units \X Persons
    /\ task \in [Slots -> Task]
    /\ sweep \in {"idle", "close"}
    /\ receipts \subseteq Persons /\ loose \in BOOLEAN
    /\ turns \in 0..MaxTurns

Init ==
    /\ status = "draft" /\ expired = FALSE /\ eligible = 0
    /\ certificate = NoCertificate
    /\ token = [p \in Persons |-> NoToken]
    /\ ballots = [p \in Persons |-> 0]
    /\ proxy = [p \in Persons |-> "none"]
    /\ owners = FirstOwners
    /\ task = [s \in Slots |-> Idle]
    /\ sweep = "idle"
    /\ receipts = {} /\ loose = FALSE
    /\ turns = 0

--------------------------------------------------------------------------------
Exists == status # "deleted"
Voters == {p \in Persons : ballots[p] > 0}
Votes == Cardinality(Voters)
Statuses(S) == {p \in Persons : token[p].status \in S}

Turn == turns < MaxTurns /\ turns' = turns + 1

At(s, l) == task[s].pc = l
Go(s, l) == task' = [task EXCEPT ![s].pc = l]
Begin(s, l, p) == At(s, "idle") /\ task' = [task EXCEPT ![s] = [Idle EXCEPT !.pc = l, !.person = p]]
End(s) == task' = [task EXCEPT ![s] = Idle]

\* UPDATE ... SET status = new WHERE person IN P AND status = old.
SetTokens(P, old, new) ==
    token' = [p \in Persons |-> IF p \in P /\ token[p].status = old
                                THEN [token[p] EXCEPT !.status = new] ELSE token[p]]

--------------------------------------------------------------------------------
(* castBallot.                                                               *)

VoteToken(s, p) ==
    /\ token[p].status = "pending" /\ Begin(s, "v_election", p)
    /\ UNCHANGED <<election, token, ballots, proxy, owners, sweep, receipts, turns>>

VoteByDate(s) ==   \* mutant: the status is not looked at
    /\ At(s, "v_election")
    /\ IF Exists /\ ~expired THEN Go(s, "v_insert") ELSE End(s)
    /\ UNCHANGED <<election, token, ballots, proxy, owners, sweep, receipts, turns>>

VoteElection(s) ==
    /\ At(s, "v_election")
    /\ IF status = "open" /\ ~expired THEN Go(s, "v_insert") ELSE End(s)
    /\ UNCHANGED <<election, token, ballots, proxy, owners, sweep, receipts, turns>>

VoteInsertAny(s) ==   \* mutant: no unique index on the token
    LET p == task[s].person IN
    /\ At(s, "v_insert") /\ Go(s, "v_spend")
    /\ ballots' = [ballots EXCEPT ![p] = @ + 1]
    /\ UNCHANGED <<election, token, proxy, owners, sweep, receipts, turns>>

\* The ballot: its token must still be there, and have none.
VoteInsert(s) ==
    LET p == task[s].person IN
    /\ At(s, "v_insert")
    /\ IF token[p].status # "none" /\ ballots[p] = 0
       THEN /\ ballots' = [ballots EXCEPT ![p] = @ + 1]
            /\ Go(s, "v_spend")
       ELSE End(s) /\ UNCHANGED ballots
    /\ UNCHANGED <<election, token, proxy, owners, sweep, receipts, turns>>

VoteSpend(s) ==
    LET p == task[s].person IN
    /\ At(s, "v_spend")
    /\ token' = [token EXCEPT ![p].status = "cast"]
    /\ receipts' = receipts \cup {p}
    /\ End(s)
    /\ UNCHANGED <<election, ballots, proxy, owners, sweep, turns>>

--------------------------------------------------------------------------------
(* generateBallotTokens.                                                     *)

\* eligiblePairs: of each unit the first owner the query returns, or of each
\* owner the first unit.
EligiblePairs ==
    LET k == IF Rule = "unit-weighted" THEN 1 ELSE 2 IN
    {S \in SUBSET owners : \A o \in owners : Cardinality({r \in S : r[k] = o[k]}) = 1}

GeneratePairs(s) ==
    /\ Exists /\ At(s, "idle")
    /\ \E S \in EligiblePairs :
         task' = [task EXCEPT ![s] = [Idle EXCEPT !.pc = "g_existing", !.todo = S,
                                                  !.eligible = Cardinality(S)]]
    /\ UNCHANGED <<election, token, ballots, proxy, owners, sweep, receipts, turns>>

GenerateExisting(s) ==
    /\ At(s, "g_existing")
    /\ task' = [task EXCEPT ![s].pc = "g_insert", ![s].known = Persons \ Statuses({"none"})]
    /\ UNCHANGED <<election, token, ballots, proxy, owners, sweep, receipts, turns>>

\* One pair after another; the unique index or the foreign key may refuse one.
GenerateInsert(s) ==
    /\ At(s, "g_insert")
    /\ \/ /\ task[s].todo = {}
          /\ Go(s, "g_count") /\ UNCHANGED token
       \/ \E r \in task[s].todo :
            LET rest == [task[s] EXCEPT !.todo = @ \ {r}] IN
            IF r[2] \in task[s].known
            THEN task' = [task EXCEPT ![s] = rest] /\ UNCHANGED token
            ELSE IF Exists /\ token[r[2]].status = "none"
            THEN /\ token' = [token EXCEPT ![r[2]] = [status |-> "pending", unit |-> r[1]]]
                 /\ task' = [task EXCEPT ![s] = rest]
            ELSE End(s) /\ UNCHANGED token
    /\ UNCHANGED <<election, ballots, proxy, owners, sweep, receipts, turns>>

GenerateCountNew(s) ==   \* mutant: voters who had a token do not count
    /\ At(s, "g_count") /\ End(s)
    /\ eligible' = task[s].eligible - Cardinality(task[s].known)
    /\ UNCHANGED <<status, expired, certificate, loose, token, ballots, proxy, owners,
                   sweep, receipts, turns>>

GenerateCount(s) ==
    /\ At(s, "g_count")
    /\ eligible' = task[s].eligible
    /\ End(s)
    /\ UNCHANGED <<status, expired, certificate, loose, token, ballots, proxy, owners,
                   sweep, receipts, turns>>

--------------------------------------------------------------------------------
(* createProxyDesignation and revokeProxyDesignation.                        *)

Designate(s, p) ==
    /\ Begin(s, IF proxy[p] = "none" THEN "d_insert" ELSE "d_update", p)
    /\ UNCHANGED <<election, token, ballots, proxy, owners, sweep, receipts, turns>>

\* An earlier designation is put back in force, and nothing else is done.
DesignateAgain(s) ==
    LET p == task[s].person IN
    /\ At(s, "d_update")
    /\ proxy' = [proxy EXCEPT ![p] = IF @ = "none" THEN @ ELSE "active"]
    /\ End(s)
    /\ UNCHANGED <<election, token, ballots, owners, sweep, receipts, turns>>

DesignateInsert(s) ==
    LET p == task[s].person IN
    /\ At(s, "d_insert")
    /\ IF Exists /\ proxy[p] = "none"
       THEN proxy' = [proxy EXCEPT ![p] = "active"] /\ Go(s, "d_lockout")
       ELSE End(s) /\ UNCHANGED proxy
    /\ UNCHANGED <<election, token, ballots, owners, sweep, receipts, turns>>

LockOut(s) ==
    /\ At(s, "d_lockout")
    /\ SetTokens({task[s].person}, "pending", "consumed")
    /\ End(s)
    /\ UNCHANGED <<election, ballots, proxy, owners, sweep, receipts, turns>>

Revoke(s, p) ==
    /\ proxy[p] # "none" /\ Begin(s, "r_update", p)
    /\ UNCHANGED <<election, token, ballots, proxy, owners, sweep, receipts, turns>>

RevokeDesignation(s) ==
    LET p == task[s].person IN
    /\ At(s, "r_update")
    /\ proxy' = [proxy EXCEPT ![p] = IF @ = "none" THEN @ ELSE "revoked"]
    /\ Go(s, "r_giveback")
    /\ UNCHANGED <<election, token, ballots, owners, sweep, receipts, turns>>

GiveBackAny(s) ==   \* mutant: the token gets its status back whatever it was
    /\ At(s, "r_giveback") /\ End(s)
    /\ token' = [token EXCEPT ![task[s].person].status = IF @ = "none" THEN @ ELSE "pending"]
    /\ UNCHANGED <<election, ballots, proxy, owners, sweep, receipts, turns>>

GiveBack(s) ==
    /\ At(s, "r_giveback")
    /\ SetTokens({task[s].person}, "consumed", "pending")
    /\ End(s)
    /\ UNCHANGED <<election, ballots, proxy, owners, sweep, receipts, turns>>

--------------------------------------------------------------------------------
(* PATCH /api/elections/:id, as the pages send it, and the closing sweep.    *)

Open ==
    /\ Exists
    /\ IF status = "draft" THEN UNCHANGED turns ELSE Turn
    /\ status' = "open"
    /\ loose' = (loose \/ status # "draft")
    /\ UNCHANGED <<expired, eligible, certificate, token, ballots, proxy, owners, task,
                   sweep, receipts>>

Close ==
    /\ Exists /\ Turn
    /\ status' = "closed"
    /\ UNCHANGED <<expired, eligible, certificate, loose, token, ballots, proxy, owners,
                   task, sweep, receipts>>

\* closesAt is moved into the future.
Extend ==
    /\ Exists /\ Turn
    /\ expired' = FALSE
    /\ UNCHANGED <<status, eligible, certificate, loose, token, ballots, proxy, owners,
                   task, sweep, receipts>>

Cancel(s) ==
    /\ Exists /\ Turn
    /\ Begin(s, IF status = "open" THEN "c_revoke" ELSE "c_cancel", NoPerson)
    /\ UNCHANGED <<election, token, ballots, proxy, owners, sweep, receipts>>

RevokeAllPending(s) ==
    /\ At(s, "c_revoke")
    /\ SetTokens(Persons, "pending", "revoked")
    /\ Go(s, "c_cancel")
    /\ UNCHANGED <<election, ballots, proxy, owners, sweep, receipts, turns>>

CancelElection(s) ==
    /\ At(s, "c_cancel")
    /\ status' = IF Exists THEN "cancelled" ELSE status
    /\ End(s)
    /\ UNCHANGED <<expired, eligible, certificate, loose, token, ballots, proxy, owners,
                   sweep, receipts, turns>>

SweepSelect ==
    /\ sweep = "idle" /\ status = "open" /\ expired
    /\ sweep' = "close"
    /\ UNCHANGED <<election, token, ballots, proxy, owners, task, receipts, turns>>

\* Whatever has become of the election since it was selected.
SweepClose ==
    /\ sweep = "close" /\ sweep' = "idle"
    /\ status' = IF Exists THEN "closed" ELSE status
    /\ UNCHANGED <<expired, eligible, certificate, loose, token, ballots, proxy, owners,
                   task, receipts, turns>>

--------------------------------------------------------------------------------
(* POST /api/elections/:id/certify, with getElectionTally.                   *)

\* Math.round(castCount / Math.max(eligible, 1) * 100)
Participation(votes, voters) ==
    LET n == IF voters = 0 THEN 1 ELSE voters IN (200 * votes + n) \div (2 * n)

Certify(s) ==
    /\ status = "closed" /\ Begin(s, "t_election", NoPerson)
    /\ UNCHANGED <<election, token, ballots, proxy, owners, sweep, receipts, turns>>

TallyElection(s) ==
    /\ At(s, "t_election")
    /\ task' = [task EXCEPT ![s] = IF Exists THEN [@ EXCEPT !.pc = "t_casts", !.eligible = eligible]
                                             ELSE Idle]
    /\ UNCHANGED <<election, token, ballots, proxy, owners, sweep, receipts, turns>>

TallyTokens(s) ==   \* mutant: tokens consumed by proxy are taken for votes
    LET spent == Cardinality(Statuses({"cast", "consumed"})) IN
    /\ At(s, "t_casts")
    /\ task' = [task EXCEPT ![s] =
         IF Participation(spent, @.eligible) >= Quorum
         THEN [@ EXCEPT !.pc = "t_certify", !.votes = spent] ELSE Idle]
    /\ UNCHANGED <<election, token, ballots, proxy, owners, sweep, receipts, turns>>

TallyCasts(s) ==
    /\ At(s, "t_casts")
    /\ task' = [task EXCEPT ![s] =
         IF Participation(Votes, @.eligible) >= Quorum
         THEN [@ EXCEPT !.pc = "t_certify", !.votes = Votes] ELSE Idle]
    /\ loose' = (loose \/ \E r \in Slots : At(r, "v_insert"))
    /\ UNCHANGED <<status, expired, eligible, certificate, token, ballots, proxy, owners,
                   sweep, receipts, turns>>

CertifyElection(s) ==
    /\ At(s, "t_certify")
    /\ IF Exists
       THEN /\ status' = "certified"
            /\ certificate' = [votes |-> task[s].votes, eligible |-> task[s].eligible]
       ELSE UNCHANGED <<status, certificate>>
    /\ End(s)
    /\ UNCHANGED <<expired, eligible, loose, token, ballots, proxy, owners, sweep,
                   receipts, turns>>

--------------------------------------------------------------------------------
(* deleteElection: the foreign keys refuse what is still referred to.        *)

Delete(s) ==
    /\ Exists /\ Votes = 0 /\ Begin(s, "x_proxies", NoPerson)
    /\ UNCHANGED <<election, token, ballots, proxy, owners, sweep, receipts, turns>>

DeleteProxies(s) ==
    /\ At(s, "x_proxies")
    /\ proxy' = [p \in Persons |-> "none"]
    /\ Go(s, "x_tokens")
    /\ UNCHANGED <<election, token, ballots, owners, sweep, receipts, turns>>

DeleteTokens(s) ==
    /\ At(s, "x_tokens")
    /\ IF Votes = 0
       THEN token' = [p \in Persons |-> NoToken] /\ Go(s, "x_election")
       ELSE End(s) /\ UNCHANGED token
    /\ UNCHANGED <<election, ballots, proxy, owners, sweep, receipts, turns>>

DeleteElection(s) ==
    /\ At(s, "x_election")
    /\ status' = IF Statuses({"none"}) = Persons /\ \A p \in Persons : proxy[p] = "none"
                 THEN "deleted" ELSE status
    /\ End(s)
    /\ UNCHANGED <<expired, eligible, certificate, loose, token, ballots, proxy, owners,
                   sweep, receipts, turns>>

--------------------------------------------------------------------------------
(* The world: time, sales, failures.                                         *)

Expire ==
    /\ ~expired /\ expired' = TRUE
    /\ UNCHANGED <<status, eligible, certificate, loose, token, ballots, proxy, owners,
                   task, sweep, receipts, turns>>

Sell ==
    /\ Turn
    /\ \E o \in owners, p \in Persons :
         p # o[2] /\ owners' = (owners \ {o}) \cup {<<o[1], p>>}
    /\ UNCHANGED <<election, token, ballots, proxy, task, sweep, receipts>>

\* A round trip fails, or the machine dies: the request goes no further.
Die(s) ==
    /\ ~At(s, "idle") /\ Turn /\ End(s)
    /\ UNCHANGED <<election, token, ballots, proxy, owners, sweep, receipts>>

SweepDies ==
    /\ sweep = "close" /\ Turn /\ sweep' = "idle"
    /\ UNCHANGED <<election, token, ballots, proxy, owners, task, receipts>>

Voting(s) ==
    \/ \E p \in Persons : VoteToken(s, p)
    \/ VoteElection(s) \/ VoteInsert(s) \/ VoteSpend(s)
Generating(s) ==
    GeneratePairs(s) \/ GenerateExisting(s) \/ GenerateInsert(s) \/ GenerateCount(s)
Designating(s) ==
    \/ \E p \in Persons : Designate(s, p) \/ Revoke(s, p)
    \/ DesignateAgain(s) \/ DesignateInsert(s) \/ LockOut(s)
    \/ RevokeDesignation(s) \/ GiveBack(s)
Ending(s) ==
    \/ Cancel(s) \/ RevokeAllPending(s) \/ CancelElection(s)
    \/ Certify(s) \/ TallyElection(s) \/ TallyCasts(s) \/ CertifyElection(s)
    \/ Delete(s) \/ DeleteProxies(s) \/ DeleteTokens(s) \/ DeleteElection(s)

Next ==
    \/ \E s \in Slots : Voting(s) \/ Generating(s) \/ Designating(s) \/ Ending(s) \/ Die(s)
    \/ Open \/ Close \/ Extend \/ Expire \/ Sell
    \/ SweepSelect \/ SweepClose \/ SweepDies

Spec == Init /\ [][Next]_vars

--------------------------------------------------------------------------------
(* Properties.                                                               *)

\* Links that are opened twice, proxies, revocations, new tokens and deletion
\* at the same time: a voter has one ballot at most, a ballot stays, and who
\* was given a confirmation has one.
Box == INSTANCE BallotBox
BallotsAreKept == Box!Spec

\* A confirmed voter's token is spent for good, and no token is spent without
\* its ballot.
SpentTokens ==
    \A p \in Persons :
        /\ p \in receipts => token[p].status = "cast"
        /\ token[p].status = "cast" => ballots[p] = 1

\* The certificate stands: its ballots are still there, so the quorum it
\* states is met, and the election can no longer be deleted.
CertificateStands ==
    certificate # NoCertificate =>
        /\ Exists
        /\ certificate.votes <= Votes
        /\ Participation(certificate.votes, certificate.eligible) >= Quorum

\* It counts every ballot there will ever be, unless the election was opened
\* again or a ballot was on its way as the casts were read.
CertificateIsComplete ==
    certificate # NoCertificate /\ ~loose => certificate.votes = Votes
==============================================================================
