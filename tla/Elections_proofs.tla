--------------------------- MODULE Elections_proofs ---------------------------
(***************************************************************************)
(* Elections: types, SpentTokens, CertificateStands, CertificateIsComplete *)
(* and the implementation of BallotBox, for any persons, units, requests   *)
(* and quorum.  Requests act on rows they read trips ago; what carries the *)
(* proof is that ballots are never taken back, so that a request which is  *)
(* about to spend a token still finds its ballot, and one about to certify *)
(* a count has a count that is not above the votes.                        *)
(***************************************************************************)
EXTENDS Elections, FiniteSetTheorems, TLAPS

Labels == {"idle", "v_election", "v_insert", "v_spend", "g_existing", "g_insert", "g_count",
           "d_update", "d_insert", "d_lockout", "r_update", "r_giveback",
           "c_revoke", "c_cancel", "t_election", "t_casts", "t_certify",
           "x_proxies", "x_tokens", "x_election"}
Personal == {"v_election", "v_insert", "v_spend", "d_update", "d_insert", "d_lockout",
             "r_update", "r_giveback"}
Tally == {"t_election", "t_casts", "t_certify"}
Ended == status \notin {"draft", "open"}

\* Ballots and tokens: one ballot at most, a spent token has it, it has a token.
RowsOK ==
    \A p \in Persons :
        /\ ballots[p] \in {0, 1}
        /\ ballots[p] = 1 => token[p].status # "none"
        /\ token[p].status = "cast" => ballots[p] = 1
        /\ p \in receipts => token[p].status = "cast"

\* What a request at its step may rely on.
TaskOK(t) ==
    /\ t.pc \in Personal => t.person \in Persons
    /\ t.pc = "v_spend" => ballots[t.person] = 1
    /\ t.pc = "t_certify" => t.votes <= Votes /\ Participation(t.votes, t.eligible) >= Quorum
    /\ ~loose /\ t.pc \in Tally => Ended
    /\ ~loose /\ t.pc = "t_certify" => t.votes = Votes

TasksOK == \A s \in Slots : TaskOK(task[s])

CertificateOK ==
    certificate # NoCertificate =>
        /\ Exists
        /\ certificate.votes <= Votes
        /\ Participation(certificate.votes, certificate.eligible) >= Quorum
        /\ ~loose => certificate.votes = Votes /\ Ended

\* Once the casts have been counted, no ballot is on its way.
Counted == certificate # NoCertificate \/ \E s \in Slots : task[s].pc = "t_certify"
NoneOnItsWay == ~loose /\ Counted => \A s \in Slots : task[s].pc # "v_insert"

IInv == TypeOK /\ RowsOK /\ TasksOK /\ CertificateOK /\ NoneOnItsWay

USE ElectionAssumption

--------------------------------------------------------------------------------
(* Votes, participation and pairs.                                           *)

LEMMA VotesType == Votes \in Nat /\ (Votes = 0 <=> Voters = {}) /\ IsFiniteSet(Voters)
<1>1. Voters \subseteq Persons
  BY DEF Voters
<1>2. IsFiniteSet(Voters)
  BY <1>1, FS_Subset
<1> QED BY <1>2, FS_CardinalityType, FS_EmptySet DEF Votes

LEMMA SameVotes == ASSUME ballots' = ballots PROVE Votes' = Votes
BY DEF Votes, Voters

\* Nobody took part: no quorum is met.
LEMMA NobodyVoted == ASSUME NEW n \in Nat PROVE Participation(0, n) = 0
<1> DEFINE m == IF n = 0 THEN 1 ELSE n
<1>1. m \in Nat /\ m > 0
  OBVIOUS
<1>2. (200 * 0 + m) \div (2 * m) = 0
  <2> HIDE DEF m
  <2>1. 200 * 0 + m = m /\ m \in 0 .. (2 * m - 1)
    BY <1>1
  <2>2. m \div (2 * m) = 0
    BY <1>1, <2>1, Z3
  <2> QED BY <2>1, <2>2
<1> QED BY <1>2 DEF Participation

LEMMA PairsType ==
    ASSUME TypeOK, NEW S \in EligiblePairs
    PROVE  S \subseteq Units \X Persons /\ Cardinality(S) \in Nat
<1>1. S \subseteq Units \X Persons
  BY DEF EligiblePairs, TypeOK
<1>2. IsFiniteSet(Units \X Persons)
  BY FS_Product
<1> QED BY <1>1, <1>2, FS_Subset, FS_CardinalityType

--------------------------------------------------------------------------------
(* Tasks and frames.                                                         *)

LEMMA IdleTask == Idle \in Task /\ Idle.pc = "idle"
<1>1. {} \in SUBSET (Units \X Persons) /\ {} \in SUBSET Persons
  OBVIOUS
<1> QED BY <1>1 DEF Idle, Task

LEMMA BegunTask ==
    ASSUME NEW l \in Labels, NEW p \in Persons \cup {NoPerson}
    PROVE  LET u == [Idle EXCEPT !.pc = l, !.person = p] IN
           u \in Task /\ u.pc = l /\ u.person = p
BY IdleTask DEF Idle, Task, Labels

LEMMA MovedTask ==
    ASSUME NEW t \in Task, NEW l \in Labels
    PROVE  LET u == [t EXCEPT !.pc = l] IN
           /\ u \in Task /\ u.pc = l /\ u.person = t.person
           /\ u.votes = t.votes /\ u.eligible = t.eligible
BY DEF Task, Labels

\* Neither the ballots nor the end of voting are taken back.
Onward ==
    /\ \A p \in Persons : ballots[p] = 1 => ballots'[p] = 1
    /\ Votes <= Votes'
    /\ loose => loose'
    /\ ~loose' /\ Ended => Ended'
    /\ ~loose' /\ Counted => Votes' = Votes

\* What a request relies on holds after a step of another.
LEMMA TasksFrame ==
    ASSUME IInv, Onward, Votes' \in Nat, NEW s \in Slots, NEW u \in Task, TaskOK(u)',
           task' = [task EXCEPT ![s] = u]
    PROVE  task' \in [Slots -> Task] /\ TasksOK'
<1>1. task' \in [Slots -> Task]
  BY DEF IInv, TypeOK
<1>2. ASSUME NEW q \in Slots PROVE TaskOK(task[q])'
  <2>1. CASE q = s
    <3>1. task'[q] = u
      BY <2>1 DEF IInv, TypeOK
    <3> QED BY <3>1 DEF TaskOK
  <2>2. CASE q # s
    <3>1. task'[q] = task[q] /\ task[q] \in Task
      BY <2>2 DEF IInv, TypeOK
    <3>2. TaskOK(task[q])
      BY DEF IInv, TasksOK
    <3>3. task[q].person \in Persons /\ task[q].pc = "v_spend" => ballots'[task[q].person] = 1
      BY <3>2 DEF TaskOK, Onward
    <3>4. task[q].pc = "t_certify" =>
            task[q].votes <= Votes' /\ Participation(task[q].votes, task[q].eligible) >= Quorum
      BY <3>1, <3>2, VotesType DEF TaskOK, Onward, Task
    <3>5. ~loose' /\ task[q].pc \in Tally => Ended'
      BY <3>2 DEF TaskOK, Onward
    <3>6. ~loose' /\ task[q].pc = "t_certify" => task[q].votes = Votes'
      BY <3>2 DEF TaskOK, Onward, Counted
    <3> QED BY <3>1, <3>2, <3>3, <3>4, <3>5, <3>6 DEF TaskOK, Personal
  <2> QED BY <2>1, <2>2
<1> QED BY <1>1, <1>2 DEF TasksOK

LEMMA IdleFrame ==
    ASSUME IInv, Onward, Votes' \in Nat, NEW s \in Slots, End(s)
    PROVE  task' \in [Slots -> Task] /\ TasksOK'
<1>1. TaskOK(Idle)'
  BY IdleTask DEF TaskOK, Personal, Tally
<1> QED BY <1>1, IdleTask, TasksFrame DEF End

\* No ballot gets on its way once the casts have been counted.
LEMMA WayFrame ==
    ASSUME IInv, NEW s \in Slots, NEW u \in Task, task' = [task EXCEPT ![s] = u],
           loose => loose',
           certificate' = certificate \/ task[s].pc = "t_certify",
           u.pc = "v_insert" => status = "open",
           u.pc = "t_certify" => loose' \/ \A q \in Slots : task[q].pc # "v_insert"
    PROVE  NoneOnItsWay'
<1> SUFFICES ASSUME ~loose', Counted', NEW q \in Slots PROVE task'[q].pc # "v_insert"
  BY DEF NoneOnItsWay
<1>1. \A r \in Slots : task'[r] = IF r = s THEN u ELSE task[r]
  BY DEF IInv, TypeOK
<1>2. Counted \/ u.pc = "t_certify"
  BY <1>1 DEF Counted
<1>3. \A r \in Slots : task[r].pc # "v_insert"
  BY <1>2 DEF IInv, NoneOnItsWay
<1>4. CASE u.pc = "v_insert"
  <2>1. Counted /\ status = "open"
    BY <1>2, <1>4
  <2>2. Counted => Ended
    <3>1. certificate # NoCertificate => Ended
      BY DEF IInv, CertificateOK
    <3>2. \A r \in Slots : task[r].pc = "t_certify" => Ended
      BY DEF IInv, TasksOK, TaskOK, Tally
    <3> QED BY <3>1, <3>2 DEF Counted
  <2> QED BY <2>1, <2>2 DEF Ended
<1> QED BY <1>1, <1>3, <1>4

\* The certificate stays true while voting stays ended.
LEMMA CertificateFrame ==
    ASSUME IInv, Onward, Votes' \in Nat, UNCHANGED certificate,
           certificate # NoCertificate => Exists'
    PROVE  CertificateOK'
<1>1. CASE certificate # NoCertificate
  <2>1. certificate \in Certificate /\ certificate.votes \in Nat
    BY <1>1 DEF IInv, TypeOK, Certificate
  <2>2. certificate.votes <= Votes /\ Participation(certificate.votes, certificate.eligible) >= Quorum
    BY <1>1 DEF IInv, CertificateOK
  <2>3. certificate.votes <= Votes'
    BY <2>1, <2>2, VotesType DEF Onward
  <2>4. ~loose' => certificate.votes = Votes' /\ Ended'
    BY <1>1 DEF IInv, CertificateOK, Onward, Counted
  <2> QED BY <1>1, <2>2, <2>3, <2>4 DEF CertificateOK
<1>2. CASE certificate = NoCertificate
  BY <1>2 DEF CertificateOK
<1> QED BY <1>1, <1>2

LEMMA SameOnward ==
    ASSUME IInv, ballots' = ballots, loose => loose', ~loose' /\ Ended => Ended'
    PROVE  Onward /\ Votes' = Votes /\ Votes' \in Nat
BY SameVotes, VotesType DEF Onward

LEMMA SameTaskOK ==
    ASSUME UNCHANGED <<status, loose, ballots>>, NEW t, TaskOK(t) PROVE TaskOK(t)'
BY SameVotes DEF TaskOK, Ended

\* No token is spent and none of a spent one's ballots is orphaned.
TokensKept ==
    \A p \in Persons :
        /\ token'[p].status = "cast" <=> token[p].status = "cast"
        /\ token[p].status # "none" => token'[p].status # "none"

\* A step of a request that leaves ballots, status and certificate alone.
LEMMA QuietStep ==
    ASSUME IInv, NEW s \in Slots, NEW u \in Task, task' = [task EXCEPT ![s] = u], TaskOK(u),
           u.pc = "v_insert" => status = "open", u.pc # "t_certify",
           UNCHANGED <<status, certificate, loose, ballots, receipts>>,
           TokensKept, token' \in [Persons -> Token],
           proxy' \in [Persons -> {"none", "active", "revoked"}],
           eligible' \in Nat, UNCHANGED <<expired, owners, sweep>>, turns' \in 0..MaxTurns
    PROVE  IInv'
<1>1. Onward /\ Votes' = Votes /\ Votes' \in Nat
  BY SameOnward DEF Ended
<1>2. task' \in [Slots -> Task] /\ TasksOK'
  BY <1>1, TasksFrame, SameTaskOK
<1>3. NoneOnItsWay'
  BY WayFrame
<1>4. CertificateOK'
  BY <1>1, CertificateFrame DEF IInv, CertificateOK, Exists
<1>5. RowsOK'
  BY DEF IInv, RowsOK, TokensKept
<1>6. TypeOK'
  BY <1>2 DEF IInv, TypeOK
<1> QED BY <1>2, <1>3, <1>4, <1>5, <1>6 DEF IInv

\* A step that touches no more than its request.
LEMMA TaskOnly ==
    ASSUME IInv, NEW s \in Slots, NEW u \in Task, task' = [task EXCEPT ![s] = u], TaskOK(u),
           turns' \in 0..MaxTurns,
           u.pc = "v_insert" => status = "open", u.pc # "t_certify",
           UNCHANGED <<election, token, ballots, proxy, owners, sweep, receipts>>
    PROVE  IInv'
<1>1. UNCHANGED <<status, certificate, loose, ballots, receipts, eligible, expired, owners, sweep>>
  BY DEF election
<1>2. TokensKept
  BY DEF TokensKept
<1>3. /\ token' \in [Persons -> Token] /\ eligible' \in Nat
      /\ proxy' \in [Persons -> {"none", "active", "revoked"}]
  BY <1>1 DEF IInv, TypeOK
<1> QED BY <1>1, <1>2, <1>3, QuietStep

LEMMA IdleKnows == TaskOK(Idle) /\ TaskOK(Idle)'
BY IdleTask DEF TaskOK, Personal, Tally

LEMMA EndOnly ==
    ASSUME IInv, NEW s \in Slots, End(s), turns' \in 0..MaxTurns,
           UNCHANGED <<election, token, ballots, proxy, owners, sweep, receipts>>
    PROVE  IInv'
BY IdleTask, IdleKnows, TaskOnly DEF End

\* A request that begins, and one that goes on, without ballots in hand.
LEMMA BeginOnly ==
    ASSUME IInv, NEW s \in Slots, NEW l \in Labels, NEW p \in Persons \cup {NoPerson},
           Begin(s, l, p), turns' \in 0..MaxTurns,
           l \in Personal => p \in Persons,
           l \notin {"v_insert", "v_spend", "t_certify"},
           l \in Tally => Ended,
           UNCHANGED <<election, token, ballots, proxy, owners, sweep, receipts>>
    PROVE  IInv'
<1>1. PICK u : u = [Idle EXCEPT !.pc = l, !.person = p]
  OBVIOUS
<1>2. u \in Task /\ u.pc = l /\ u.person = p
  BY <1>1, BegunTask
<1>3. TaskOK(u)
  BY <1>2 DEF TaskOK
<1>4. task' = [task EXCEPT ![s] = u]
  BY <1>1 DEF Begin
<1> QED BY <1>2, <1>3, <1>4, TaskOnly

LEMMA MovedKnows ==
    ASSUME IInv, NEW s \in Slots, NEW l \in Labels,
           l \in Personal => task[s].pc \in Personal,
           l \notin {"v_spend", "t_certify"}, l \notin Tally
    PROVE  LET u == [task[s] EXCEPT !.pc = l] IN u \in Task /\ u.pc = l /\ TaskOK(u)
<1>1. PICK u : u = [task[s] EXCEPT !.pc = l]
  OBVIOUS
<1>2. task[s] \in Task /\ TaskOK(task[s])
  BY DEF IInv, TypeOK, TasksOK
<1>3. u \in Task /\ u.pc = l /\ u.person = task[s].person
  BY <1>1, <1>2, MovedTask
<1>4. TaskOK(u)
  BY <1>2, <1>3 DEF TaskOK
<1> QED BY <1>1, <1>3, <1>4

LEMMA SameTurns == ASSUME IInv PROVE turns \in 0..MaxTurns /\ (Turn => turns' \in 0..MaxTurns)
BY DEF IInv, TypeOK, Turn

--------------------------------------------------------------------------------
(* The initial states, and a lemma for each operation.                       *)

LEMMA InitInvariant == Init => IInv
<1> SUFFICES ASSUME Init PROVE IInv
  OBVIOUS
<1>0. NoToken \in Token
  BY DEF NoToken, Token
<1>1. TypeOK
  <2>1. /\ status \in ElectionStatus /\ expired \in BOOLEAN /\ eligible \in Nat /\ loose \in BOOLEAN
        /\ certificate \in Certificate \cup {NoCertificate} /\ sweep \in {"idle", "close"}
    BY DEF Init, ElectionStatus
  <2>3. turns \in 0..MaxTurns /\ receipts \subseteq Persons /\ owners \subseteq Units \X Persons
    BY DEF Init
  <2>2. /\ token \in [Persons -> Token] /\ ballots \in [Persons -> Nat]
        /\ proxy \in [Persons -> {"none", "active", "revoked"}] /\ task \in [Slots -> Task]
    BY <1>0, IdleTask DEF Init
  <2> QED BY <2>1, <2>2, <2>3 DEF TypeOK
<1>2. RowsOK
  BY DEF Init, RowsOK, NoToken
<1>3. TasksOK
  BY IdleKnows DEF Init, TasksOK
<1>4. CertificateOK /\ NoneOnItsWay
  BY IdleTask DEF Init, CertificateOK, NoneOnItsWay, Counted
<1> QED BY <1>1, <1>2, <1>3, <1>4 DEF IInv

\* castBallot: its insert is the one step that adds a ballot.
LEMMA InsertKeeps ==
    ASSUME IInv, NEW s \in Slots, VoteInsert(s)
    PROVE  IInv'
<1> DEFINE p == task[s].person
<1>1. task[s] \in Task /\ task[s].pc = "v_insert" /\ TaskOK(task[s]) /\ p \in Persons
  BY DEF IInv, TypeOK, TasksOK, TaskOK, Personal, VoteInsert, At
<1>2. UNCHANGED <<election, token, proxy, owners, sweep, receipts, turns>>
  BY DEF VoteInsert
<1>3. CASE token[p].status # "none" /\ ballots[p] = 0
  <2>1. ballots' = [ballots EXCEPT ![p] = @ + 1] /\ Go(s, "v_spend")
    BY <1>3 DEF VoteInsert
  <2>2. /\ ballots \in [Persons -> Nat] /\ ballots' \in [Persons -> Nat]
        /\ ballots'[p] = 1 /\ \A q \in Persons \ {p} : ballots'[q] = ballots[q]
    BY <1>1, <1>3, <2>1 DEF IInv, TypeOK
  <2>3. Votes <= Votes' /\ Votes' \in Nat
    <3>1. Voters \subseteq Voters' /\ Voters' \subseteq Persons
      BY <1>1, <1>3, <2>2 DEF Voters
    <3>2. IsFiniteSet(Voters')
      BY <3>1, FS_Subset
    <3> QED BY <3>1, <3>2, FS_Subset, FS_CardinalityType DEF Votes
  <2>4. ~(~loose /\ Counted)
    BY <1>1 DEF IInv, NoneOnItsWay
  <2>5. Onward
    BY <1>2, <1>3, <2>2, <2>3, <2>4 DEF Onward, election, Ended
  <2>6. PICK u : u = [task[s] EXCEPT !.pc = "v_spend"]
    OBVIOUS
  <2>7. u \in Task /\ u.pc = "v_spend" /\ u.person = p
    BY <1>1, <2>6, MovedTask DEF Labels
  <2>8. TaskOK(u)'
    BY <1>1, <2>2, <2>7 DEF TaskOK, Tally
  <2>9. task' = [task EXCEPT ![s] = u]
    BY <2>1, <2>6 DEF Go
  <2>10. task' \in [Slots -> Task] /\ TasksOK'
    BY <2>3, <2>5, <2>7, <2>8, <2>9, TasksFrame
  <2>11. NoneOnItsWay'
    BY <1>2, <2>7, <2>9, WayFrame DEF election
  <2>12. CertificateOK'
    BY <1>2, <2>3, <2>5, CertificateFrame DEF election, IInv, CertificateOK, Exists
  <2>13. RowsOK'
    BY <1>2, <1>3, <2>2 DEF IInv, RowsOK
  <2>14. TypeOK'
    BY <1>2, <2>2, <2>10 DEF IInv, TypeOK, election
  <2> QED BY <2>10, <2>11, <2>12, <2>13, <2>14 DEF IInv
<1>4. CASE ~(token[p].status # "none" /\ ballots[p] = 0)
  <2>1. End(s) /\ UNCHANGED ballots
    BY <1>4 DEF VoteInsert
  <2> QED BY <1>2, <2>1, EndOnly, SameTurns
<1> QED BY <1>3, <1>4

LEMMA VotingKeeps ==
    ASSUME IInv, NEW s \in Slots, Voting(s)
    PROVE  IInv'
<1>1. ASSUME NEW p \in Persons, VoteToken(s, p) PROVE IInv'
  <2>1. "v_election" \in Labels /\ Begin(s, "v_election", p)
    BY <1>1 DEF VoteToken, Labels
  <2> QED BY <1>1, <2>1, BeginOnly, SameTurns DEF VoteToken, Personal, Tally
<1>2. CASE VoteElection(s)
  <2>1. CASE status = "open" /\ ~expired
    <3>1. /\ task' = [task EXCEPT ![s].pc = "v_insert"] /\ task[s].pc = "v_election"
          /\ UNCHANGED <<election, token, ballots, proxy, owners, sweep, receipts, turns>>
      BY <1>2, <2>1 DEF VoteElection, Go, At
    <3>2. PICK u : u = [task[s] EXCEPT !.pc = "v_insert"]
      OBVIOUS
    <3>3. u \in Task /\ u.pc = "v_insert" /\ TaskOK(u)
      BY <3>1, <3>2, MovedKnows DEF Labels, Personal, Tally
    <3>4. task' = [task EXCEPT ![s] = u]
      BY <3>1, <3>2
    <3> QED BY <2>1, <3>1, <3>3, <3>4, TaskOnly, SameTurns
  <2>2. CASE ~(status = "open" /\ ~expired)
    <3>1. End(s)
      BY <1>2, <2>2 DEF VoteElection
    <3> QED BY <1>2, <3>1, EndOnly, SameTurns DEF VoteElection
  <2> QED BY <2>1, <2>2
<1>3. CASE VoteInsert(s)
  BY <1>3, InsertKeeps
<1>4. CASE VoteSpend(s)
  <2> DEFINE p == task[s].person
  <2>1. p \in Persons /\ ballots[p] = 1
    BY <1>4 DEF IInv, TasksOK, TaskOK, Personal, VoteSpend, At
  <2>2. /\ token' = [token EXCEPT ![p].status = "cast"] /\ receipts' = receipts \cup {p} /\ End(s)
        /\ UNCHANGED <<election, ballots, proxy, owners, sweep, turns>>
    BY <1>4 DEF VoteSpend
  <2>3. /\ token' \in [Persons -> Token] /\ token'[p].status = "cast"
        /\ \A q \in Persons \ {p} : token'[q] = token[q]
    BY <2>1, <2>2 DEF IInv, TypeOK, Token
  <2>4. Onward /\ Votes' = Votes /\ Votes' \in Nat
    BY <2>2, SameOnward DEF election, Ended
  <2>5. task' \in [Slots -> Task] /\ TasksOK'
    BY <2>2, <2>4, IdleFrame
  <2>6. NoneOnItsWay'
    BY <2>2, WayFrame, IdleTask DEF election, End
  <2>7. CertificateOK'
    BY <2>2, <2>4, CertificateFrame DEF election, IInv, CertificateOK, Exists
  <2>8. RowsOK'
    BY <2>1, <2>2, <2>3 DEF IInv, RowsOK
  <2>9. TypeOK'
    BY <2>1, <2>2, <2>3, <2>5 DEF IInv, TypeOK, election
  <2> QED BY <2>5, <2>6, <2>7, <2>8, <2>9 DEF IInv
<1> QED BY <1>1, <1>2, <1>3, <1>4 DEF Voting

LEMMA GeneratingKeeps ==
    ASSUME IInv, NEW s \in Slots, Generating(s)
    PROVE  IInv'
<1>0. task[s] \in Task /\ turns \in 0..MaxTurns
  BY DEF IInv, TypeOK
<1>1. CASE GeneratePairs(s)
  <2>1. PICK S \in EligiblePairs :
           task' = [task EXCEPT ![s] = [Idle EXCEPT !.pc = "g_existing", !.todo = S,
                                                    !.eligible = Cardinality(S)]]
    BY <1>1 DEF GeneratePairs
  <2>2. PICK u : u = [Idle EXCEPT !.pc = "g_existing", !.todo = S, !.eligible = Cardinality(S)]
    OBVIOUS
  <2>3. u \in Task /\ u.pc = "g_existing"
    <3>1. S \subseteq Units \X Persons /\ Cardinality(S) \in Nat
      BY PairsType DEF IInv
    <3> QED BY <2>2, <3>1, IdleTask DEF Task
  <2>4. TaskOK(u)
    BY <2>3 DEF TaskOK, Personal, Tally
  <2> QED BY <1>0, <1>1, <2>1, <2>2, <2>3, <2>4, TaskOnly DEF GeneratePairs
<1>2. CASE GenerateExisting(s)
  <2>1. PICK u : u = [task[s] EXCEPT !.pc = "g_insert", !.known = Persons \ Statuses({"none"})]
    OBVIOUS
  <2>2. u \in Task /\ u.pc = "g_insert"
    BY <1>0, <2>1 DEF Task
  <2>3. TaskOK(u)
    BY <2>2 DEF TaskOK, Personal, Tally
  <2>4. task' = [task EXCEPT ![s] = u]
    BY <1>2, <2>1 DEF GenerateExisting
  <2> QED BY <1>0, <1>2, <2>2, <2>3, <2>4, TaskOnly DEF GenerateExisting
<1>3. CASE GenerateInsert(s)
  <2>0. /\ UNCHANGED <<election, ballots, proxy, owners, sweep, receipts, turns>>
        /\ UNCHANGED <<status, expired, eligible, certificate, loose>>
        /\ task[s].pc = "g_insert"
    BY <1>3 DEF GenerateInsert, election, At
  <2>1. CASE Go(s, "g_count") /\ UNCHANGED token
    <3>1. PICK u : u = [task[s] EXCEPT !.pc = "g_count"]
      OBVIOUS
    <3>2. u \in Task /\ u.pc = "g_count" /\ TaskOK(u)
      BY <3>1, MovedKnows DEF Labels, Personal, Tally
    <3>3. task' = [task EXCEPT ![s] = u]
      BY <2>1, <3>1 DEF Go
    <3> QED BY <1>0, <2>0, <2>1, <3>2, <3>3, TaskOnly
  <2>2. ASSUME NEW r \in task[s].todo,
               LET rest == [task[s] EXCEPT !.todo = @ \ {r}] IN
               IF r[2] \in task[s].known
               THEN task' = [task EXCEPT ![s] = rest] /\ UNCHANGED token
               ELSE IF Exists /\ token[r[2]].status = "none"
               THEN /\ token' = [token EXCEPT ![r[2]] = [status |-> "pending", unit |-> r[1]]]
                    /\ task' = [task EXCEPT ![s] = rest]
               ELSE End(s) /\ UNCHANGED token
        PROVE  IInv'
    <3>1. r \in Units \X Persons
      BY <1>0 DEF Task
    <3>2. PICK u : u = [task[s] EXCEPT !.todo = @ \ {r}]
      OBVIOUS
    <3>3. u \in Task /\ u.pc = "g_insert"
      BY <1>0, <2>0, <3>2 DEF Task
    <3>4. TaskOK(u)
      BY <3>3 DEF TaskOK, Personal, Tally
    <3>5. CASE r[2] \in task[s].known
      <4>1. task' = [task EXCEPT ![s] = u] /\ UNCHANGED token
        BY <2>2, <3>2, <3>5
      <4> QED BY <1>0, <2>0, <3>3, <3>4, <4>1, TaskOnly
    <3>6. CASE r[2] \notin task[s].known /\ Exists /\ token[r[2]].status = "none"
      <4>1. /\ token' = [token EXCEPT ![r[2]] = [status |-> "pending", unit |-> r[1]]]
            /\ task' = [task EXCEPT ![s] = u]
        BY <2>2, <3>2, <3>6
      <4>2. [status |-> "pending", unit |-> r[1]] \in Token
        BY <3>1 DEF Token
      <4>3. token' \in [Persons -> Token] /\ TokensKept
        BY <3>1, <3>6, <4>1, <4>2 DEF IInv, TypeOK, TokensKept
      <4>4. proxy' \in [Persons -> {"none", "active", "revoked"}] /\ eligible' \in Nat
        BY <2>0 DEF IInv, TypeOK
      <4> QED BY <1>0, <2>0, <3>3, <3>4, <4>1, <4>3, <4>4, QuietStep
    <3>7. CASE r[2] \notin task[s].known /\ ~(Exists /\ token[r[2]].status = "none")
      <4>1. End(s) /\ UNCHANGED token
        BY <2>2, <3>7
      <4> QED BY <1>0, <2>0, <4>1, EndOnly
    <3> QED BY <3>5, <3>6, <3>7
  <2> QED BY <1>3, <2>1, <2>2 DEF GenerateInsert
<1>4. CASE GenerateCount(s)
  <2>1. /\ task' = [task EXCEPT ![s] = Idle] /\ eligible' = task[s].eligible
        /\ UNCHANGED <<status, expired, certificate, loose, token, ballots, proxy, owners,
                       sweep, receipts, turns>>
    BY <1>4 DEF GenerateCount, End
  <2>2. eligible' \in Nat
    BY <1>0, <2>1 DEF Task
  <2>3. TokensKept
    BY <2>1 DEF TokensKept
  <2>4. /\ proxy' \in [Persons -> {"none", "active", "revoked"}]
        /\ token' \in [Persons -> Token] /\ turns' \in 0..MaxTurns
    BY <1>0, <2>1 DEF IInv, TypeOK
  <2> QED BY <2>1, <2>2, <2>3, <2>4, IdleTask, IdleKnows, QuietStep
<1> QED BY <1>1, <1>2, <1>3, <1>4 DEF Generating

LEMMA SetTokensKeeps ==
    ASSUME IInv, NEW P, NEW old \in {"pending", "consumed"}, NEW new \in {"pending", "consumed", "revoked"},
           SetTokens(P, old, new)
    PROVE  TokensKept /\ token' \in [Persons -> Token]
<1>1. \A p \in Persons : token[p] \in Token /\ [token[p] EXCEPT !.status = new] \in Token
                         /\ [token[p] EXCEPT !.status = new].status = new
  BY DEF IInv, TypeOK, Token
<1>2. \A p \in Persons :
         token'[p] = IF p \in P /\ token[p].status = old THEN [token[p] EXCEPT !.status = new] ELSE token[p]
  BY DEF SetTokens
<1>3. token' \in [Persons -> Token]
  BY <1>1 DEF SetTokens
<1>4. TokensKept
  BY <1>1, <1>2 DEF TokensKept
<1> QED BY <1>3, <1>4

\* A request that ends with a change of tokens or of a designation.
LEMMA EndQuietly ==
    ASSUME IInv, NEW s \in Slots, End(s),
           TokensKept, token' \in [Persons -> Token],
           proxy' \in [Persons -> {"none", "active", "revoked"}],
           UNCHANGED <<election, ballots, owners, sweep, receipts, turns>>
    PROVE  IInv'
<1>1. UNCHANGED <<status, certificate, loose, ballots, receipts, expired, owners, sweep, turns, eligible>>
  BY DEF election
<1>2. eligible' \in Nat /\ turns' \in 0..MaxTurns
  BY <1>1 DEF IInv, TypeOK
<1> QED BY <1>1, <1>2, IdleTask, IdleKnows, QuietStep DEF End

LEMMA GoQuietly ==
    ASSUME IInv, NEW s \in Slots, NEW l \in Labels, Go(s, l),
           l \in Personal => task[s].pc \in Personal,
           l \notin {"v_insert", "v_spend"}, l \notin Tally,
           TokensKept, token' \in [Persons -> Token],
           proxy' \in [Persons -> {"none", "active", "revoked"}],
           UNCHANGED <<election, ballots, owners, sweep, receipts, turns>>
    PROVE  IInv'
<1>1. UNCHANGED <<status, certificate, loose, ballots, receipts, expired, owners, sweep, turns, eligible>>
  BY DEF election
<1>2. eligible' \in Nat /\ turns' \in 0..MaxTurns
  BY <1>1 DEF IInv, TypeOK
<1>3. PICK u : u = [task[s] EXCEPT !.pc = l]
  OBVIOUS
<1>4. u \in Task /\ u.pc = l /\ TaskOK(u)
  BY <1>3, MovedKnows DEF Tally
<1>5. task' = [task EXCEPT ![s] = u]
  BY <1>3 DEF Go
<1> QED BY <1>1, <1>2, <1>4, <1>5, QuietStep DEF Tally

LEMMA DesignatingKeeps ==
    ASSUME IInv, NEW s \in Slots, Designating(s)
    PROVE  IInv'
<1>0. /\ {"d_update", "d_insert", "d_lockout", "r_update", "r_giveback"} \subseteq Labels \cap Personal
      /\ turns \in 0..MaxTurns
      /\ token \in [Persons -> Token] /\ proxy \in [Persons -> {"none", "active", "revoked"}]
      /\ task[s].pc \in Personal => task[s].person \in Persons
  BY DEF Labels, Personal, IInv, TypeOK, TasksOK, TaskOK
<1>1. ASSUME NEW p \in Persons, Designate(s, p) PROVE IInv'
  <2>1. PICK l \in {"d_update", "d_insert"} : Begin(s, l, p)
    BY <1>1 DEF Designate
  <2> QED BY <1>0, <1>1, <2>1, BeginOnly DEF Designate, Tally
<1>2. ASSUME NEW p \in Persons, Revoke(s, p) PROVE IInv'
  <2>1. Begin(s, "r_update", p)
    BY <1>2 DEF Revoke
  <2> QED BY <1>0, <1>2, <2>1, BeginOnly DEF Revoke, Tally
<1>3. CASE DesignateAgain(s)
  <2>1. End(s) /\ UNCHANGED <<election, token, ballots, owners, sweep, receipts, turns>>
    BY <1>3 DEF DesignateAgain
  <2>2. proxy' \in [Persons -> {"none", "active", "revoked"}]
    BY <1>0, <1>3 DEF DesignateAgain
  <2>3. TokensKept /\ token' \in [Persons -> Token]
    BY <1>0, <2>1 DEF TokensKept
  <2> QED BY <2>1, <2>2, <2>3, EndQuietly
<1>4. CASE DesignateInsert(s)
  <2>1. UNCHANGED <<election, token, ballots, owners, sweep, receipts, turns>>
        /\ task[s].pc = "d_insert"
    BY <1>4 DEF DesignateInsert, At
  <2>2. proxy' \in [Persons -> {"none", "active", "revoked"}]
    BY <1>0, <1>4 DEF DesignateInsert
  <2>3. TokensKept /\ token' \in [Persons -> Token]
    BY <1>0, <2>1 DEF TokensKept
  <2>4. Go(s, "d_lockout") \/ End(s)
    BY <1>4 DEF DesignateInsert
  <2> QED BY <1>0, <2>1, <2>2, <2>3, <2>4, EndQuietly, GoQuietly DEF Tally
<1>5. CASE LockOut(s)
  <2>1. End(s) /\ UNCHANGED <<election, ballots, proxy, owners, sweep, receipts, turns>>
    BY <1>5 DEF LockOut
  <2>2. TokensKept /\ token' \in [Persons -> Token]
    BY <1>5, SetTokensKeeps DEF LockOut
  <2> QED BY <1>0, <2>1, <2>2, EndQuietly
<1>6. CASE RevokeDesignation(s)
  <2>1. UNCHANGED <<election, token, ballots, owners, sweep, receipts, turns>>
        /\ task[s].pc = "r_update" /\ Go(s, "r_giveback")
    BY <1>6 DEF RevokeDesignation, At
  <2>2. proxy' \in [Persons -> {"none", "active", "revoked"}]
    BY <1>0, <1>6 DEF RevokeDesignation
  <2>3. TokensKept /\ token' \in [Persons -> Token]
    BY <1>0, <2>1 DEF TokensKept
  <2> QED BY <1>0, <2>1, <2>2, <2>3, GoQuietly DEF Tally
<1>7. CASE GiveBack(s)
  <2>1. End(s) /\ UNCHANGED <<election, ballots, proxy, owners, sweep, receipts, turns>>
    BY <1>7 DEF GiveBack
  <2>2. TokensKept /\ token' \in [Persons -> Token]
    BY <1>7, SetTokensKeeps DEF GiveBack
  <2> QED BY <1>0, <2>1, <2>2, EndQuietly
<1> QED BY <1>1, <1>2, <1>3, <1>4, <1>5, <1>6, <1>7 DEF Designating

\* Whatever changes the status, the sale or the clock without a request.
LEMMA StatusFrame ==
    ASSUME IInv, ballots' = ballots, UNCHANGED <<eligible, certificate, token, proxy, receipts>>,
           loose => loose', ~loose' /\ Ended => Ended',
           certificate # NoCertificate => Exists',
           status' \in ElectionStatus, expired' \in BOOLEAN, loose' \in BOOLEAN,
           owners' \subseteq Units \X Persons, sweep' \in {"idle", "close"},
           turns' \in 0..MaxTurns,
           task' = task \/ \E s \in Slots : End(s)
    PROVE  IInv'
<1>1. Onward /\ Votes' = Votes /\ Votes' \in Nat
  BY SameOnward
<1>2. CertificateOK'
  BY <1>1, CertificateFrame
<1>3. RowsOK'
  BY DEF IInv, RowsOK
<1>4. CASE task' = task
  <2>1. ASSUME NEW q \in Slots PROVE TaskOK(task[q])'
    <3>1. TaskOK(task[q])
      BY DEF IInv, TasksOK
    <3>2. task'[q] = task[q]
      BY <1>4
    <3>3. ~loose' /\ task[q].pc \in Tally => Ended'
      BY <3>1 DEF TaskOK
    <3> QED BY <1>1, <3>1, <3>2, <3>3 DEF TaskOK
  <2>2. NoneOnItsWay'
    BY <1>4 DEF IInv, NoneOnItsWay, Counted
  <2>3. TypeOK'
    BY <1>4 DEF IInv, TypeOK
  <2> QED BY <1>2, <1>3, <2>1, <2>2, <2>3 DEF IInv, TasksOK
<1>5. ASSUME NEW s \in Slots, End(s) PROVE IInv'
  <2>1. task' \in [Slots -> Task] /\ TasksOK'
    BY <1>1, <1>5, IdleFrame
  <2>2. NoneOnItsWay'
    BY <1>5, WayFrame, IdleTask DEF End
  <2>3. TypeOK'
    BY <2>1 DEF IInv, TypeOK
  <2> QED BY <1>2, <1>3, <2>1, <2>2, <2>3 DEF IInv
<1> QED BY <1>4, <1>5

\* While no ballot exists no token is spent, and there is no certificate.
LEMMA NoBallots ==
    ASSUME IInv, Votes = 0
    PROVE  /\ \A p \in Persons : ballots[p] = 0 /\ token[p].status # "cast" /\ p \notin receipts
           /\ certificate = NoCertificate
<1>1. \A p \in Persons : ballots[p] = 0
  BY VotesType DEF IInv, RowsOK, Voters
<1>2. \A p \in Persons : token[p].status # "cast" /\ p \notin receipts
  BY <1>1 DEF IInv, RowsOK
<1>3. ASSUME certificate # NoCertificate PROVE FALSE
  <2>1. certificate.votes \in Nat /\ certificate.eligible \in Nat
    BY <1>3 DEF IInv, TypeOK, Certificate
  <2>2. certificate.votes = 0 /\ Participation(certificate.votes, certificate.eligible) >= Quorum
    BY <1>3, <2>1 DEF IInv, CertificateOK
  <2> QED BY <2>1, <2>2, NobodyVoted
<1> QED BY <1>1, <1>2, <1>3

LEMMA DeletingKeeps ==
    ASSUME IInv, NEW s \in Slots,
           Delete(s) \/ DeleteProxies(s) \/ DeleteTokens(s) \/ DeleteElection(s)
    PROVE  IInv'
<1>0. token \in [Persons -> Token] /\ proxy \in [Persons -> {"none", "active", "revoked"}]
  BY DEF IInv, TypeOK
<1>1. CASE Delete(s)
  <2>1. "x_proxies" \in Labels /\ Begin(s, "x_proxies", NoPerson)
    BY <1>1 DEF Delete, Labels
  <2> QED BY <1>1, <2>1, BeginOnly, SameTurns DEF Delete, Personal, Tally
<1>2. CASE DeleteProxies(s)
  <2>1. /\ "x_tokens" \in Labels /\ Go(s, "x_tokens") /\ proxy' = [p \in Persons |-> "none"]
        /\ UNCHANGED <<election, token, ballots, owners, sweep, receipts, turns>>
    BY <1>2 DEF DeleteProxies, Labels
  <2>2. TokensKept /\ token' \in [Persons -> Token]
    BY <1>0, <2>1 DEF TokensKept
  <2>3. proxy' \in [Persons -> {"none", "active", "revoked"}]
    BY <2>1
  <2> QED BY <2>1, <2>2, <2>3, GoQuietly DEF Personal, Tally
<1>3. CASE DeleteTokens(s)
  <2>1. CASE Votes = 0
    <3>1. /\ "x_election" \in Labels /\ Go(s, "x_election") /\ token' = [p \in Persons |-> NoToken]
          /\ UNCHANGED <<election, ballots, proxy, owners, sweep, receipts, turns>>
      BY <1>3, <2>1 DEF DeleteTokens, Labels
    <3>2. UNCHANGED <<status, expired, eligible, certificate, loose>>
      BY <3>1 DEF election
    <3>3. token' \in [Persons -> Token]
      BY <3>1 DEF NoToken, Token
    <3>4. RowsOK'
      BY <2>1, <3>1, NoBallots DEF RowsOK, NoToken
    <3>5. PICK u : u = [task[s] EXCEPT !.pc = "x_election"]
      OBVIOUS
    <3>6. u \in Task /\ u.pc = "x_election" /\ TaskOK(u) /\ task' = [task EXCEPT ![s] = u]
      BY <3>1, <3>5, MovedKnows DEF Personal, Tally, Go
    <3>7. Onward /\ Votes' = Votes /\ Votes' \in Nat
      BY <3>1, <3>2, SameOnward DEF Ended
    <3>8. task' \in [Slots -> Task] /\ TasksOK'
      BY <3>1, <3>2, <3>6, <3>7, TasksFrame, SameTaskOK
    <3>9. NoneOnItsWay'
      BY <3>2, <3>6, WayFrame
    <3>10. CertificateOK'
      BY <3>2, <3>7, CertificateFrame DEF IInv, CertificateOK, Exists
    <3>11. TypeOK'
      BY <3>1, <3>2, <3>3, <3>8 DEF IInv, TypeOK
    <3> QED BY <3>4, <3>8, <3>9, <3>10, <3>11 DEF IInv
  <2>2. CASE Votes # 0
    <3>1. End(s) /\ UNCHANGED token
      BY <1>3, <2>2 DEF DeleteTokens
    <3> QED BY <1>3, <3>1, EndOnly, SameTurns DEF DeleteTokens
  <2> QED BY <2>1, <2>2
<1>4. CASE DeleteElection(s)
  <2>1. /\ End(s)
        /\ UNCHANGED <<expired, eligible, certificate, loose, token, ballots, proxy, owners,
                       sweep, receipts, turns>>
        /\ status' = IF Statuses({"none"}) = Persons /\ \A p \in Persons : proxy[p] = "none"
                     THEN "deleted" ELSE status
    BY <1>4 DEF DeleteElection
  <2>2. CASE Statuses({"none"}) = Persons /\ status' = "deleted"
    <3>1. \A p \in Persons : ballots[p] = 0
      BY <2>2 DEF Statuses, IInv, RowsOK
    <3>2. Votes = 0
      BY <3>1, VotesType DEF Voters
    <3>3. certificate = NoCertificate
      BY <3>2, NoBallots
    <3>4. Ended' /\ status' \in ElectionStatus
      BY <2>2 DEF Ended, ElectionStatus
    <3>5. /\ expired' \in BOOLEAN /\ loose' \in BOOLEAN /\ owners' \subseteq Units \X Persons
          /\ sweep' \in {"idle", "close"} /\ turns' \in 0..MaxTurns
      BY <2>1 DEF IInv, TypeOK
    <3> QED BY <2>1, <3>3, <3>4, <3>5, StatusFrame
  <2>3. CASE status' = status
    <3>1. UNCHANGED <<election, token, ballots, proxy, owners, sweep, receipts>> /\ turns' = turns
      BY <2>1, <2>3 DEF election
    <3> QED BY <2>1, <3>1, EndOnly, SameTurns
  <2> QED BY <2>1, <2>2, <2>3
<1> QED BY <1>1, <1>2, <1>3, <1>4

LEMMA CertifyingKeeps ==
    ASSUME IInv, NEW s \in Slots,
           Certify(s) \/ TallyElection(s) \/ TallyCasts(s) \/ CertifyElection(s)
    PROVE  IInv'
<1>0. /\ task[s] \in Task /\ TaskOK(task[s]) /\ turns \in 0..MaxTurns
      /\ eligible \in Nat /\ loose \in BOOLEAN
  BY DEF IInv, TypeOK, TasksOK
<1>1. CASE Certify(s)
  <2>1. /\ "t_election" \in Labels /\ Begin(s, "t_election", NoPerson) /\ Ended
        /\ UNCHANGED <<election, token, ballots, proxy, owners, sweep, receipts, turns>>
    BY <1>1 DEF Certify, Labels, Ended
  <2> QED BY <2>1, BeginOnly, SameTurns DEF Personal
<1>2. CASE TallyElection(s)
  <2>1. CASE Exists
    <3>1. PICK u : u = [task[s] EXCEPT !.pc = "t_casts", !.eligible = eligible]
      OBVIOUS
    <3>2. u \in Task /\ u.pc = "t_casts"
      BY <1>0, <3>1 DEF Task
    <3>3. task' = [task EXCEPT ![s] = u] /\ task[s].pc = "t_election"
      BY <1>2, <2>1, <3>1 DEF TallyElection, At
    <3>4. TaskOK(u)
      BY <1>0, <3>2, <3>3 DEF TaskOK, Personal, Tally
    <3> QED BY <1>0, <1>2, <3>2, <3>3, <3>4, TaskOnly DEF TallyElection
  <2>2. CASE ~Exists
    <3>1. End(s)
      BY <1>2, <2>2 DEF TallyElection, End
    <3> QED BY <1>2, <3>1, EndOnly, SameTurns DEF TallyElection
  <2> QED BY <2>1, <2>2
<1>3. CASE TallyCasts(s)
  <2>0. /\ task[s].pc = "t_casts" /\ loose' = (loose \/ \E r \in Slots : task[r].pc = "v_insert")
        /\ UNCHANGED <<status, expired, eligible, certificate, token, ballots, proxy, owners,
                       sweep, receipts, turns>>
    BY <1>3 DEF TallyCasts, At
  <2>1. CASE Participation(Votes, task[s].eligible) >= Quorum
    <3>1. PICK u : u = [task[s] EXCEPT !.pc = "t_certify", !.votes = Votes]
      OBVIOUS
    <3>2. /\ u \in Task /\ u.pc = "t_certify" /\ u.votes = Votes
          /\ u.eligible = task[s].eligible
      BY <1>0, <3>1, VotesType DEF Task
    <3>3. task' = [task EXCEPT ![s] = u]
      BY <1>3, <2>1, <3>1 DEF TallyCasts
    <3>4. Onward /\ Votes' = Votes /\ Votes' \in Nat
      BY <1>0, <2>0, SameOnward DEF Ended
    <3>5. TaskOK(u)'
      <4>1. ~loose => Ended
        BY <1>0, <2>0 DEF TaskOK, Tally
      <4>2. ~loose' => Ended'
        BY <2>0, <4>1 DEF Ended
      <4>3. u.votes <= Votes' /\ Participation(u.votes, u.eligible) >= Quorum /\ u.votes = Votes'
        BY <2>1, <3>2, <3>4, VotesType
      <4> QED BY <3>2, <4>2, <4>3 DEF TaskOK, Personal
    <3>6. task' \in [Slots -> Task] /\ TasksOK'
      BY <3>2, <3>3, <3>4, <3>5, TasksFrame
    <3>7. NoneOnItsWay'
      BY <2>0, <3>2, <3>3, WayFrame
    <3>8. CertificateOK'
      BY <2>0, <3>4, CertificateFrame DEF IInv, CertificateOK, Exists
    <3>9. RowsOK'
      BY <2>0 DEF IInv, RowsOK
    <3>10. TypeOK'
      BY <2>0, <3>6 DEF IInv, TypeOK
    <3> QED BY <3>6, <3>7, <3>8, <3>9, <3>10 DEF IInv
  <2>2. CASE ~(Participation(Votes, task[s].eligible) >= Quorum)
    <3>1. End(s)
      BY <1>3, <2>2 DEF TallyCasts, End
    <3>2. /\ status' \in ElectionStatus /\ expired' \in BOOLEAN /\ loose' \in BOOLEAN
          /\ owners' \subseteq Units \X Persons /\ sweep' \in {"idle", "close"}
          /\ turns' \in 0..MaxTurns
      BY <1>0, <2>0 DEF IInv, TypeOK
    <3>3. certificate # NoCertificate => Exists'
      BY <2>0 DEF IInv, CertificateOK, Exists
    <3> QED BY <2>0, <3>1, <3>2, <3>3, StatusFrame DEF Ended
  <2> QED BY <2>1, <2>2
<1>4. CASE CertifyElection(s)
  <2>0. /\ task[s].pc = "t_certify" /\ End(s)
        /\ UNCHANGED <<expired, eligible, loose, token, ballots, proxy, owners, sweep,
                       receipts, turns>>
    BY <1>4 DEF CertifyElection, At
  <2>1. CASE Exists
    <3>1. /\ status' = "certified"
          /\ certificate' = [votes |-> task[s].votes, eligible |-> task[s].eligible]
      BY <1>4, <2>1 DEF CertifyElection
    <3>2. certificate' \in Certificate /\ certificate'.votes = task[s].votes
          /\ certificate'.eligible = task[s].eligible
      BY <1>0, <3>1 DEF Certificate, Task
    <3>3. Ended' /\ Exists' /\ status' \in ElectionStatus
      BY <3>1 DEF Ended, Exists, ElectionStatus
    <3>4. Onward /\ Votes' = Votes /\ Votes' \in Nat
      BY <2>0, <3>3, SameOnward
    <3>5. task' \in [Slots -> Task] /\ TasksOK'
      BY <2>0, <3>4, IdleFrame
    <3>6. NoneOnItsWay'
      BY <2>0, WayFrame, IdleTask DEF End
    <3>7. CertificateOK'
      <4>1. task[s].votes <= Votes' /\ Participation(task[s].votes, task[s].eligible) >= Quorum
        BY <1>0, <2>0, <3>4 DEF TaskOK
      <4>2. ~loose' => task[s].votes = Votes'
        BY <1>0, <2>0, <3>4 DEF TaskOK
      <4> QED BY <3>2, <3>3, <4>1, <4>2 DEF CertificateOK
    <3>8. RowsOK'
      BY <2>0 DEF IInv, RowsOK
    <3>9. TypeOK'
      BY <2>0, <3>2, <3>3, <3>5 DEF IInv, TypeOK
    <3> QED BY <3>5, <3>6, <3>7, <3>8, <3>9 DEF IInv
  <2>2. CASE ~Exists
    <3>1. UNCHANGED <<election, token, ballots, proxy, owners, sweep, receipts, turns>>
      BY <1>4, <2>2 DEF CertifyElection, election
    <3> QED BY <2>0, <3>1, EndOnly, SameTurns
  <2> QED BY <2>1, <2>2
<1> QED BY <1>1, <1>2, <1>3, <1>4

LEMMA EndingKeeps ==
    ASSUME IInv, NEW s \in Slots, Ending(s)
    PROVE  IInv'
<1>1. CASE Cancel(s)
  <2>1. PICK l \in {"c_revoke", "c_cancel"} : Begin(s, l, NoPerson)
    BY <1>1 DEF Cancel
  <2>2. l \in Labels /\ l \notin Personal /\ l \notin Tally
    BY DEF Labels, Personal, Tally
  <2> QED BY <1>1, <2>1, <2>2, BeginOnly, SameTurns DEF Cancel
<1>2. CASE RevokeAllPending(s)
  <2>1. TokensKept /\ token' \in [Persons -> Token]
    BY <1>2, SetTokensKeeps DEF RevokeAllPending
  <2>2. /\ "c_cancel" \in Labels /\ Go(s, "c_cancel")
        /\ UNCHANGED <<election, ballots, proxy, owners, sweep, receipts, turns>>
    BY <1>2 DEF RevokeAllPending, Labels
  <2>3. proxy' \in [Persons -> {"none", "active", "revoked"}]
    BY <2>2 DEF IInv, TypeOK
  <2> QED BY <2>1, <2>2, <2>3, GoQuietly DEF Personal, Tally
<1>3. CASE CancelElection(s)
  <2>1. /\ End(s) /\ status' = (IF Exists THEN "cancelled" ELSE status)
        /\ UNCHANGED <<expired, eligible, certificate, loose, token, ballots, proxy, owners,
                       sweep, receipts, turns>>
    BY <1>3 DEF CancelElection
  <2>2. Ended' /\ (Exists => Exists') /\ status' \in ElectionStatus
    BY <2>1 DEF Ended, Exists, ElectionStatus
  <2>3. /\ expired' \in BOOLEAN /\ loose' \in BOOLEAN /\ owners' \subseteq Units \X Persons
        /\ sweep' \in {"idle", "close"} /\ turns' \in 0..MaxTurns
    BY <2>1 DEF IInv, TypeOK
  <2>4. certificate # NoCertificate => Exists'
    BY <2>2 DEF IInv, CertificateOK
  <2> QED BY <2>1, <2>2, <2>3, <2>4, StatusFrame
<1> QED BY <1>1, <1>2, <1>3, CertifyingKeeps, DeletingKeeps DEF Ending

LEMMA WorldKeeps ==
    ASSUME IInv,
           \/ Open \/ Close \/ Extend \/ Expire \/ Sell \/ SweepSelect \/ SweepClose \/ SweepDies
    PROVE  IInv'
<1>1. UNCHANGED <<eligible, certificate, token, ballots, proxy, receipts, task>>
  BY DEF Open, Close, Extend, Expire, Sell, SweepSelect, SweepClose, SweepDies, election
<1>2. /\ loose' \in BOOLEAN /\ (loose => loose') /\ (~loose' /\ Ended => Ended')
      /\ (Exists => Exists') /\ status' \in ElectionStatus
  BY DEF Open, Close, Extend, Expire, Sell, SweepSelect, SweepClose, SweepDies, election,
         IInv, TypeOK, Ended, Exists, ElectionStatus
<1>3. expired' \in BOOLEAN /\ sweep' \in {"idle", "close"}
  BY DEF Open, Close, Extend, Expire, Sell, SweepSelect, SweepClose, SweepDies, election,
         IInv, TypeOK
<1>4. turns' \in 0..MaxTurns
  BY SameTurns DEF Open, Close, Extend, Expire, Sell, SweepSelect, SweepClose, SweepDies
<1>5. owners' \subseteq Units \X Persons
  <2>1. CASE Sell
    <3>1. PICK o \in owners, p \in Persons : owners' = (owners \ {o}) \cup {<<o[1], p>>}
      BY <2>1 DEF Sell
    <3> QED BY <3>1 DEF IInv, TypeOK
  <2>2. CASE ~Sell
    BY <2>2 DEF Open, Close, Extend, Expire, SweepSelect, SweepClose, SweepDies, election,
                IInv, TypeOK
  <2> QED BY <2>1, <2>2
<1>6. certificate # NoCertificate => Exists'
  BY <1>2 DEF IInv, CertificateOK
<1> QED BY <1>1, <1>2, <1>3, <1>4, <1>5, <1>6, StatusFrame

LEMMA NextKeeps == IInv /\ [Next]_vars => IInv'
<1> SUFFICES ASSUME IInv, [Next]_vars PROVE IInv'
  OBVIOUS
<1>1. ASSUME NEW s \in Slots, Die(s) PROVE IInv'
  BY <1>1, EndOnly, SameTurns DEF Die
<1>2. CASE UNCHANGED vars
  <2>1. /\ UNCHANGED <<eligible, certificate, token, ballots, proxy, receipts, task>>
        /\ UNCHANGED <<status, expired, loose, owners, sweep, turns>>
    BY <1>2 DEF vars
  <2>2. /\ status' \in ElectionStatus /\ expired' \in BOOLEAN /\ loose' \in BOOLEAN
        /\ owners' \subseteq Units \X Persons /\ sweep' \in {"idle", "close"}
        /\ turns' \in 0..MaxTurns
    BY <2>1 DEF IInv, TypeOK
  <2>3. certificate # NoCertificate => Exists'
    BY <2>1 DEF IInv, CertificateOK, Exists
  <2> QED BY <2>1, <2>2, <2>3, StatusFrame DEF Ended
<1> QED BY <1>1, <1>2, VotingKeeps, GeneratingKeeps, DesignatingKeeps, EndingKeeps, WorldKeeps
        DEF Next

--------------------------------------------------------------------------------
(* What follows for every behaviour.                                         *)

\* Rows, requests and certificate agree in every state an election reaches.
THEOREM ElectionInvariance == Spec => []IInv
BY InitInvariant, NextKeeps, PTL DEF Spec

\* Every column and every request keeps its type, whatever is interleaved.
THEOREM ElectionTypes == Spec => []TypeOK
<1>1. IInv => TypeOK
  BY DEF IInv
<1> QED BY <1>1, ElectionInvariance, PTL

\* castBallot, deletion, revocation and new tokens beside each other: the token
\* of a confirmed voter is never given back, and no token is spent unballoted.
THEOREM SpentTokensStaySpent == Spec => []SpentTokens
<1>1. IInv => SpentTokens
  BY DEF IInv, RowsOK, SpentTokens
<1> QED BY <1>1, ElectionInvariance, PTL

\* A certified election is never deleted and keeps the ballots, and with them
\* the quorum, that certifyElection stated.
THEOREM CertificatesStand == Spec => []CertificateStands
<1>1. IInv => CertificateStands
  BY DEF IInv, CertificateOK, CertificateStands
<1> QED BY <1>1, ElectionInvariance, PTL

\* The certified count is final, unless a ballot was on its way as
\* getElectionTally read the casts or the election was opened again.
THEOREM CertificatesAreComplete == Spec => []CertificateIsComplete
<1>1. IInv => CertificateIsComplete
  BY DEF IInv, CertificateOK, CertificateIsComplete
<1> QED BY <1>1, ElectionInvariance, PTL

LEMMA InitCasts == Init => Box!Init
BY DEF Init, Box!Init

\* Of all steps only the insert of castBallot adds a ballot and only its last
\* update confirms one.
LEMMA StepCasts == IInv /\ [Next]_vars => [Box!Next]_(Box!vars)
<1> SUFFICES ASSUME IInv, [Next]_vars PROVE Box!Next \/ UNCHANGED <<ballots, receipts>>
  BY DEF Box!vars
<1> USE DEF election
<1>1. ASSUME NEW s \in Slots, VoteInsert(s) PROVE Box!Next \/ UNCHANGED <<ballots, receipts>>
  <2>1. task[s].person \in Persons
    BY <1>1 DEF VoteInsert, At, IInv, TasksOK, TaskOK, Personal
  <2>2. Box!Cast(task[s].person) \/ UNCHANGED <<ballots, receipts>>
    BY <1>1, <2>1 DEF VoteInsert, Box!Cast, IInv, TypeOK
  <2> QED BY <2>1, <2>2 DEF Box!Next
<1>2. ASSUME NEW s \in Slots, VoteSpend(s) PROVE Box!Next \/ UNCHANGED <<ballots, receipts>>
  <2>1. task[s].person \in Persons /\ ballots[task[s].person] = 1
    BY <1>2 DEF VoteSpend, At, IInv, TasksOK, TaskOK, Personal
  <2>2. Box!Confirm(task[s].person)
    BY <1>2, <2>1 DEF VoteSpend, Box!Confirm
  <2> QED BY <2>1, <2>2 DEF Box!Next
<1>3. ASSUME NEW s \in Slots, Voting(s) PROVE Box!Next \/ UNCHANGED <<ballots, receipts>>
  BY <1>1, <1>2, <1>3 DEF Voting, VoteToken, VoteElection
<1>4. ASSUME NEW s \in Slots, Generating(s) \/ Designating(s) \/ Ending(s) \/ Die(s)
      PROVE  UNCHANGED <<ballots, receipts>>
  <2>1. CASE Generating(s)
    BY <2>1 DEF Generating, GeneratePairs, GenerateExisting, GenerateInsert, GenerateCount
  <2>2. CASE Designating(s)
    BY <2>2 DEF Designating, Designate, Revoke, DesignateAgain, DesignateInsert, LockOut,
                RevokeDesignation, GiveBack
  <2>3. CASE Ending(s)
    BY <2>3 DEF Ending, Cancel, RevokeAllPending, CancelElection, Certify, TallyElection,
                TallyCasts, CertifyElection, Delete, DeleteProxies, DeleteTokens, DeleteElection
  <2>4. CASE Die(s)
    BY <2>4 DEF Die
  <2> QED BY <1>4, <2>1, <2>2, <2>3, <2>4
<1>5. CASE Open \/ Close \/ Extend \/ Expire \/ Sell \/ SweepSelect \/ SweepClose \/ SweepDies
  BY <1>5 DEF Open, Close, Extend, Expire, Sell, SweepSelect, SweepClose, SweepDies
<1>6. CASE UNCHANGED vars
  BY <1>6 DEF vars
<1> QED BY <1>3, <1>4, <1>5, <1>6 DEF Next

\* The election of the code implements a ballot box: one ballot a voter, none
\* taken back, and a confirmation only for who has one.
THEOREM ImplementsBallotBox == Spec => BallotsAreKept
<1>1. Spec => Box!Init /\ [][Box!Next]_(Box!vars)
  BY InitCasts, StepCasts, ElectionInvariance, PTL DEF Spec
<1> QED BY <1>1 DEF BallotsAreKept, Box!Spec

===============================================================================
