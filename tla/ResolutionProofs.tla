-------------------------- MODULE ResolutionProofs --------------------------
(***************************************************************************)
(* Proofs about the resolution of a crate: what it takes from its fetchers *)
(* (ResolveCrate), for any number of targets and any packages; and the     *)
(* targets and the token of the GitHub client that it shares with the      *)
(* other resolutions (Preparation), for any number of them and whatever is *)
(* dropped, fails or hangs meanwhile.                                      *)
(***************************************************************************)
EXTENDS ResolveCrate, Preparation, PrefixInduction, SequenceTheorems

(* ResolveCrate *)

(* The verifier is one that the policy on signatures permits. *)
Permitted ==
  \/ found.verifier = "minisign"
  \/ opts.signature_policy = "ignore"
  \/ opts.signature_policy = "if-present" /\ (Current.strategy = Meta => ~opts.signing)

(* The tarball of QuickInstall for a target has been fetched and verified. *)
Whole(t) == passed[t] # "none" /\ (opts.signature_policy = "require" => passed[t] = "minisign")

(* Before the end nothing is reported.  Between find() and fetch the verifier of
   QuickInstall is one it may have chosen; after the fetch the verifier is
   permitted, and the status of QuickInstall is that of an installed tarball,
   which only one that has been fetched and verified has. *)
IInv ==
  /\ opts.signature_policy \in Policy /\ opts.signing \in BOOLEAN
  /\ status \in [Target -> Status]
  /\ dirs \in [BinPaths -> {"absent", "tree", "file"}]
  /\ passed \in [Target -> {"none", "noop", "minisign"}]
  /\ reported \in [Target -> Status \cup {"none"}]
  /\ found \in Found
  /\ at # "over" => result = "none" /\ \A t \in Target : reported[t] = "none"
  /\ at = "fetch" /\ Current.strategy = Quick => found.fmt = "archive" /\ found.verifier \in Verifiers
  /\ at = "verify" => Permitted
  /\ \A t \in Target :
       /\ status[t] = "installed-from-tarball" => Whole(t)
       /\ at = "verify" /\ Current.strategy = Quick /\ Current.target = t =>
            status[t] = "installed-from-tarball"

Good == Trusted /\ BinsAsAsked /\ ReportsMatch

LEMMA InitGood == Init => IInv /\ Good
BY DEF Init, IInv, Good, Trusted, BinsAsAsked, ReportsMatch, Options, Found, Nothing, Status, Permitted

(* At each step but the last nothing is promised yet. *)
LEMMA NothingYet == IInv /\ at # "over" => Good
BY DEF IInv, Good, Trusted, BinsAsAsked, ReportsMatch

LEMMA NextFetcherLemma ==
  ASSUME IInv, at # "over", NextFetcher, UNCHANGED <<opts, passed, reported, result>>,
         status' \in [Target -> Status], dirs' \in [BinPaths -> {"absent", "tree", "file"}],
         \A t \in Target : status'[t] = "installed-from-tarball" => status[t] = "installed-from-tarball"
  PROVE  IInv'
BY DEF IInv, NextFetcher, Found, Nothing, Whole

LEMMA LeftLemma ==
  ASSUME IInv, dirs' = [dirs EXCEPT ![BinPath(Current)] = Left]
  PROVE  dirs' \in [BinPaths -> {"absent", "tree", "file"}]
BY DEF IInv, Left

LEMMA ReportLemma ==
  ASSUME IInv, NEW s \in Status, Report(s)
  PROVE  /\ status' \in [Target -> Status]
         /\ \A t \in Target :
              status'[t] = IF Current.strategy = Quick /\ Current.target = t THEN s ELSE status[t]
BY DEF IInv, Report

LEMMA NextGood == IInv /\ Good /\ [Next]_vars => (IInv /\ Good)'
<1> SUFFICES ASSUME IInv, Good, [Next]_vars PROVE (IInv /\ Good)' OBVIOUS
<1>y. IInv' /\ at' # "over" => (IInv /\ Good)'
  BY DEF IInv, Good, Trusted, BinsAsAsked, ReportsMatch
<1>1. CASE PrepareEnds
  BY <1>1 DEF PrepareEnds, IInv, Whole, Good, Trusted, BinsAsAsked, ReportsMatch
<1>2. CASE Prepare
  <2>1. IInv'
    BY <1>2 DEF Prepare, IInv, Whole
  <2>. QED BY <1>2, <2>1, <1>y DEF Prepare
<1>3. CASE FindMeta
  <2>1. CASE NextFetcher
    BY <1>3, <2>1, <1>y, NextFetcherLemma DEF FindMeta, Finding, NextFetcher, IInv
  <2>2. ASSUME NEW fmt \in {"archive", "bin"}, found' = [Nothing EXCEPT !.fmt = fmt],
               at' = "fetch", UNCHANGED <<h, archive>>
        PROVE  (IInv /\ Good)'
    <3>1. found' \in Found /\ Current' = Current /\ Current.strategy = Meta
      BY <1>3, <2>2 DEF FindMeta, Finding, Found, Nothing, Current
    <3>2. IInv'
      BY <1>3, <2>2, <3>1 DEF FindMeta, Finding, IInv, Whole, Meta, Quick
    <3>. QED BY <2>2, <3>2, <1>y
  <2>. QED BY <1>3, <2>1, <2>2 DEF FindMeta
<1>4. CASE NotSupported
  BY <1>4, <1>y, NextFetcherLemma DEF NotSupported, Finding, NextFetcher, IInv
<1>5. CASE FindQuick
  <2>1. ASSUME NEW s \in {"not-found", "found"}, status' = [status EXCEPT ![Current.target] = s]
        PROVE  /\ status' \in [Target -> Status]
               /\ \A t \in Target : status'[t] = "installed-from-tarball" =>
                                      status[t] = "installed-from-tarball"
    BY <2>1 DEF IInv, Status
  <2>2. CASE NextFetcher /\ status' = [status EXCEPT ![Current.target] = "not-found"]
    BY <1>5, <2>1, <2>2, <1>y, NextFetcherLemma DEF FindQuick, Finding, NextFetcher, IInv
  <2>3. CASE NextFetcher /\ UNCHANGED status
    BY <1>5, <2>3, <1>y, NextFetcherLemma DEF FindQuick, Finding, NextFetcher, IInv
  <2>4. ASSUME NEW v \in Verifiers, found' = [fmt |-> "archive", verifier |-> v],
               status' = [status EXCEPT ![Current.target] = "found"],
               at' = "fetch", UNCHANGED <<h, archive>>
        PROVE  (IInv /\ Good)'
    <3>1. v \in {"noop", "minisign"}
      BY DEF Verifiers, IInv, Policy
    <3>2. found' \in Found /\ found'.fmt = "archive" /\ found'.verifier \in Verifiers
      BY <2>4, <3>1 DEF Found
    <3>3. opts' = opts /\ Verifiers' = Verifiers /\ UNCHANGED <<dirs, passed, reported, result>> /\ at # "over"
      BY <1>5 DEF FindQuick, Finding, Verifiers
    <3>4. IInv'
      BY <2>1, <2>4, <3>2, <3>3 DEF IInv, Whole
    <3>. QED BY <2>4, <3>4, <1>y
  <2>. QED BY <1>5, <2>2, <2>3, <2>4 DEF FindQuick
<1>6. CASE TimedOut
  <2>1. /\ status' \in [Target -> Status]
        /\ \A t \in Target : status'[t] = "installed-from-tarball" => status[t] = "installed-from-tarball"
    BY <1>6 DEF TimedOut, IInv, Status
  <2>. QED BY <1>6, <2>1, <1>y, NextFetcherLemma DEF TimedOut, NextFetcher, IInv
<1>7. CASE FetchFails
  <2>1. /\ status' \in [Target -> Status]
        /\ \A t \in Target : status'[t] = "installed-from-tarball" => status[t] = "installed-from-tarball"
    BY <1>7, ReportLemma DEF FetchFails, Status
  <2>2. dirs' \in [BinPaths -> {"absent", "tree", "file"}]
    BY <1>7, LeftLemma DEF FetchFails, IInv
  <2>. QED BY <1>7, <2>1, <2>2, <1>y, NextFetcherLemma DEF FetchFails, NextFetcher, IInv
<1>8. CASE SignatureFails
  <2>1. /\ status' \in [Target -> Status]
        /\ \A t \in Target : status'[t] = "installed-from-tarball" => status[t] = "installed-from-tarball"
    BY <1>8, ReportLemma DEF SignatureFails, Status
  <2>2. dirs' \in [BinPaths -> {"absent", "tree", "file"}]
    BY <1>8, LeftLemma DEF SignatureFails
  <2>. QED BY <1>8, <2>1, <2>2, <1>y, NextFetcherLemma DEF SignatureFails, NextFetcher, IInv
<1>9. CASE Fetched
  <2>1. /\ status' \in [Target -> Status]
        /\ \A t \in Target :
             status'[t] = IF Current.strategy = Quick /\ Current.target = t
                          THEN "installed-from-tarball" ELSE status[t]
    BY <1>9, ReportLemma DEF Fetched, Status
  <2>2. dirs' \in [BinPaths -> {"absent", "tree", "file"}]
    BY <1>9, LeftLemma DEF Fetched
  <2>3. /\ Current' = Current /\ at = "fetch" /\ at' = "verify"
        /\ UNCHANGED <<opts, reported, result>>
        /\ found' = [found EXCEPT !.verifier = Verifier] /\ Verifier # "none"
    BY <1>9 DEF Fetched, Current
  <2>4. Verifier \in {"noop", "minisign"} /\ Permitted'
    <3>1. CASE Current.strategy = Quick
      BY <2>3, <3>1 DEF Verifier, Verifiers, Permitted, IInv, Policy, Found, Meta, Quick
    <3>2. CASE Current.strategy # Quick
      BY <2>3, <3>2 DEF Verifier, Permitted, IInv, Policy, Found
    <3>. QED BY <3>1, <3>2
  <2>5. found' \in Found
    BY <2>3, <2>4 DEF IInv, Found
  <2>6. ASSUME NEW t \in Target, status'[t] = "installed-from-tarball" PROVE Whole(t)'
    <3>1. CASE Current.strategy = Quick /\ Current.target = t
      <4>1. passed'[t] = Verifier
        BY <1>9, <3>1 DEF Fetched, IInv
      <4>2. opts.signature_policy = "require" => Verifier = "minisign"
        BY <2>3, <3>1 DEF Verifier, Verifiers, IInv, Meta, Quick
      <4>. QED BY <2>3, <2>4, <4>1, <4>2 DEF Whole
    <3>2. CASE ~(Current.strategy = Quick /\ Current.target = t)
      <4>1. passed'[t] = passed[t] /\ Whole(t)
        BY <1>9, <2>1, <2>6, <3>2 DEF Fetched, IInv
      <4>. QED BY <2>3, <4>1 DEF Whole
    <3>. QED BY <3>1, <3>2
  <2>8. passed' \in [Target -> {"none", "noop", "minisign"}]
    <3>1. passed' = passed \/ passed' = [passed EXCEPT ![Current.target] = Verifier]
      BY <1>9 DEF Fetched
    <3>. QED BY <2>4, <3>1 DEF IInv
  <2>7. IInv'
    BY <2>1, <2>2, <2>3, <2>4, <2>5, <2>6, <2>8 DEF IInv
  <2>. QED BY <2>3, <2>7, <1>y
<1>10. CASE Refuse
  BY <1>10, <1>y, NextFetcherLemma DEF Refuse, NextFetcher, IInv
<1>11. CASE Choose
  <2>1. /\ Current' = Current /\ at = "verify" /\ at' = "over" /\ result' = "fetch"
        /\ UNCHANGED <<opts, passed, found, archive, dirs, status>>
        /\ bin_files' = Wanted \cap archive /\ ~Unusable /\ bin_files' # {}
    BY <1>11 DEF Choose, Current
  <2>2. \A t \in Target : reported'[t] # "none" =>
          Current.strategy = Quick /\ Current.target = t /\ reported'[t] = status[t]
    BY <1>11, <2>1 DEF Choose, IInv
  <2>3. reported' \in [Target -> Status \cup {"none"}]
    <3>1. CASE UNCHANGED reported
      BY <3>1 DEF IInv
    <3>2. CASE reported' = [reported EXCEPT ![Current.target] = status[Current.target]]
      BY <3>2 DEF IInv
    <3>. QED BY <1>11, <3>1, <3>2 DEF Choose
  <2>4. IInv'
    BY <2>1, <2>3 DEF IInv, Whole
  <2>5. Trusted'
    BY <2>1 DEF IInv, Permitted, Trusted
  <2>6. BinsAsAsked'
    BY <2>1 DEF BinsAsAsked, Wanted, Unusable
  <2>7. ReportsMatch'
    BY <2>1, <2>2 DEF ReportsMatch, IInv, Whole
  <2>. QED BY <2>4, <2>5, <2>6, <2>7 DEF Good
<1>12. CASE GiveUp
  <2>1. /\ at' = "over" /\ result' # "fetch" /\ UNCHANGED <<opts, passed, found, dirs, status>>
        /\ reported' \in [Target -> Status \cup {"none"}]
        /\ \A t \in Target : reported'[t] # "none" => reported'[t] = status[t]
    BY <1>12 DEF GiveUp, IInv
  <2>. QED BY <2>1 DEF IInv, Whole, Good, Trusted, BinsAsAsked, ReportsMatch
<1>13. CASE UNCHANGED vars
  <2>1. Trusted'
    BY <1>13 DEF vars, IInv, Permitted, Verifiers, Current, Good, Trusted
  <2>2. BinsAsAsked' /\ ReportsMatch'
    BY <1>13 DEF vars, Good, BinsAsAsked, ReportsMatch, Current
  <2>3. IInv'
    BY <1>13 DEF vars, IInv, Whole, Permitted, Verifiers, Current
  <2>. QED BY <2>1, <2>2, <2>3 DEF Good
<1>. QED
  BY <1>1, <1>2, <1>3, <1>4, <1>5, <1>6, <1>7, <1>8, <1>9, <1>10, <1>11, <1>12, <1>13
  DEF Next, Terminated

LEMMA Goodness == Spec => []Good
BY InitGood, NextGood, PTL DEF Spec

(* What is installed has a signature that is valid where the policy asks for one. *)
THEOREM SignaturesRespected == Spec => []Trusted
BY Goodness, PTL DEF Good

(* A package is chosen only for binaries it provides and that are wanted, none
   of them missing that is required. *)
THEOREM BinsRespected == Spec => []BinsAsAsked
BY Goodness, PTL DEF Good

(* Only a tarball that was fetched whole, with a valid signature where signatures are
   required, is reported as installed, and when a package is chosen only that one. *)
THEOREM ReportsRespected == Spec => []ReportsMatch
BY Goodness, PTL DEF Good

-----------------------------------------------------------------------------
(* The order of the fetchers *)

(* The sequence that Among computes, prefix by prefix. *)
Keeps(kept, s, S, X) ==
  /\ kept \in [0..Len(s) -> Seq(X)]
  /\ Among(s, S) = kept[Len(s)]
  /\ kept[0] = <<>>
  /\ \A n \in 1..Len(s) : kept[n] = IF s[n] \in S THEN Append(kept[n - 1], s[n]) ELSE kept[n - 1]

LEMMA AmongPrefixes ==
  ASSUME NEW X, NEW s \in Seq(X), NEW S
  PROVE  \E kept : Keeps(kept, s, S, X)
<1> DEFINE N == Len(s)
           Xs == Seq(X)
           With(n, q) == IF s[n] \in S THEN Append(q, s[n]) ELSE q
           step == [n \in 1..N |-> [q \in Xs |-> With(n, q)]]
           Fits(f) == f = [n \in 0..N |-> IF n = 0 THEN <<>> ELSE With(n, f[n - 1])]
           kept == CHOOSE f : Fits(f)
<1>1. N \in Nat /\ <<>> \in Xs /\ \A n \in 1..N : \A q \in Xs : With(n, q) \in Xs
  OBVIOUS
<1>2. Among(s, S) = kept[N]
  BY DEF Among
<1>. HIDE DEF N, Xs, With
<1>3. PICK f : Unfolds(f, N, Xs, <<>>, step)
  <2>1. IsStep(N, Xs, step)
    BY <1>1 DEF IsStep
  <2>. HIDE DEF step
  <2>. QED BY <1>1, <2>1, DefinedUpTo, Zenon
<1>4. Fits(f)
  <2>1. f \in [0..N -> Xs] /\ f[0] = <<>> /\ \A n \in 1..N : f[n] = step[n][f[n - 1]]
    BY <1>3 DEF Unfolds
  <2>2. ASSUME NEW n \in 1..N PROVE f[n] = With(n, f[n - 1])
    <3>1. f[n - 1] \in Xs
      BY <1>1, <2>1
    <3>2. step[n][f[n - 1]] = With(n, f[n - 1])
      BY <3>1
    <3>. QED BY <2>1, <3>2
  <2>. QED BY <1>1, <2>1, <2>2
<1>5. Fits(kept)
  BY <1>4
<1>. HIDE DEF kept
<1>6. kept[0] = <<>> /\ \A n \in 1..N : kept[n] = With(n, kept[n - 1])
  BY <1>1, <1>5
<1>7. kept \in [0..N -> Xs]
  <2> DEFINE G == {n \in 0..N : kept[n] \in Xs}
  <2>1. 0 \in G
    BY <1>1, <1>6
  <2>2. ASSUME NEW n \in 1..N, n - 1 \in G PROVE n \in G
    BY <1>1, <1>6, <2>2
  <2>. HIDE DEF G
  <2>3. 0..N \subseteq G
    BY <1>1, <2>1, <2>2, InductUpTo
  <2>. QED BY <1>5, <2>3 DEF G
<1>. QED BY <1>2, <1>6, <1>7 DEF N, Xs, With, Keeps

(* What is in the set keeps its order: pos says where each element goes. *)
Arranges(pos, s, S) ==
  /\ pos \in [0..Len(s) -> Nat]
  /\ \A j \in 1..Len(s) : s[j] \in S =>
       pos[j] \in 1..Len(Among(s, S)) /\ Among(s, S)[pos[j]] = s[j]
  /\ \A i \in 1..Len(Among(s, S)) : \E j \in 1..Len(s) : s[j] \in S /\ pos[j] = i
  /\ \A j, m \in 1..Len(s) : j < m /\ s[m] \in S => pos[j] < pos[m]

LEMMA AmongOrder ==
  ASSUME NEW X, NEW s \in Seq(X), NEW S
  PROVE  Among(s, S) \in Seq(X) /\ \E pos : Arranges(pos, s, S)
<1> DEFINE N == Len(s)
<1>1. N \in Nat /\ \A n \in 1..N : s[n] \in X
  OBVIOUS
<1>k. PICK kept : Keeps(kept, s, S, X)
  BY AmongPrefixes, Zenon
<1>2. /\ kept \in [0..N -> Seq(X)]
      /\ Among(s, S) = kept[N]
      /\ kept[0] = <<>>
      /\ \A n \in 1..N : kept[n] = IF s[n] \in S THEN Append(kept[n - 1], s[n]) ELSE kept[n - 1]
  BY <1>k DEF Keeps
<1> DEFINE pos == [n \in 0..N |-> Len(kept[n])]
           Placed(n) == \A j \in 1..n : s[j] \in S =>
                          pos[j] \in 1..Len(kept[n]) /\ kept[n][pos[j]] = s[j]
           Onto(n) == \A i \in 1..Len(kept[n]) : \E j \in 1..n : s[j] \in S /\ pos[j] = i
           Longer(n) == \A j \in 0..n : pos[j] <= pos[n]
           G == {n \in 0..N : Placed(n) /\ Onto(n) /\ Longer(n)}
<1>3. 0 \in G
  BY <1>1, <1>2
<1>4. pos \in [0..N -> Nat]
  BY <1>2
<1>5. ASSUME NEW n \in 1..N, n - 1 \in G PROVE n \in G
  <2>1. /\ n - 1 \in 0..N /\ n \in 0..N /\ kept[n - 1] \in Seq(X) /\ kept[n] \in Seq(X) /\ s[n] \in X
        /\ pos[n] = Len(kept[n]) /\ pos[n - 1] = Len(kept[n - 1])
    <3>1. n - 1 \in 0..N /\ n \in 0..N /\ s[n] \in X
      BY <1>1
    <3>2. kept[n - 1] \in Seq(X) /\ kept[n] \in Seq(X)
      BY <1>2, <3>1
    <3>. QED BY <3>1, <3>2
  <2>2. Placed(n - 1) /\ Onto(n - 1) /\ Longer(n - 1)
    BY <1>5
  <2>3. CASE s[n] \notin S
    <3>1. kept[n] = kept[n - 1]
      BY <1>2, <2>3
    <3>2. pos[n] = pos[n - 1]
      BY <2>1, <3>1
    <3>. HIDE DEF pos
    <3>3. ASSUME NEW j \in 1..n, s[j] \in S
          PROVE  pos[j] \in 1..Len(kept[n]) /\ kept[n][pos[j]] = s[j]
      <4>1. j \in 1..(n - 1)
        BY <1>1, <2>3, <3>3
      <4>. QED BY <2>2, <3>1, <3>3, <4>1
    <3>4. ASSUME NEW i \in 1..Len(kept[n]) PROVE \E j \in 1..n : s[j] \in S /\ pos[j] = i
      <4>1. PICK j \in 1..(n - 1) : s[j] \in S /\ pos[j] = i
        BY <2>2, <3>1
      <4>. QED BY <1>1, <4>1
    <3>5. Longer(n)
      BY <1>4, <2>1, <2>2, <3>2
    <3>. QED BY <2>1, <3>3, <3>4, <3>5
  <2>4. CASE s[n] \in S
    <3>1. /\ kept[n] = Append(kept[n - 1], s[n])
      BY <1>2, <2>4
    <3>2. /\ Len(kept[n]) = Len(kept[n - 1]) + 1 /\ kept[n][Len(kept[n])] = s[n]
          /\ \A i \in 1..Len(kept[n - 1]) : kept[n][i] = kept[n - 1][i]
          /\ Len(kept[n - 1]) \in Nat
      BY <2>1, <3>1
    <3>. HIDE DEF pos
    <3>3. ASSUME NEW j \in 1..n, s[j] \in S
          PROVE  pos[j] \in 1..Len(kept[n]) /\ kept[n][pos[j]] = s[j]
      <4>1. CASE j = n
        BY <2>1, <3>2, <4>1
      <4>2. CASE j # n
        <5>1. j \in 1..(n - 1)
          BY <1>1, <4>2
        <5>2. pos[j] \in 1..Len(kept[n - 1]) /\ kept[n - 1][pos[j]] = s[j]
          BY <2>2, <3>3, <5>1
        <5>3. pos[j] \in 1..Len(kept[n])
          BY <3>2, <5>2
        <5>4. kept[n][pos[j]] = kept[n - 1][pos[j]]
          BY <3>2, <5>2
        <5>. QED BY <5>2, <5>3, <5>4
      <4>. QED BY <4>1, <4>2
    <3>4. ASSUME NEW i \in 1..Len(kept[n]) PROVE \E j \in 1..n : s[j] \in S /\ pos[j] = i
      <4>1. CASE i = Len(kept[n])
        BY <2>1, <2>4, <4>1
      <4>2. CASE i # Len(kept[n])
        <5>1. i \in 1..Len(kept[n - 1])
          BY <2>1, <3>2, <4>2
        <5>. QED BY <2>1, <2>2, <5>1
      <4>. QED BY <4>1, <4>2
    <3>5. ASSUME NEW j \in 0..n PROVE pos[j] <= pos[n]
      <4>1. CASE j = n
        BY <1>4, <2>1, <4>1
      <4>2. CASE j # n
        <5>1. j \in 0..(n - 1)
          BY <1>1, <4>2
        <5>2. pos[j] <= pos[n - 1] /\ pos[j] \in Nat
          <6>1. j \in 0..N /\ \A l \in 0..(n - 1) : pos[l] <= pos[n - 1]
            BY <1>1, <2>2
          <6>. QED BY <1>4, <5>1, <6>1
        <5>. QED BY <2>1, <3>2, <5>2
      <4>. QED BY <4>1, <4>2
    <3>. QED BY <2>1, <3>3, <3>4, <3>5
  <2>. QED BY <2>3, <2>4
<1>6. \A n \in 0..N : Placed(n) /\ Onto(n) /\ Longer(n)
  <2>. HIDE DEF G
  <2>1. 0..N \subseteq G
    BY <1>1, <1>3, <1>5, InductUpTo
  <2>. QED BY <2>1 DEF G
<1>7. ASSUME NEW j \in 1..N, NEW m \in 1..N, j < m, s[m] \in S PROVE pos[j] < pos[m]
  <2>1. pos[j] <= pos[m - 1]
    <3>1. m - 1 \in 0..N /\ j \in 0..(m - 1)
      BY <1>1, <1>7
    <3>. HIDE DEF pos
    <3>. QED BY <1>6, <3>1
  <2>2. pos[m] = pos[m - 1] + 1 /\ pos[m - 1] \in Nat /\ pos[j] \in Nat
    <3>1. kept[m] = Append(kept[m - 1], s[m]) /\ kept[m - 1] \in Seq(X) /\ m - 1 \in 0..N /\ m \in 0..N
      <4>1. m - 1 \in 0..N /\ m \in 0..N
        BY <1>1
      <4>. QED BY <1>2, <1>7, <4>1
    <3>2. pos[m] = Len(kept[m]) /\ pos[m - 1] = Len(kept[m - 1])
      BY <3>1
    <3>. QED BY <1>1, <1>4, <3>1, <3>2
  <2>. QED BY <2>1, <2>2
<1>8. N \in 0..N
  BY <1>1
<1>9. pos[N] = Len(Among(s, S)) /\ Among(s, S) \in Seq(X)
  BY <1>2, <1>8
<1>10. /\ \A j \in 1..N : s[j] \in S => pos[j] \in 1..Len(Among(s, S)) /\ Among(s, S)[pos[j]] = s[j]
       /\ \A i \in 1..Len(Among(s, S)) : \E j \in 1..N : s[j] \in S /\ pos[j] = i
  <2>1. Placed(N) /\ Onto(N)
    <3>. HIDE DEF Placed, Onto, Longer, N
    <3>. QED BY <1>6, <1>8
  <2>. HIDE DEF pos
  <2>. QED BY <1>2, <2>1
<1>. HIDE DEF pos
<1>11. Arranges(pos, s, S)
  BY <1>4, <1>7, <1>10 DEF Arranges
<1>. QED BY <1>9, <1>11

(* What is known of the options. *)
LEMMA OptionsLemma ==
  ASSUME opts \in Options
  PROVE  /\ opts.resolvers \in Resolvers /\ opts.targets \in {0, T} /\ opts.binaries \in Packages
         /\ opts.renamed \in BOOLEAN
         /\ opts.targets \in Nat /\ 1..opts.targets \subseteq Target
<1>1. /\ opts.resolvers \in Resolvers /\ opts.targets \in {0, T} /\ opts.binaries \in Packages
      /\ opts.renamed \in BOOLEAN
  BY DEF Options
<1>. QED BY <1>1, TAssumption DEF Target

(* Every strategy is there once. *)
LEMMA ResolversLemma ==
  ASSUME NEW R \in Resolvers
  PROVE  /\ R \in Seq({Meta, Quick}) /\ Len(R) \in 0..2
         /\ \A i, k \in 1..Len(R) : R[i] = R[k] => i = k
<1>1. CASE R = <<>>
  BY <1>1
<1>2. CASE R = <<Meta>>
  BY <1>2
<1>3. CASE R = <<Quick>>
  BY <1>3
<1>4. CASE R = <<Meta, Quick>>
  BY <1>4 DEF Meta, Quick
<1>5. CASE R = <<Quick, Meta>>
  BY <1>5 DEF Meta, Quick
<1>. QED BY <1>1, <1>2, <1>3, <1>4, <1>5 DEF Resolvers

(* The place of the k-th strategy for target t among n targets each. *)
Place(k, t, n) == (k - 1) * n + t

LEMMA DivisionLemma ==
  ASSUME NEW n \in Nat, NEW k \in 1..2, NEW t \in 1..n
  PROVE  ((Place(k, t, n) - 1) \div n) + 1 = k /\ ((Place(k, t, n) - 1) % n) + 1 = t
<1>1. CASE k = 1
  <2>1. Place(k, t, n) - 1 = t - 1
    BY <1>1 DEF Place
  <2>2. (t - 1) \div n = 0 /\ (t - 1) % n = t - 1
    OBVIOUS
  <2>. QED BY <1>1, <2>1, <2>2
<1>2. CASE k = 2
  <2>1. Place(k, t, n) - 1 = n + (t - 1)
    BY <1>2 DEF Place
  <2>2. (n + (t - 1)) \div n = 1 /\ (n + (t - 1)) % n = t - 1
    OBVIOUS
  <2>. QED BY <1>2, <2>1, <2>2
<1>. QED BY <1>1, <1>2

LEMMA PlaceLemma ==
  ASSUME NEW n \in Nat, NEW m \in 0..2
  PROVE  /\ m * n \in Nat
         /\ \A k \in 1..m, t \in 1..n : Place(k, t, n) \in 1..(m * n)
         /\ \A j \in 1..(m * n) : \E k \in 1..m, t \in 1..n : j = Place(k, t, n)
         /\ \A k, l \in 1..m, t, u \in 1..n :
              k < l \/ (k = l /\ t < u) => Place(k, t, n) < Place(l, u, n)
<1>1. \A t : t \in Int => Place(1, t, n) = t /\ Place(2, t, n) = n + t
  BY DEF Place
<1>2. CASE m = 0
  BY <1>2
<1>3. CASE m = 1
  BY <1>1, <1>3
<1>4. CASE m = 2
  <2>1. m * n = n + n
    BY <1>4
  <2>2. \A k \in 1..m, t \in 1..n : Place(k, t, n) \in 1..(n + n)
    BY <1>1, <1>4
  <2>3. ASSUME NEW j \in 1..(n + n) PROVE \E k \in 1..m, t \in 1..n : j = Place(k, t, n)
    <3>1. CASE j <= n
      BY <1>1, <1>4, <3>1
    <3>2. CASE j > n
      <4>1. j - n \in 1..n /\ j = Place(2, j - n, n)
        BY <1>1, <3>2
      <4>. QED BY <1>4, <4>1
    <3>. QED BY <3>1, <3>2
  <2>4. \A k, l \in 1..m, t, u \in 1..n :
           k < l \/ (k = l /\ t < u) => Place(k, t, n) < Place(l, u, n)
    BY <1>1, <1>4
  <2>5. m * n \in Nat
    BY <2>1
  <2>. QED BY <2>1, <2>2, <2>3, <2>4, <2>5, Zenon
<1>. QED BY <1>2, <1>3, <1>4

(* Every strategy with every target, each at its place. *)
LEMMA ProductLemma ==
  ASSUME opts \in Options, NEW r \in BOOLEAN
  PROVE  /\ Product(r) \in Seq(Fetcher)
         /\ Len(Product(r)) = Len(opts.resolvers) * opts.targets
         /\ \A k \in 1..Len(opts.resolvers), t \in 1..opts.targets :
              Product(r)[Place(k, t, opts.targets)] = AFetcher(opts.resolvers[k], t, r)
<1> DEFINE n == opts.targets
           R == opts.resolvers
           m == Len(R)
<1>1. /\ n \in Nat /\ 1..n \subseteq Target /\ m \in 0..2 /\ R \in Seq({Meta, Quick})
  BY OptionsLemma, ResolversLemma
<1>2. /\ m * n \in Nat
      /\ \A k \in 1..m, t \in 1..n : Place(k, t, n) \in 1..(m * n)
      /\ \A j \in 1..(m * n) : \E k \in 1..m, t \in 1..n : j = Place(k, t, n)
  <2>. HIDE DEF n, m
  <2>. QED BY <1>1, PlaceLemma
<1>3. Product(r) = [j \in 1..(m * n) |-> AFetcher(R[((j - 1) \div n) + 1], ((j - 1) % n) + 1, r)]
  BY DEF Product
<1>. HIDE DEF n, m, R
<1>4. ASSUME NEW k \in 1..m, NEW t \in 1..n
      PROVE  Product(r)[Place(k, t, n)] = AFetcher(R[k], t, r) /\ AFetcher(R[k], t, r) \in Fetcher
  <2>1. ((Place(k, t, n) - 1) \div n) + 1 = k /\ ((Place(k, t, n) - 1) % n) + 1 = t
    BY <1>1, DivisionLemma
  <2>2. R[k] \in {Meta, Quick} /\ t \in Target
    BY <1>1 DEF m
  <2>. QED BY <1>2, <1>3, <2>1, <2>2 DEF AFetcher, Fetcher
<1>5. \A j \in 1..(m * n) : Product(r)[j] \in Fetcher
  BY <1>2, <1>4
<1>6. Product(r) \in Seq(Fetcher) /\ Len(Product(r)) = m * n
  <2> DEFINE N == m * n
             p == [j \in 1..N |-> AFetcher(R[((j - 1) \div n) + 1], ((j - 1) % n) + 1, r)]
  <2>1. Product(r) = p /\ N \in Nat /\ \A j \in 1..N : p[j] \in Fetcher
    BY <1>2, <1>3, <1>5
  <2>. HIDE DEF N
  <2>2. p \in Seq(Fetcher) /\ Len(p) = N
    BY <2>1
  <2>. HIDE DEF p
  <2>. QED BY <2>1, <2>2 DEF N
<1>. QED BY <1>4, <1>6 DEF n, m, R

(* The fetchers of the package come first, in the order of their places; those
   that are renamed come behind them. *)
InPlaces(pos, first) ==
  /\ first \in 0..Len(Handles) /\ pos \in [Nat -> Nat]
  /\ \A k \in 1..Len(opts.resolvers), t \in 1..opts.targets :
       opts.resolvers[k] \notin Disabled(t) =>
         /\ pos[Place(k, t, opts.targets)] \in 1..first
         /\ Handles[pos[Place(k, t, opts.targets)]] = AFetcher(opts.resolvers[k], t, FALSE)
  /\ \A i \in 1..first :
       \E k \in 1..Len(opts.resolvers), t \in 1..opts.targets :
         opts.resolvers[k] \notin Disabled(t) /\ pos[Place(k, t, opts.targets)] = i
  /\ \A i \in (first + 1)..Len(Handles) : Handles[i].renamed
  /\ \A k, l \in 1..Len(opts.resolvers), t, u \in 1..opts.targets :
       /\ k < l \/ (k = l /\ t < u)
       /\ opts.resolvers[l] \notin Disabled(u)
       => pos[Place(k, t, opts.targets)] < pos[Place(l, u, opts.targets)]

LEMMA HandlesLemma ==
  ASSUME opts \in Options
  PROVE  Handles \in Seq(Fetcher) /\ \E pos, first : InPlaces(pos, first)
<1> DEFINE n == opts.targets
           R == opts.resolvers
           m == Len(R)
           P == Product(FALSE)
           F == Among(P, Enabled)
           MetaOnly == {f \in Enabled : f.strategy = Meta}
           G == IF opts.renamed THEN Among(Product(TRUE), MetaOnly) ELSE <<>>
<1>1. /\ n \in Nat /\ 1..n \subseteq Target /\ m \in 0..2 /\ R \in Seq({Meta, Quick})
  BY OptionsLemma, ResolversLemma
<1>2. /\ m * n \in Nat
      /\ \A k \in 1..m, t \in 1..n : Place(k, t, n) \in 1..(m * n)
      /\ \A j \in 1..(m * n) : \E k \in 1..m, t \in 1..n : j = Place(k, t, n)
      /\ \A k, l \in 1..m, t, u \in 1..n :
           k < l \/ (k = l /\ t < u) => Place(k, t, n) < Place(l, u, n)
  <2>. HIDE DEF n, m
  <2>. QED BY <1>1, PlaceLemma
<1>3. /\ P \in Seq(Fetcher) /\ Len(P) = m * n
      /\ \A k \in 1..m, t \in 1..n : P[Place(k, t, n)] = AFetcher(R[k], t, FALSE)
  BY ProductLemma
<1>4. Product(TRUE) \in Seq(Fetcher) /\ \A j \in 1..Len(Product(TRUE)) : Product(TRUE)[j].renamed = TRUE
  <2>1. /\ Product(TRUE) \in Seq(Fetcher) /\ Len(Product(TRUE)) = m * n
        /\ \A k \in 1..m, t \in 1..n : Product(TRUE)[Place(k, t, n)] = AFetcher(R[k], t, TRUE)
    BY ProductLemma
  <2>2. \A k \in 1..m, t \in 1..n : AFetcher(R[k], t, TRUE).renamed = TRUE
    BY DEF AFetcher
  <2>. HIDE DEF n, m, R
  <2>3. ASSUME NEW j \in 1..Len(Product(TRUE)) PROVE Product(TRUE)[j].renamed = TRUE
    <3>1. PICK k \in 1..m, t \in 1..n : j = Place(k, t, n)
      BY <1>2, <2>1
    <3>. QED BY <2>1, <2>2, <3>1
  <2>. QED BY <2>1, <2>3
<1>5. Handles = F \o G
  BY DEF Handles
<1>. HIDE DEF n, m, R, P, MetaOnly
<1>6. F \in Seq(Fetcher)
  BY <1>3, AmongOrder
<1>o. PICK place : Arranges(place, P, Enabled)
  BY <1>3, AmongOrder, Zenon
<1>7. /\ place \in [0..Len(P) -> Nat]
      /\ \A j \in 1..Len(P) : P[j] \in Enabled => place[j] \in 1..Len(F) /\ F[place[j]] = P[j]
      /\ \A i \in 1..Len(F) : \E j \in 1..Len(P) : P[j] \in Enabled /\ place[j] = i
      /\ \A j, l \in 1..Len(P) : j < l /\ P[l] \in Enabled => place[j] < place[l]
  BY <1>o DEF Arranges
<1>8. G \in Seq(Fetcher) /\ \A i \in 1..Len(G) : G[i].renamed = TRUE
  <2>1. CASE ~opts.renamed
    BY <2>1
  <2>2. CASE opts.renamed
    <3> DEFINE Q == Product(TRUE)
    <3>1. G = Among(Q, MetaOnly)
      BY <2>2
    <3>. HIDE DEF G
    <3>2. Q \in Seq(Fetcher) /\ \A j \in 1..Len(Q) : Q[j].renamed = TRUE
      BY <1>4
    <3>. HIDE DEF Q
    <3>3. G \in Seq(Fetcher)
      BY <3>1, <3>2, AmongOrder
    <3>o. PICK spot : Arranges(spot, Q, MetaOnly)
      BY <3>2, AmongOrder, Zenon
    <3>4. /\ \A j \in 1..Len(Q) : Q[j] \in MetaOnly => spot[j] \in 1..Len(G) /\ G[spot[j]] = Q[j]
          /\ \A i \in 1..Len(G) : \E j \in 1..Len(Q) : Q[j] \in MetaOnly /\ spot[j] = i
      BY <3>1, <3>o DEF Arranges
    <3>5. ASSUME NEW i \in 1..Len(G) PROVE G[i].renamed = TRUE
      <4>1. PICK j \in 1..Len(Q) : Q[j] \in MetaOnly /\ spot[j] = i
        BY <3>4
      <4>. QED BY <3>2, <3>4, <4>1
    <3>. QED BY <3>3, <3>5
  <2>. QED BY <2>1, <2>2
<1>. HIDE DEF F, G
<1>9. Handles \in Seq(Fetcher) /\ Len(Handles) = Len(F) + Len(G) /\ Len(F) \in 0..Len(Handles)
  BY <1>5, <1>6, <1>8
<1>10. ASSUME NEW k \in 1..m, NEW t \in 1..n
       PROVE  P[Place(k, t, n)] \in Enabled <=> R[k] \notin Disabled(t)
  <2>1. R[k] \in {Meta, Quick} /\ t \in Target
    BY <1>1 DEF m
  <2> DEFINE f == AFetcher(R[k], t, FALSE)
  <2>2. f \in Fetcher /\ f.strategy = R[k] /\ f.target = t
    BY <2>1 DEF AFetcher, Fetcher
  <2>3. P[Place(k, t, n)] = f
    BY <1>3
  <2>. HIDE DEF f
  <2>. QED BY <2>2, <2>3 DEF Enabled
<1> DEFINE pos == [j \in Nat |-> IF j \in 0..Len(P) THEN place[j] ELSE 0]
<1>11. pos \in [Nat -> Nat] /\ \A j \in 1..Len(P) : pos[j] = place[j]
  <2>1. Len(P) \in Nat
    BY <1>3
  <2>. QED BY <1>7, <2>1
<1>. HIDE DEF pos
<1>12. ASSUME NEW k \in 1..m, NEW t \in 1..n, R[k] \notin Disabled(t)
       PROVE  /\ pos[Place(k, t, n)] \in 1..Len(F)
              /\ Handles[pos[Place(k, t, n)]] = AFetcher(R[k], t, FALSE)
  <2>1. Place(k, t, n) \in 1..Len(P) /\ P[Place(k, t, n)] \in Enabled
    BY <1>2, <1>3, <1>10, <1>12
  <2>2. pos[Place(k, t, n)] \in 1..Len(F) /\ F[pos[Place(k, t, n)]] = AFetcher(R[k], t, FALSE)
    BY <1>3, <1>7, <1>11, <2>1
  <2>3. \A i \in 1..Len(F) : Handles[i] = F[i]
    BY <1>5, <1>6, <1>8
  <2>. QED BY <2>2, <2>3
<1>13. ASSUME NEW i \in 1..Len(F)
       PROVE  \E k \in 1..m, t \in 1..n : R[k] \notin Disabled(t) /\ pos[Place(k, t, n)] = i
  <2>1. PICK j \in 1..Len(P) : P[j] \in Enabled /\ place[j] = i
    BY <1>7
  <2>2. PICK k \in 1..m, t \in 1..n : j = Place(k, t, n)
    BY <1>2, <1>3
  <2>. QED BY <1>10, <1>11, <2>1, <2>2
<1>14. ASSUME NEW i \in (Len(F) + 1)..Len(Handles) PROVE Handles[i].renamed
  <2>1. i - Len(F) \in 1..Len(G) /\ Handles[i] = G[i - Len(F)]
    BY <1>5, <1>6, <1>8, <1>9
  <2>. QED BY <1>8, <2>1
<1>15. ASSUME NEW k \in 1..m, NEW l \in 1..m, NEW t \in 1..n, NEW u \in 1..n,
              k < l \/ (k = l /\ t < u), R[l] \notin Disabled(u)
       PROVE  pos[Place(k, t, n)] < pos[Place(l, u, n)]
  <2>1. /\ Place(k, t, n) \in 1..Len(P) /\ Place(l, u, n) \in 1..Len(P)
        /\ Place(k, t, n) < Place(l, u, n)
        /\ P[Place(l, u, n)] \in Enabled
    BY <1>2, <1>3, <1>10, <1>15
  <2>. QED BY <1>7, <1>11, <2>1
<1>16. InPlaces(pos, Len(F))
  BY <1>9, <1>11, <1>12, <1>13, <1>14, <1>15 DEF InPlaces, n, m, R
<1>. QED BY <1>9, <1>16

(* From the moment the fetchers are known they are the ones of the options, and the
   loop is among them as long as one is being fetched, or has been chosen. *)
Ordered ==
  /\ at \in {"find", "fetch", "verify"} \/ result \in {"fetch", "source"} => handles = Handles
  /\ at \in {"fetch", "verify"} \/ result = "fetch" => h <= Len(handles)
  /\ result = "source" => h > Len(handles)
  /\ at # "over" => result = "none"
  /\ at = "start" => h = 1

OrderInv == IInv /\ Good /\ TypeOK /\ Ordered

LEMMA InitOrderInv == Init => OrderInv
<1> SUFFICES ASSUME Init PROVE OrderInv OBVIOUS
<1>1. handles \in Seq(Fetcher) /\ Len(handles) = 0
  BY DEF Init
<1>2. \A s \in {"start", "none"} : s \in Status \cup {"none"}
  BY DEF Status
<1>3. TypeOK
  BY <1>1, <1>2 DEF Init, TypeOK, Found, Nothing, Status
<1>4. Ordered
  BY DEF Init, Ordered
<1>. QED BY <1>3, <1>4, InitGood DEF OrderInv

(* The loop goes on to the next fetcher. *)
LEMMA NextFetcherTypes ==
  ASSUME OrderInv, NextFetcher, at \in {"find", "fetch", "verify"}, h <= Len(handles),
         UNCHANGED <<opts, passed, handles, reported, result, bin_files>>,
         unsupported' \subseteq Target,
         status' \in [Target -> Status], dirs' \in [BinPaths -> {"absent", "tree", "file"}]
  PROVE  TypeOK' /\ Ordered'
<1>1. Len(handles) \in Nat /\ h + 1 \in 1..(Len(handles) + 1)
  BY DEF OrderInv, TypeOK
<1>2. Handles' = Handles
  BY DEF Handles, Product, Enabled, Disabled
<1>3. TypeOK'
  BY <1>1 DEF OrderInv, TypeOK, NextFetcher, Found, Nothing
<1>4. Ordered'
  BY <1>2 DEF OrderInv, Ordered, NextFetcher
<1>. QED BY <1>3, <1>4

LEMMA NextTypes == OrderInv /\ [Next]_vars => TypeOK' /\ Ordered'
<1> SUFFICES ASSUME OrderInv, [Next]_vars PROVE TypeOK' /\ Ordered' OBVIOUS
<1>i. IInv'
  BY NextGood DEF OrderInv
<1>t. /\ opts \in Options /\ handles \in Seq(Fetcher) /\ Len(handles) \in Nat /\ h \in 1..(Len(handles) + 1)
      /\ status \in [Target -> Status] /\ dirs \in [BinPaths -> {"absent", "tree", "file"}]
      /\ passed \in [Target -> {"none", "noop", "minisign"}]
      /\ passed' \in [Target -> {"none", "noop", "minisign"}]
      /\ unsupported \subseteq Target
      /\ status' \in [Target -> Status] /\ dirs' \in [BinPaths -> {"absent", "tree", "file"}]
      /\ reported' \in [Target -> Status \cup {"none"}] /\ found' \in Found
  BY <1>i DEF OrderInv, TypeOK, IInv
<1>h. UNCHANGED opts => Handles' = Handles
  BY DEF Handles, Product, Enabled, Disabled
<1>c. h <= Len(handles) => Current \in Fetcher
  BY <1>t DEF Current
<1>b. opts.binaries \subseteq Bin
  BY <1>t, OptionsLemma DEF Bin
<1>1. CASE PrepareEnds
  BY <1>1, <1>t DEF PrepareEnds, OrderInv, TypeOK, Ordered
<1>2. CASE Prepare
  <2>1. handles' = Handles /\ Handles \in Seq(Fetcher) /\ Len(Handles) \in Nat /\ h = 1
    BY <1>2, <1>t, HandlesLemma DEF Prepare, OrderInv, Ordered
  <2>. QED BY <1>2, <1>t, <1>h, <2>1 DEF Prepare, OrderInv, TypeOK, Ordered
<1>3. CASE FindMeta
  <2>1. CASE NextFetcher
    BY <1>3, <1>t, <2>1, NextFetcherTypes DEF FindMeta, Finding
  <2>2. CASE ~NextFetcher
    BY <1>3, <1>t, <1>h, <2>2 DEF FindMeta, Finding, OrderInv, TypeOK, Ordered
  <2>. QED BY <2>1, <2>2
<1>4. CASE NotSupported
  <2>1. unsupported' \subseteq Target
    BY <1>4, <1>t, <1>c DEF NotSupported, Finding, Fetcher
  <2>. QED BY <1>4, <1>t, <2>1, NextFetcherTypes DEF NotSupported, Finding
<1>5. CASE FindQuick
  <2>1. CASE NextFetcher
    BY <1>5, <1>t, <2>1, NextFetcherTypes DEF FindQuick, Finding
  <2>2. CASE ~NextFetcher
    BY <1>5, <1>t, <1>h, <2>2 DEF FindQuick, Finding, OrderInv, TypeOK, Ordered
  <2>. QED BY <2>1, <2>2
<1>6. CASE TimedOut
  <2>1. unsupported' \subseteq Target
    BY <1>6, <1>t, <1>c DEF TimedOut, Fetcher
  <2>. QED BY <1>6, <1>t, <2>1, NextFetcherTypes DEF TimedOut
<1>7. CASE FetchFails
  BY <1>7, <1>t, NextFetcherTypes DEF FetchFails, OrderInv, Ordered
<1>8. CASE SignatureFails
  BY <1>8, <1>t, NextFetcherTypes DEF SignatureFails, OrderInv, Ordered
<1>9. CASE Fetched
  <2>1. archive' \subseteq Bin
    BY <1>9, <1>b DEF Fetched
  <2>. QED BY <1>9, <1>t, <1>h, <2>1 DEF Fetched, OrderInv, TypeOK, Ordered
<1>10. CASE Refuse
  BY <1>10, <1>t, NextFetcherTypes DEF Refuse, OrderInv, Ordered
<1>11. CASE Choose
  <2>1. bin_files' \subseteq Bin
    BY <1>11 DEF Choose, OrderInv, TypeOK
  <2>. QED BY <1>11, <1>t, <1>h, <2>1 DEF Choose, OrderInv, TypeOK, Ordered
<1>12. CASE GiveUp
  BY <1>12, <1>t, <1>h DEF GiveUp, OrderInv, TypeOK, Ordered
<1>13. CASE UNCHANGED vars
  BY <1>13, <1>t, <1>h DEF vars, OrderInv, TypeOK, Ordered
<1>. QED
  BY <1>1, <1>2, <1>3, <1>4, <1>5, <1>6, <1>7, <1>8, <1>9, <1>10, <1>11, <1>12, <1>13
  DEF Next, Terminated

LEMMA RankLemma ==
  ASSUME opts \in Options, NEW k \in 1..Len(opts.resolvers)
  PROVE  Rank(opts.resolvers[k]) = k
<1>1. \A i \in 1..Len(opts.resolvers) : opts.resolvers[i] = opts.resolvers[k] => i = k
  BY OptionsLemma, ResolversLemma
<1>. QED BY <1>1 DEF Rank

(* A fetcher that is preferred to the chosen one is at an index before it; and
   when all have failed every index is behind. *)
LEMMA OrderInvInOrder == OrderInv => InOrder
<1> SUFFICES ASSUME OrderInv, result \in {"fetch", "source"},
                    NEW k \in 1..Len(opts.resolvers), NEW t \in 1..opts.targets,
                    opts.resolvers[k] \notin Disabled(t),
                    result = "fetch" => Preferred(opts.resolvers[k], t, Current)
             PROVE  \E i \in 1..(h - 1) : handles[i] = AFetcher(opts.resolvers[k], t, FALSE)
  BY DEF InOrder
<1> DEFINE n == opts.targets
           R == opts.resolvers
<1>1. /\ opts \in Options /\ handles = Handles /\ Len(handles) \in Nat /\ h \in Nat
      /\ result = "fetch" => h \in 1..Len(handles)
      /\ result = "source" => h > Len(handles)
  BY DEF OrderInv, TypeOK, Ordered
<1>2. PICK pos, first : InPlaces(pos, first)
  BY <1>1, HandlesLemma, Zenon
<1> DEFINE p == pos[Place(k, t, n)]
<1>3. first \in 0..Len(handles) /\ p \in 1..first /\ handles[p] = AFetcher(R[k], t, FALSE)
  BY <1>1, <1>2 DEF InPlaces
<1>4. p < h
  <2>1. CASE h > first
    BY <1>1, <1>3, <2>1
  <2>2. CASE h <= first
    <3>1. result = "fetch" /\ h \in 1..first
      BY <1>1, <1>3, <2>2
    <3>2. PICK l \in 1..Len(R), u \in 1..n : R[l] \notin Disabled(u) /\ pos[Place(l, u, n)] = h
      BY <1>2, <3>1 DEF InPlaces
    <3>3. Current = AFetcher(R[l], u, FALSE)
      BY <1>1, <1>2, <3>2 DEF InPlaces, Current
    <3>4. ~Current.renamed /\ Current.strategy = R[l] /\ Current.target = u
      BY <3>3 DEF AFetcher
    <3>5. Rank(R[k]) = k /\ Rank(R[l]) = l /\ (R[k] = R[l] => k = l)
      BY <1>1, RankLemma
    <3>6. k < l \/ (k = l /\ t < u)
      BY <3>1, <3>4, <3>5 DEF Preferred
    <3>. QED BY <1>2, <3>2, <3>6 DEF InPlaces
  <2>. QED BY <1>1, <1>3, <2>1, <2>2
<1>5. p \in 1..(h - 1)
  BY <1>1, <1>3, <1>4
<1>. QED BY <1>3, <1>5

LEMMA Order == Spec => []OrderInv
<1>1. OrderInv /\ [Next]_vars => OrderInv'
  BY NextGood, NextTypes DEF OrderInv
<1>. QED BY <1>1, InitOrderInv, PTL DEF Spec

(* The resolution of a crate is of its types: the loop never leaves the fetchers,
   and never fetches from none. *)
THEOREM ResolutionTypes == Spec => []TypeOK
BY Order, PTL DEF OrderInv

(* Whatever is chosen, all that is preferred to it and not disabled has been tried
   before; and cargo builds the crate only when nothing is left to try. *)
THEOREM TriedInOrder == Spec => []InOrder
BY Order, OrderInvInOrder, PTL

-----------------------------------------------------------------------------
(* Preparation *)

(* As long as the handle of the search has not gone with a dropped resolution it
   is where the one inside the initializer, or the next one, finds it; so the
   cell is filled with what the search has found, and with nothing else. *)
CellInv ==
  /\ cell = Empty => search # "none"
  /\ holder # Nobody => cell = Empty
  /\ handle # "gone" /\ cell = Empty =>
       \/ handle = "kept" /\ holder = Nobody
       \/ handle \in Users /\ holder = handle
  /\ handle # "gone" /\ cell # Empty => cell = sought /\ search \in {"none", "ended"}
  /\ \A u \in Users : client[u] # Empty => client[u] = cell

LInv == LazyTypeOK /\ CellInv

(* The invariant holds as soon as the credential files have been read. *)
LEMMA InitLInv == LazyInit => LInv
<1> SUFFICES ASSUME LazyInit PROVE LInv OBVIOUS
<1>1. PICK argument, discover, inHome, inXdg \in BOOLEAN :
        /\ sought = IF argument THEN "argument"
                   ELSE IF discover THEN FromHome(inHome, inXdg) ELSE NoToken
        /\ IF sought = NoToken /\ discover
           THEN cell = Empty /\ search = "gh" /\ handle = "kept"
           ELSE cell = sought /\ search = "none" /\ handle = "none"
  BY DEF LazyInit
<1>2. sought \in Tokens
  BY <1>1 DEF FromHome, Tokens
<1>3. holder = Nobody /\ client = [u \in Users |-> Empty]
  BY DEF LazyInit
<1>4. LazyTypeOK
  BY <1>1, <1>2, <1>3 DEF LazyTypeOK
<1>5. CellInv
  BY <1>1, <1>2, <1>3, EmptyAssumption DEF CellInv
<1> QED BY <1>4, <1>5 DEF LInv

(* No step of a resolution or of the search breaks it. *)
LEMMA NextLInv == LInv /\ [LazyNext]_lazyVars => LInv'
<1> SUFFICES ASSUME LInv, [LazyNext]_lazyVars PROVE LInv' OBVIOUS
<1> USE NobodyAssumption, UsersAssumption, EmptyAssumption
<1>1. CASE GhEnds
  BY <1>1 DEF LInv, LazyTypeOK, CellInv, GhEnds, Tokens
<1>2. CASE GitEnds
  BY <1>2 DEF LInv, LazyTypeOK, CellInv, GitEnds, Tokens
<1>3. ASSUME NEW u \in Users, Enter(u) PROVE LInv'
  BY <1>3 DEF LInv, LazyTypeOK, CellInv, Enter
<1>4. ASSUME NEW u \in Users, Made(u) PROVE LInv'
  <2>1. handle # "gone" => handle = u
    BY <1>4 DEF LInv, CellInv, Made
  <2>2. LazyTypeOK'
    BY <1>4 DEF LInv, LazyTypeOK, Made, Tokens
  <2>3. CellInv'
    BY <1>4, <2>1 DEF LInv, LazyTypeOK, CellInv, Made, Tokens
  <2> QED BY <2>2, <2>3 DEF LInv
<1>5. ASSUME NEW u \in Users, Got(u) PROVE LInv'
  BY <1>5 DEF LInv, LazyTypeOK, CellInv, Got
<1>6. ASSUME NEW u \in Users, Dropped(u) PROVE LInv'
  BY <1>6 DEF LInv, LazyTypeOK, CellInv, Dropped
<1>7. CASE UNCHANGED lazyVars
  BY <1>7 DEF LInv, LazyTypeOK, CellInv, lazyVars
<1> QED BY <1>1, <1>2, <1>3, <1>4, <1>5, <1>6, <1>7 DEF LazyNext

LEMMA LInvOneToken == LInv => OneToken
<1> SUFFICES ASSUME LInv, handle # "gone", NEW u \in Users, client[u] # Empty
             PROVE client[u] = sought /\ search \in {"none", "ended"}
  BY DEF OneToken
<1>1. client[u] = cell /\ cell # Empty
  BY DEF LInv, CellInv
<1> QED BY <1>1 DEF LInv, CellInv

(* The lazy client keeps its types and gives out one client only. *)
THEOREM LazyClient == LazySpec => [](LazyTypeOK /\ OneToken)
<1>1. LInv => LazyTypeOK /\ OneToken
  BY LInvOneToken DEF LInv
<1> QED BY InitLInv, NextLInv, <1>1, PTL DEF LazySpec

-----------------------------------------------------------------------------

(* What the resolutions, the search and the detection do around it are steps of
   the lazy client, and the search is given up in an ending session only. *)
LEMMA PrepSteps == [PrepNext]_prepVars => [LazyNext]_lazyVars /\ (handle' = "gone" /\ ~ending' => handle = "gone")
<1> SUFFICES ASSUME [PrepNext]_prepVars
             PROVE  [LazyNext]_lazyVars /\ (handle' = "gone" /\ ~ending' => handle = "gone")
  OBVIOUS
<1> USE UsersAssumption
<1>1. CASE Detect \/ Hang \/ SessionEnding \/ Prepared \/ UNCHANGED prepVars
  BY <1>1 DEF Detect, Hang, SessionEnding, Prepared, prepVars, lazyVars
<1>2. CASE SearchStep
  BY <1>2 DEF SearchStep, Search, LazyNext, GhEnds, GitEnds
<1>3. ASSUME NEW i \in Users, Resolution(i)
      PROVE  [LazyNext]_lazyVars /\ (handle' = "gone" => handle = "gone")
  <2>1. CASE PackageResolved(i) \/ TargetsKnown(i)
    BY <2>1 DEF PackageResolved, TargetsKnown, lazyVars
  <2>2. CASE GetClient(i)
    BY <2>2 DEF GetClient, LazyNext, Enter, Made, Got
  <2> QED BY <1>3, <2>1, <2>2 DEF Resolution
<1>4. ASSUME NEW i \in Users, Drop(i)
      PROVE  [LazyNext]_lazyVars /\ ending'
  BY <1>4 DEF Drop, LazyNext
<1> QED BY <1>1, <1>2, <1>3, <1>4 DEF PrepNext

(* A session that goes on gives every resolution the client with the token that
   was found. *)
THEOREM TokenShared == PrepSpec => []SharedToken
<1> DEFINE PInv == LInv /\ (handle = "gone" => ending)
<1>1. PrepInit => PInv
  <2> SUFFICES ASSUME PrepInit PROVE PInv OBVIOUS
  <2>1. handle # "gone"
    BY DEF PrepInit, LazyInit
  <2> QED BY <2>1, InitLInv DEF PrepInit
<1>2. PInv /\ [PrepNext]_prepVars => PInv'
  <2> SUFFICES ASSUME PInv, [PrepNext]_prepVars PROVE PInv' OBVIOUS
  <2>1. LInv'
    BY NextLInv, PrepSteps
  <2>2. ending => ending'
    BY DEF PrepNext, Detect, Hang, SearchStep, SessionEnding, Prepared, Resolution,
           PackageResolved, TargetsKnown, GetClient, Drop, prepVars
  <2> QED BY <2>1, <2>2, PrepSteps
<1>3. PInv => SharedToken
  BY LInvOneToken DEF SharedToken
<1> QED BY <1>1, <1>2, <1>3, PTL DEF PrepSpec

-----------------------------------------------------------------------------
(* DetectTargets *)

Arch == {"x86_64", "x86_64h", "aarch64", "arm64e", "i586", "i686", "thumbv7a", "universal", "universal2"}
Abi == {"gnu", "musl", "android", "ohos", "muslohos", "darwin", "msvc", "gnullvm"}
Targets == Arch \X Abi

(* Two lists, one after the other. *)
LEMMA ListConcat ==
  ASSUME NEW X, NEW a \in Seq(X), NEW b \in Seq(X)
  PROVE  /\ a \o b \in Seq(X)
         /\ ToSet(a \o b) = ToSet(a) \cup ToSet(b)
         /\ IsInjective(a) /\ IsInjective(b) /\ ToSet(a) \cap ToSet(b) = {} => IsInjective(a \o b)
         /\ \A t \in ToSet(a), u \in ToSet(b) : Before(a \o b, t, u)
         /\ a # <<>> => (a \o b)[1] = a[1]
<1> DEFINE ab == a \o b
           m == Len(a)
           n == Len(b)
<1>1. /\ m \in Nat /\ n \in Nat /\ DOMAIN a = 1..m /\ DOMAIN b = 1..n
      /\ ab \in Seq(X) /\ DOMAIN ab = 1..(m + n)
      /\ \A i \in 1..(m + n) : ab[i] = IF i <= m THEN a[i] ELSE b[i - m]
  BY ConcatProperties
<1>. HIDE DEF ab, m, n
<1>2. \A i \in 1..m : i \in 1..(m + n) /\ ab[i] = a[i]
  BY <1>1
<1>3. \A i \in 1..n : m + i \in 1..(m + n) /\ ab[m + i] = b[i]
  <2> SUFFICES ASSUME NEW i \in 1..n PROVE m + i \in 1..(m + n) /\ ab[m + i] = b[i]
    OBVIOUS
  <2>1. m + i \in 1..(m + n) /\ ~(m + i <= m) /\ (m + i) - m = i
    BY <1>1
  <2>. QED BY <1>1, <2>1
<1>4. ASSUME NEW i \in 1..(m + n)
      PROVE  \/ i \in 1..m /\ ab[i] = a[i]
             \/ i - m \in 1..n /\ ab[i] = b[i - m] /\ i > m
  BY <1>1
<1>5. ToSet(ab) = ToSet(a) \cup ToSet(b)
  <2>1. ToSet(ab) \subseteq ToSet(a) \cup ToSet(b)
    BY <1>1, <1>4 DEF ToSet
  <2>2. ToSet(a) \cup ToSet(b) \subseteq ToSet(ab)
    <3>1. \A i \in 1..m : a[i] \in ToSet(ab)
      BY <1>1, <1>2 DEF ToSet
    <3>2. \A i \in 1..n : b[i] \in ToSet(ab)
      BY <1>1, <1>3 DEF ToSet
    <3>. QED BY <1>1, <3>1, <3>2 DEF ToSet
  <2>. QED BY <2>1, <2>2
<1>6. ASSUME IsInjective(a), IsInjective(b), ToSet(a) \cap ToSet(b) = {} PROVE IsInjective(ab)
  <2> SUFFICES ASSUME NEW i \in 1..(m + n), NEW j \in 1..(m + n), ab[i] = ab[j] PROVE i = j
    BY <1>1 DEF IsInjective
  <2>1. /\ (i \in 1..m /\ ab[i] = a[i]) \/ (i - m \in 1..n /\ ab[i] = b[i - m])
        /\ (j \in 1..m /\ ab[j] = a[j]) \/ (j - m \in 1..n /\ ab[j] = b[j - m])
    BY <1>4, Zenon
  <2>2. \A k \in 1..m, l \in 1..n : a[k] # b[l]
    BY <1>1, <1>6 DEF ToSet
  <2>3. CASE i \in 1..m /\ j \in 1..m /\ ab[i] = a[i] /\ ab[j] = a[j]
    BY <1>1, <1>6, <2>3 DEF IsInjective
  <2>4. CASE i - m \in 1..n /\ j - m \in 1..n /\ ab[i] = b[i - m] /\ ab[j] = b[j - m]
    <3>1. i - m = j - m
      BY <1>1, <1>6, <2>4 DEF IsInjective
    <3>. QED BY <1>1, <3>1
  <2>. QED BY <2>1, <2>2, <2>3, <2>4
<1>7. ASSUME NEW t \in ToSet(a), NEW u \in ToSet(b) PROVE Before(ab, t, u)
  <2>1. PICK i \in 1..m : a[i] = t
    BY <1>1 DEF ToSet
  <2>2. PICK j \in 1..n : b[j] = u
    BY <1>1 DEF ToSet
  <2>3. i < m + j /\ i \in DOMAIN ab /\ m + j \in DOMAIN ab /\ ab[i] = t /\ ab[m + j] = u
    BY <1>1, <1>2, <1>3, <2>1, <2>2
  <2>. QED BY <2>3 DEF Before
<1>8. a # <<>> => ab[1] = a[1]
  <2>1. a # <<>> => 1 \in 1..m
    BY <1>1 DEF m
  <2>. QED BY <1>2, <2>1
<1>. QED BY <1>1, <1>5, <1>6, <1>7, <1>8 DEF ab

LEMMA OneTarget ==
  ASSUME NEW t \in Targets
  PROVE  /\ <<t>> \in Seq(Targets) /\ ToSet(<<t>>) = {t} /\ IsInjective(<<t>>) /\ <<t>> # <<>> /\ <<t>>[1] = t
BY DEF ToSet, IsInjective

LEMMA TwoTargets ==
  ASSUME NEW t \in Targets, NEW u \in Targets, t # u
  PROVE  <<t, u>> \in Seq(Targets) /\ ToSet(<<t, u>>) = {t, u} /\ IsInjective(<<t, u>>) /\ <<t, u>>[1] = t
<1>1. DOMAIN <<t, u>> = 1..2 /\ 1..2 = {1, 2} /\ <<t, u>>[1] = t /\ <<t, u>>[2] = u
  OBVIOUS
<1>. QED BY <1>1 DEF ToSet, IsInjective

LEMMA NoTarget == <<>> \in Seq(Targets) /\ ToSet(<<>>) = {} /\ IsInjective(<<>>)
BY DEF ToSet, IsInjective

(* What is, or is not, added to a list. *)
LEMMA SomeTargets ==
  ASSUME NEW answer \in BOOLEAN, NEW l \in Seq(Targets), IsInjective(l)
  PROVE  /\ ThenSome(answer, l) \in Seq(Targets) /\ IsInjective(ThenSome(answer, l))
         /\ ToSet(ThenSome(answer, l)) = IF answer THEN ToSet(l) ELSE {}
BY NoTarget DEF ThenSome


LEMMA AbisTargets ==
  ASSUME NEW arch \in Arch
  PROVE  /\ Abis(arch) \in Seq(Targets) /\ IsInjective(Abis(arch))
         /\ ToSet(Abis(arch)) = {arch} \X WindowsAbis
<1> DEFINE l == Abis(arch)
<1>1. /\ DOMAIN l = 1..3 /\ 1..3 = {1, 2, 3}
      /\ l[1] = <<arch, "msvc">> /\ l[2] = <<arch, "gnu">> /\ l[3] = <<arch, "gnullvm">> /\ l \in Seq(Targets)
  <2>1. <<arch, "msvc">> \in Targets /\ <<arch, "gnu">> \in Targets /\ <<arch, "gnullvm">> \in Targets
    BY DEF Targets, Abi
  <2>. HIDE DEF Targets
  <2>. QED BY <2>1 DEF Abis
<1>. HIDE DEF l
<1>2. ToSet(l) = {l[1], l[2], l[3]}
  BY <1>1 DEF ToSet
<1>3. \A s \in WindowsAbis : <<arch, s>> \in {l[1], l[2], l[3]}
  BY <1>1 DEF WindowsAbis
<1>4. ToSet(l) = {arch} \X WindowsAbis
  BY <1>1, <1>2, <1>3 DEF WindowsAbis
<1>5. IsInjective(l)
  BY <1>1 DEF IsInjective
<1>. QED BY <1>1, <1>4, <1>5 DEF l

LEMMA FallbacksTargets ==
  ASSUME NEW m \in Machines
  PROVE  /\ Fallbacks(m) \in Seq(Targets) /\ IsInjective(Fallbacks(m))
         /\ ToSet(Fallbacks(m)) = TripleArchs(m) \X WindowsAbis
<1>1. CASE m = "x86"
  <2> DEFINE a == Abis("i586")
             b == Abis("i686")
  <2>1. /\ a \in Seq(Targets) /\ IsInjective(a) /\ ToSet(a) = {"i586"} \X WindowsAbis
        /\ b \in Seq(Targets) /\ IsInjective(b) /\ ToSet(b) = {"i686"} \X WindowsAbis
    <3>1. "i586" \in Arch /\ "i686" \in Arch
      BY DEF Arch
    <3>. QED BY <3>1, AbisTargets
  <2>. HIDE DEF a, b
  <2>2. ToSet(a) \cap ToSet(b) = {} /\ ToSet(a) \cup ToSet(b) = {"i586", "i686"} \X WindowsAbis
    BY <2>1
  <2>3. a \o b \in Seq(Targets) /\ IsInjective(a \o b) /\ ToSet(a \o b) = {"i586", "i686"} \X WindowsAbis
    BY <2>1, <2>2, ListConcat
  <2>4. Fallbacks(m) = a \o b /\ TripleArchs(m) = {"i586", "i686"}
    BY <1>1 DEF Fallbacks, TripleArchs, a, b
  <2>. QED BY <2>3, <2>4
<1>2. CASE m # "x86"
  <2>1. m \in Arch /\ Fallbacks(m) = Abis(m) /\ TripleArchs(m) = {m}
    BY <1>2 DEF Fallbacks, TripleArchs, Machines, Arch
  <2>. QED BY <2>1, AbisTargets
<1>. QED BY <1>1, <1>2

LEMMA SystemOf ==
  ASSUME NEW s \in DOMAIN Systems, NEW self \in Systems[s]
  PROVE  System(self) = s
<1>1. DOMAIN Systems = {"linux", "macos", "windows"}
  BY DEF Systems
<1>2. \A t \in DOMAIN Systems : self \in Systems[t] => t = s
  BY <1>1 DEF Systems
<1>. QED BY <1>2 DEF System

(* LinuxTargets: what is in the list, and that gnu comes before musl. *)
LEMMA LinuxRight ==
  ASSUME NEW self \in Systems.linux, NEW yes
  PROVE  LET l == LinuxTargets(self, yes)
             gnu == <<self[1], "gnu">>
             musl == <<self[1], "musl">>
         IN  /\ IsInjective(l)
             /\ AsksLibc(self) => ToSet(l) = {t \in {gnu, musl} : t = musl \/ yes # {}}
             /\ AsksLibc(self) /\ yes # {} => Before(l, gnu, musl)
             /\ ~AsksLibc(self) => ToSet(l) = {self, <<self[1], Musl(self[2])>>}
<1> DEFINE l == LinuxTargets(self, yes)
           gnu == <<self[1], "gnu">>
           musl == <<self[1], "musl">>
           other == <<self[1], Musl(self[2])>>
<1>1. /\ self[1] = "x86_64" /\ self[2] \in {"gnu", "musl", "android", "ohos"} /\ self = <<self[1], self[2]>>
      /\ self \in Targets /\ gnu \in Targets /\ musl \in Targets /\ other \in Targets
      /\ gnu # musl
  BY DEF Systems, Targets, Arch, Abi, Musl
<1>2. CASE AsksLibc(self)
  <2> DEFINE some == ThenSome(yes # {}, <<gnu>>)
  <2>1. /\ <<gnu>> \in Seq(Targets) /\ ToSet(<<gnu>>) = {gnu} /\ IsInjective(<<gnu>>)
        /\ <<musl>> \in Seq(Targets) /\ ToSet(<<musl>>) = {musl} /\ IsInjective(<<musl>>)
    BY <1>1, OneTarget
  <2>2. some \in Seq(Targets) /\ IsInjective(some) /\ ToSet(some) = IF yes # {} THEN {gnu} ELSE {}
    <3>1. (yes # {}) \in BOOLEAN
      OBVIOUS
    <3>. QED BY <2>1, <3>1, SomeTargets
  <2>3. l = some \o <<musl>>
    BY <1>2 DEF LinuxTargets
  <2>. HIDE DEF some, gnu, musl, l
  <2> DEFINE last == <<musl>>
  <2>4. /\ last \in Seq(Targets) /\ ToSet(last) = {musl} /\ IsInjective(last) /\ l = some \o last
    BY <2>1, <2>3
  <2>. HIDE DEF last
  <2>5. /\ IsInjective(l) /\ ToSet(l) = ToSet(some) \cup {musl}
        /\ \A t \in ToSet(some), u \in ToSet(last) : Before(l, t, u)
    <3>1. ToSet(some) \cap ToSet(last) = {}
      BY <1>1, <2>2, <2>4
    <3>2. some \in Seq(Targets) /\ IsInjective(some) /\ last \in Seq(Targets) /\ IsInjective(last)
      BY <2>2, <2>4
    <3>3. /\ IsInjective(some \o last) /\ ToSet(some \o last) = ToSet(some) \cup ToSet(last)
          /\ \A t \in ToSet(some), u \in ToSet(last) : Before(some \o last, t, u)
      BY <3>1, <3>2, ListConcat
    <3>. QED BY <2>4, <3>3
  <2>6. yes # {} => Before(l, gnu, musl)
    BY <2>2, <2>4, <2>5
  <2>7. ToSet(l) = {t \in {gnu, musl} : t = musl \/ yes # {}}
    BY <1>1, <2>2, <2>5
  <2>. QED BY <1>2, <2>5, <2>6, <2>7 DEF l, gnu, musl
<1>3. CASE ~AsksLibc(self)
  <2>1. self # other
    BY <1>1, <1>3 DEF AsksLibc, Musl
  <2>2. l = <<self, other>>
    BY <1>3 DEF LinuxTargets
  <2>3. IsInjective(l) /\ ToSet(l) = {self, other}
    BY <1>1, <2>1, <2>2, TwoTargets
  <2>. QED BY <1>3, <2>3
<1>. QED BY <1>2, <1>3

Universals == {<<"universal", "darwin">>, <<"universal2", "darwin">>}

(* MacTargets: the host first; on aarch64 whatever is native before what is emulated. *)
LEMMA MacRight ==
  ASSUME NEW self \in Systems.macos, NEW yes \in SUBSET Questions(self)
  PROVE  LET l == MacTargets(self, yes)
             emulated == yes \X {"darwin"}
         IN  /\ IsInjective(l) /\ l[1] = self /\ self \in ToSet(l)
             /\ ToSet(l) \subseteq {self} \cup Universals \cup emulated
                                     \cup (IF self[1] = "x86_64h" THEN {<<"x86_64", "darwin">>} ELSE {})
             /\ emulated \subseteq ToSet(l)
             /\ self[1] = "aarch64" => \A t \in {self} \cup Universals, u \in emulated : Before(l, t, u)
<1> DEFINE l == MacTargets(self, yes)
           emulated == yes \X {"darwin"}
           x86h == <<"x86_64h", "darwin">>
           x86 == <<"x86_64", "darwin">>
           sh == ThenSome("x86_64h" \in yes, <<x86h>>)
           sx == ThenSome("x86_64" \in yes, <<x86>>)
           one == <<self>>
           uni == Universal
<1>1. /\ self[1] \in {"aarch64", "x86_64", "x86_64h", "arm64e"} /\ self[2] = "darwin" /\ self = <<self[1], self[2]>>
      /\ self \in Targets /\ x86 \in Targets /\ x86h \in Targets /\ x86 # x86h
      /\ Universals \subseteq Targets /\ {self, x86, x86h} \cap Universals = {}
  BY DEF Systems, Targets, Arch, Abi, Universals
<1>2. /\ self[1] = "aarch64" => yes \subseteq {"x86_64h", "x86_64"}
      /\ self[1] = "x86_64" => yes \subseteq {"x86_64h"}
      /\ self[1] \notin {"aarch64", "x86_64"} => yes = {}
  <2>1. "macos" \in DOMAIN Systems /\ self \in Systems["macos"]
    BY DEF Systems
  <2>2. System(self) = "macos"
    BY <2>1, SystemOf
  <2>. QED BY <2>2 DEF Questions, Emulated
<1>3. one \in Seq(Targets) /\ ToSet(one) = {self} /\ IsInjective(one) /\ one # <<>> /\ one[1] = self
  BY <1>1, OneTarget
<1>4. uni \in Seq(Targets) /\ ToSet(uni) = Universals /\ IsInjective(uni)
  <2>1. <<"universal", "darwin">> \in Targets /\ <<"universal2", "darwin">> \in Targets
        /\ <<"universal", "darwin">> # <<"universal2", "darwin">>
    BY <1>1 DEF Universals
  <2>. QED BY <2>1, TwoTargets DEF Universal, Universals
<1>5. /\ sh \in Seq(Targets) /\ IsInjective(sh) /\ ToSet(sh) = IF "x86_64h" \in yes THEN {x86h} ELSE {}
      /\ sx \in Seq(Targets) /\ IsInjective(sx) /\ ToSet(sx) = IF "x86_64" \in yes THEN {x86} ELSE {}
  <2>1. /\ <<x86h>> \in Seq(Targets) /\ ToSet(<<x86h>>) = {x86h} /\ IsInjective(<<x86h>>)
        /\ <<x86>> \in Seq(Targets) /\ ToSet(<<x86>>) = {x86} /\ IsInjective(<<x86>>)
    BY <1>1, OneTarget
  <2>2. ("x86_64h" \in yes) \in BOOLEAN /\ ("x86_64" \in yes) \in BOOLEAN
    OBVIOUS
  <2>. QED BY <2>1, <2>2, SomeTargets
<1>6. /\ self[1] = "aarch64" => l = (one \o uni) \o (sh \o sx)
      /\ self[1] = "x86_64" => l = (one \o sh) \o uni
      /\ self[1] = "x86_64h" => l = <<self, x86>> \o uni
      /\ self[1] = "arm64e" => l = one
  BY DEF MacTargets
<1>. HIDE DEF l, sh, sx, one, uni, x86, x86h
<1>7. CASE self[1] = "aarch64"
  <2> DEFINE a == one \o uni
             b == sh \o sx
  <2>1. a \in Seq(Targets) /\ ToSet(a) = {self} \cup Universals /\ IsInjective(a) /\ a[1] = self
    <3>1. ToSet(one) \cap ToSet(uni) = {}
      BY <1>1, <1>3, <1>4
    <3>. QED BY <1>3, <1>4, <3>1, ListConcat
  <2>2. b \in Seq(Targets) /\ ToSet(b) = ToSet(sh) \cup ToSet(sx) /\ IsInjective(b)
    <3>1. ToSet(sh) \cap ToSet(sx) = {}
      BY <1>1, <1>5
    <3>. QED BY <1>5, <3>1, ListConcat
  <2>3. ToSet(b) = emulated
    <3>1. emulated = (IF "x86_64h" \in yes THEN {x86h} ELSE {}) \cup (IF "x86_64" \in yes THEN {x86} ELSE {})
      BY <1>2, <1>7 DEF x86, x86h
    <3>. QED BY <1>5, <2>2, <3>1
  <2>4. a # <<>>
    BY <2>1, NoTarget
  <2>5. ToSet(a) \cap ToSet(b) = {}
    <3>1. self # x86 /\ self # x86h
      BY <1>7 DEF x86, x86h
    <3>. QED BY <1>1, <1>5, <2>1, <2>2, <3>1
  <2>6. l = a \o b
    BY <1>6, <1>7
  <2>. HIDE DEF a, b
  <2>7. /\ IsInjective(l) /\ l[1] = self /\ ToSet(l) = ToSet(a) \cup ToSet(b)
        /\ \A t \in ToSet(a), u \in ToSet(b) : Before(l, t, u)
    <3>1. a \in Seq(Targets) /\ b \in Seq(Targets)
      BY <2>1, <2>2
    <3>2. /\ IsInjective(a) /\ IsInjective(b) /\ ToSet(a) \cap ToSet(b) = {} => IsInjective(a \o b)
          /\ ToSet(a \o b) = ToSet(a) \cup ToSet(b)
          /\ \A t \in ToSet(a), u \in ToSet(b) : Before(a \o b, t, u)
          /\ a # <<>> => (a \o b)[1] = a[1]
      BY <3>1, ListConcat
    <3>. QED BY <2>1, <2>2, <2>4, <2>5, <2>6, <3>2
  <2>. HIDE DEF emulated
  <2>8. self \in ToSet(l)
    BY <2>1, <2>7
  <2>. QED BY <1>7, <2>1, <2>3, <2>7, <2>8 DEF l, emulated
<1>8. CASE self[1] = "x86_64"
  <2> DEFINE a == one \o sh
  <2>0. self = x86 /\ self # x86h
    BY <1>1, <1>8 DEF x86, x86h
  <2>1. a \in Seq(Targets) /\ ToSet(a) = {self} \cup ToSet(sh) /\ IsInjective(a) /\ a[1] = self
    <3>1. ToSet(one) \cap ToSet(sh) = {}
      BY <2>0, <1>3, <1>5
    <3>. QED BY <1>3, <1>5, <3>1, ListConcat
  <2>2. ToSet(sh) = emulated
    BY <1>2, <1>5, <1>8 DEF x86h
  <2>3. a # <<>>
    BY <2>1, NoTarget
  <2>4. ToSet(a) \cap ToSet(uni) = {}
    BY <1>1, <1>4, <1>5, <2>1
  <2>5. l = a \o uni
    BY <1>6, <1>8
  <2>. HIDE DEF a
  <2>6. IsInjective(l) /\ l[1] = self /\ ToSet(l) = ToSet(a) \cup ToSet(uni)
    BY <1>4, <2>1, <2>3, <2>4, <2>5, ListConcat
  <2>7. self \in ToSet(l)
    BY <2>1, <2>6
  <2>. HIDE DEF emulated
  <2>. QED BY <1>4, <1>8, <2>1, <2>2, <2>6, <2>7 DEF l, emulated
<1>9. CASE self[1] = "x86_64h"
  <2> DEFINE a == <<self, x86>>
  <2>0. self # x86
    BY <1>1, <1>9 DEF x86
  <2>1. a \in Seq(Targets) /\ ToSet(a) = {self, x86} /\ IsInjective(a) /\ a[1] = self
    BY <1>1, <2>0, TwoTargets
  <2>2. emulated = {}
    BY <1>2, <1>9
  <2>3. a # <<>>
    BY <2>1, NoTarget
  <2>4. ToSet(a) \cap ToSet(uni) = {}
    BY <1>1, <1>4, <2>1
  <2>5. l = a \o uni
    BY <1>6, <1>9
  <2>. HIDE DEF a
  <2>6. IsInjective(l) /\ l[1] = self /\ ToSet(l) = ToSet(a) \cup ToSet(uni)
    BY <1>4, <2>1, <2>3, <2>4, <2>5, ListConcat
  <2>7. self \in ToSet(l)
    BY <2>1, <2>6
  <2>. HIDE DEF emulated
  <2>. QED BY <1>4, <1>9, <2>1, <2>2, <2>6, <2>7 DEF l, emulated, x86
<1>10. CASE self[1] = "arm64e"
  <2>1. l = one /\ emulated = {}
    BY <1>2, <1>6, <1>10
  <2>. QED BY <1>3, <1>10, <2>1 DEF l
<1>. QED BY <1>1, <1>7, <1>8, <1>9, <1>10

(* WindowsTargets: the targets of each machine the kernel has said yes to, after those
   of the host; none twice but for i686, for which x86 may be asked. *)
LEMMA WindowsRight ==
  ASSUME NEW self \in Systems.windows, NEW yes \in SUBSET Questions(self)
  PROVE  LET l == WindowsTargets(self, yes)
             more == (UNION {TripleArchs(m) : m \in yes}) \X WindowsAbis
         IN  /\ l[1] = self
             /\ \A t \in ToSet(l) : t \in {self[1]} \X WindowsAbis \/ t \in more
             /\ more \subseteq ToSet(l) /\ {self[1]} \X OwnAbis(self) \subseteq ToSet(l)
             /\ self[1] # "i686" => /\ IsInjective(l) /\ \A t \in more : t[1] # self[1]
                                 /\ \A t \in ToSet(l), u \in more : t[1] = self[1] => Before(l, t, u)
<1> DEFINE l == WindowsTargets(self, yes)
           F(m) == ThenSome(m \in yes, Fallbacks(m))
           G(m) == IF m \in yes THEN TripleArchs(m) \X WindowsAbis ELSE {}
           p == F("x86_64")
           q == F("x86")
           r == F("thumbv7a")
           s == F("aarch64")
           abis == IF self[2] = "msvc" THEN <<<<self[1], "gnu">>, <<self[1], "gnullvm">>>> ELSE <<<<self[1], "msvc">>>>
           one == <<self>>
           own == one \o abis
           back == (p \o q) \o (r \o s)
           more == (UNION {TripleArchs(m) : m \in yes}) \X WindowsAbis
<1>1. /\ self[1] \in {"i686", "aarch64"} /\ self[2] \in {"msvc", "gnu"} /\ self = <<self[1], self[2]>>
      /\ \A abi \in WindowsAbis : <<self[1], abi>> \in Targets
  BY DEF Systems, Targets, Arch, Abi, WindowsAbis
<1>2. yes \subseteq Machines \ {self[1]}
  <2>1. "windows" \in DOMAIN Systems /\ self \in Systems["windows"]
    BY DEF Systems
  <2>2. System(self) = "windows"
    BY <2>1, SystemOf
  <2>. QED BY <2>2 DEF Questions
<1>3. l = own \o back
  BY DEF WindowsTargets
<1>4. ASSUME NEW m \in Machines
      PROVE  F(m) \in Seq(Targets) /\ IsInjective(F(m)) /\ ToSet(F(m)) = G(m)
  <2>1. (m \in yes) \in BOOLEAN
    OBVIOUS
  <2>. QED BY <2>1, FallbacksTargets, SomeTargets
<1>5. \A m, n \in Machines : m # n => G(m) \cap G(n) = {}
  BY DEF TripleArchs, Machines
<1>6. /\ "x86_64" \in Machines /\ "x86" \in Machines /\ "thumbv7a" \in Machines /\ "aarch64" \in Machines
      /\ \A m \in Machines : m \in {"x86_64", "x86", "thumbv7a", "aarch64"}
  BY DEF Machines
<1>7. more = (G("x86_64") \cup G("x86")) \cup (G("thumbv7a") \cup G("aarch64"))
  BY <1>2, <1>6
<1>8. /\ p \in Seq(Targets) /\ IsInjective(p) /\ ToSet(p) = G("x86_64")
      /\ q \in Seq(Targets) /\ IsInjective(q) /\ ToSet(q) = G("x86")
      /\ r \in Seq(Targets) /\ IsInjective(r) /\ ToSet(r) = G("thumbv7a")
      /\ s \in Seq(Targets) /\ IsInjective(s) /\ ToSet(s) = G("aarch64")
  BY <1>4, <1>6
<1>9. /\ own \in Seq(Targets) /\ IsInjective(own) /\ own # <<>> /\ own[1] = self
      /\ ToSet(own) \subseteq {self[1]} \X WindowsAbis /\ {self[1]} \X OwnAbis(self) \subseteq ToSet(own)
  <2>1. /\ one \in Seq(Targets) /\ ToSet(one) = {self} /\ IsInjective(one) /\ one # <<>> /\ one[1] = self
        /\ self \in {self[1]} \X WindowsAbis
    <3>1. self[2] \in WindowsAbis /\ self \in Targets
      BY <1>1 DEF WindowsAbis
    <3>. QED BY <1>1, <3>1, OneTarget
  <2>2. /\ abis \in Seq(Targets) /\ IsInjective(abis) /\ ToSet(abis) \subseteq {self[1]} \X WindowsAbis
        /\ self \notin ToSet(abis) /\ {self[1]} \X OwnAbis(self) \subseteq {self} \cup ToSet(abis)
    <3>1. CASE self[2] = "msvc"
      <4>1. <<self[1], "gnu">> \in Targets /\ <<self[1], "gnullvm">> \in Targets /\ <<self[1], "gnu">> # <<self[1], "gnullvm">>
        BY <1>1 DEF WindowsAbis
      <4>2. /\ abis \in Seq(Targets) /\ IsInjective(abis)
            /\ ToSet(abis) = {<<self[1], "gnu">>, <<self[1], "gnullvm">>}
        BY <3>1, <4>1, TwoTargets
      <4>. HIDE DEF abis
      <4>. QED BY <1>1, <3>1, <4>2 DEF WindowsAbis, OwnAbis
    <3>2. CASE self[2] = "gnu"
      <4>1. <<self[1], "msvc">> \in Targets
        BY <1>1 DEF WindowsAbis
      <4>2. abis \in Seq(Targets) /\ IsInjective(abis) /\ ToSet(abis) = {<<self[1], "msvc">>}
        BY <3>2, <4>1, OneTarget
      <4>. HIDE DEF abis
      <4>. QED BY <1>1, <3>2, <4>2 DEF WindowsAbis, OwnAbis
    <3>. QED BY <1>1, <3>1, <3>2
  <2>. HIDE DEF one, abis
  <2>3. ToSet(one) \cap ToSet(abis) = {}
    BY <2>1, <2>2
  <2>4. /\ own \in Seq(Targets) /\ IsInjective(own) /\ own[1] = self /\ ToSet(own) = {self} \cup ToSet(abis)
    BY <2>1, <2>2, <2>3, ListConcat
  <2>. HIDE DEF own
  <2>5. own # <<>>
    BY <2>4, NoTarget
  <2>. QED BY <2>1, <2>2, <2>4, <2>5
<1>. HIDE DEF F, G, p, q, r, s, one, abis, own, l, more
<1>10. back \in Seq(Targets) /\ IsInjective(back) /\ ToSet(back) = more
  <2> DEFINE pq == p \o q
             rs == r \o s
  <2>1. pq \in Seq(Targets) /\ IsInjective(pq) /\ ToSet(pq) = G("x86_64") \cup G("x86")
    <3>1. ToSet(p) \cap ToSet(q) = {}
      BY <1>5, <1>6, <1>8
    <3>. QED BY <1>8, <3>1, ListConcat
  <2>2. rs \in Seq(Targets) /\ IsInjective(rs) /\ ToSet(rs) = G("thumbv7a") \cup G("aarch64")
    <3>1. ToSet(r) \cap ToSet(s) = {}
      BY <1>5, <1>6, <1>8
    <3>. QED BY <1>8, <3>1, ListConcat
  <2>3. ToSet(pq) \cap ToSet(rs) = {}
    <3>1. /\ G("x86_64") \cap G("thumbv7a") = {} /\ G("x86_64") \cap G("aarch64") = {}
          /\ G("x86") \cap G("thumbv7a") = {} /\ G("x86") \cap G("aarch64") = {}
      BY <1>5, <1>6
    <3>. QED BY <2>1, <2>2, <3>1
  <2>. HIDE DEF pq, rs
  <2>4. back = pq \o rs
    BY DEF pq, rs
  <2>. HIDE DEF back
  <2>5. pq \o rs \in Seq(Targets) /\ IsInjective(pq \o rs) /\ ToSet(pq \o rs) = ToSet(pq) \cup ToSet(rs)
    BY <2>1, <2>2, <2>3, ListConcat
  <2>. QED BY <1>7, <2>1, <2>2, <2>4, <2>5
<1>. HIDE DEF back
<1>11. /\ l[1] = self /\ ToSet(l) = ToSet(own) \cup more
       /\ \A t \in ToSet(own), u \in more : Before(l, t, u)
       /\ ToSet(own) \cap more = {} => IsInjective(l)
  <2>1. /\ (own \o back)[1] = own[1] /\ ToSet(own \o back) = ToSet(own) \cup ToSet(back)
        /\ \A t \in ToSet(own), u \in ToSet(back) : Before(own \o back, t, u)
        /\ ToSet(own) \cap ToSet(back) = {} => IsInjective(own \o back)
    BY <1>9, <1>10, ListConcat
  <2>. QED BY <1>3, <1>9, <1>10, <2>1
<1>12. self[1] # "i686" => \A t \in more : t[1] # self[1]
  <2> SUFFICES ASSUME self[1] = "aarch64", NEW t \in more PROVE t[1] # "aarch64"
    BY <1>1
  <2>1. PICK m \in yes : t[1] \in TripleArchs(m)
    BY DEF more
  <2>. QED BY <1>2, <2>1 DEF TripleArchs, Machines
<1>13. self[1] # "i686" => ToSet(own) \cap more = {}
  BY <1>9, <1>12
<1>14. \A t \in ToSet(l) : t[1] = self[1] /\ self[1] # "i686" => t \in ToSet(own)
  BY <1>11, <1>12
<1>15. \A t \in ToSet(l) : t \in {self[1]} \X WindowsAbis \/ t \in more
  BY <1>9, <1>11
<1>16. {self[1]} \X OwnAbis(self) \subseteq ToSet(l)
  BY <1>9, <1>11
<1>. QED BY <1>11, <1>12, <1>13, <1>14, <1>15, <1>16 DEF l, more

-----------------------------------------------------------------------------
(* A probe that is aborted is one of a loader, after another has said yes. *)
Hosts == UNION {Systems[s] : s \in DOMAIN Systems}

DetectInv ==
  /\ detecting = "asking" => host \in Hosts /\ probe \in [Questions(host) -> {"asked", "yes", "no"}]
  /\ detecting = "set" =>
       /\ host \in Hosts /\ DOMAIN probe = Questions(host)
       /\ targets = ListOf(host, Yes)
       /\ (\E q \in DOMAIN probe : probe[q] = "aborted") => System(host) = "linux" /\ Yes # {}

LEMMA DetectSteps == ASSUME DetectInv, [PrepNext]_prepVars PROVE DetectInv'
<1>1. CASE DetectStep
  <2>1. CASE HostFound
    <3>0. PICK s \in DOMAIN Systems : \E self \in Systems[s] :
            host' = self /\ probe' \in [Questions(self) -> IF s = "windows" THEN {"yes", "no"} ELSE {"asked"}]
      BY <2>1 DEF HostFound
    <3>1. PICK self \in Systems[s] :
            host' = self /\ probe' \in [Questions(self) -> IF s = "windows" THEN {"yes", "no"} ELSE {"asked"}]
      BY <3>0
    <3>2. host' \in Hosts /\ probe' \in [Questions(host') -> {"asked", "yes", "no"}] /\ detecting' = "asking"
      BY <2>1, <3>1 DEF Hosts, HostFound
    <3>3. Questions(host)' = Questions(host')
      BY DEF Questions, System, AsksLibc
    <3>. QED BY <3>2, <3>3 DEF DetectInv
  <2>2. ASSUME NEW q \in DOMAIN probe, ProbeEnds(q) PROVE DetectInv'
    <3>1. /\ detecting = "asking" /\ detecting' = "asking" /\ host' = host
          /\ \E answer \in {"yes", "no"} : probe' = [probe EXCEPT ![q] = answer]
      BY <2>2 DEF ProbeEnds
    <3>2. host \in Hosts /\ probe' \in [Questions(host) -> {"asked", "yes", "no"}]
      BY <3>1 DEF DetectInv
    <3>. QED BY <3>1, <3>2 DEF DetectInv, Questions, System, AsksLibc
  <2>3. CASE Conclude
    <3>1. /\ detecting = "asking" /\ Settled /\ detecting' = "set" /\ targets' = ListOf(host, Yes) /\ host' = host
          /\ probe' = [q \in DOMAIN probe |-> IF probe[q] = "asked" THEN "aborted" ELSE probe[q]]
          /\ host \in Hosts /\ probe \in [Questions(host) -> {"asked", "yes", "no"}]
      BY <2>3 DEF Conclude, DetectInv
    <3>2. DOMAIN probe' = Questions(host) /\ Yes' = Yes
      BY <3>1 DEF Yes
    <3>3. (\E q \in DOMAIN probe' : probe'[q] = "aborted") => System(host) = "linux" /\ Yes # {}
      <4>1. (\E q \in DOMAIN probe' : probe'[q] = "aborted") => \E q \in DOMAIN probe : probe[q] = "asked"
        BY <3>1
      <4>. QED BY <3>1, <4>1 DEF Settled
    <3>4. Questions(host)' = Questions(host) /\ ListOf(host, Yes)' = ListOf(host, Yes) /\ System(host)' = System(host)
      BY <3>1, <3>2 DEF Questions, System, AsksLibc, ListOf, LinuxTargets, MacTargets, WindowsTargets
    <3>. QED BY <3>1, <3>2, <3>3, <3>4 DEF DetectInv
  <2>. QED BY <1>1, <2>1, <2>2, <2>3 DEF DetectStep
<1>2. CASE UNCHANGED <<detecting, host, probe, targets>>
  <2>1. Yes' = Yes
    BY <1>2 DEF Yes
  <2>. QED BY <1>2, <2>1 DEF DetectInv, Questions, System, AsksLibc, ListOf, LinuxTargets, MacTargets, WindowsTargets
<1>3. CASE Hang
  BY <1>2, <1>3 DEF Hang, ProbeHangs
<1>4. CASE UNCHANGED detection
  BY <1>2, <1>4 DEF detection
<1>. QED BY <1>1, <1>3, <1>4
  DEF PrepNext, Detect, SearchStep, SessionEnding, Prepared, Resolution, PackageResolved, TargetsKnown,
      GetClient, Drop, prepVars

LEMMA DetectInvPreferred == DetectInv => PreferredTargets
<1> SUFFICES ASSUME DetectInv, detecting = "set"
             PROVE  LET all == ToSet(targets)
                        native == {t \in all : t[1] \in {host[1], "universal", "universal2"}}
                    IN  /\ targets # <<>>
                        /\ \A t \in all : IsTriple(t) => Runs(t)
                        /\ host[2] # "ohos" => \A t \in all : IsTriple(t)
                        /\ System(host) # "linux" => targets[1] = host
                        /\ System(host) = "linux" /\ Yes # {} =>
                             Before(targets, <<host[1], "gnu">>, <<host[1], "musl">>)
                        /\ host = <<"aarch64", "darwin">> \/ (System(host) = "windows" /\ host[1] # "i686") =>
                             \A t \in native, u \in all \ native : Before(targets, t, u)
                        /\ System(host) = "windows" =>
                             {host[1]} \X OwnAbis(host) \cup Emulable(Yes) \subseteq all
                        /\ System(host) = "macos" => Yes \subseteq {t[1] : t \in all}
                        /\ (\E q \in DOMAIN probe : probe[q] = "aborted") => <<host[1], "gnu">> \in all
                        /\ host[1] # "i686" => IsInjective(targets)
  BY DEF PreferredTargets
<1> DEFINE all == ToSet(targets)
           native == {t \in all : t[1] \in {host[1], "universal", "universal2"}}
<1>1. /\ DOMAIN probe = Questions(host) /\ targets = ListOf(host, Yes) /\ Yes \in SUBSET Questions(host)
      /\ (\E q \in DOMAIN probe : probe[q] = "aborted") => System(host) = "linux" /\ Yes # {}
  BY DEF DetectInv, Yes
<1>2. DOMAIN Systems = {"linux", "macos", "windows"}
  BY DEF Systems
<1>3. PICK s \in DOMAIN Systems : host \in Systems[s] /\ System(host) = s
  BY SystemOf DEF DetectInv, Hosts
<1>4. CASE s = "linux"
  <2>1. /\ targets = LinuxTargets(host, Yes) /\ System(host) = "linux" /\ host \in Systems.linux
        /\ Yes # {} => AsksLibc(host)
    BY <1>1, <1>3, <1>4 DEF ListOf, Questions
  <2> DEFINE gnu == <<host[1], "gnu">>
             musl == <<host[1], "musl">>
  <2>2. /\ IsInjective(targets)
        /\ AsksLibc(host) => all = {t \in {gnu, musl} : t = musl \/ Yes # {}}
        /\ AsksLibc(host) /\ Yes # {} => Before(targets, gnu, musl)
        /\ ~AsksLibc(host) => all = {host, <<host[1], Musl(host[2])>>}
    BY <2>1, LinuxRight
  <2>3. host[1] = "x86_64" /\ host[2] \in {"gnu", "musl", "android", "ohos"}
    BY <2>1 DEF Systems
  <2>4. /\ \A t \in all : IsTriple(t) => Runs(t)
        /\ host[2] # "ohos" => \A t \in all : IsTriple(t)
    BY <2>1, <2>2, <2>3 DEF IsTriple, Runs, Musl, AsksLibc
  <2>5. (\E q \in DOMAIN probe : probe[q] = "aborted") => gnu \in all
    BY <1>1, <2>1, <2>2
  <2>6. host # <<"aarch64", "darwin">>
    BY <2>3
  <2>7. targets # <<>>
    <3>1. musl \in all \/ host \in all
      BY <2>2
    <3>. QED BY <3>1 DEF ToSet
  <2>. QED BY <2>1, <2>2, <2>4, <2>5, <2>6, <2>7
<1>5. CASE s = "macos"
  <2>1. targets = MacTargets(host, Yes) /\ System(host) = "macos" /\ host \in Systems.macos
    BY <1>1, <1>3, <1>5 DEF ListOf
  <2> DEFINE emulated == Yes \X {"darwin"}
  <2>2. /\ IsInjective(targets) /\ targets[1] = host /\ host \in all
        /\ all \subseteq {host} \cup Universals \cup emulated
                           \cup (IF host[1] = "x86_64h" THEN {<<"x86_64", "darwin">>} ELSE {})
        /\ emulated \subseteq all
        /\ host[1] = "aarch64" => \A t \in {host} \cup Universals, u \in emulated : Before(targets, t, u)
    BY <1>1, <2>1, MacRight
  <2>3. host[2] = "darwin" /\ Universals = ToSet(Universal)
    <3>1. Universals = {Universal[1], Universal[2]} /\ DOMAIN Universal = 1..2 /\ 1..2 = {1, 2}
      BY DEF Universals, Universal
    <3>. QED BY <2>1, <3>1 DEF Systems, ToSet
  <2>4. /\ \A t \in all : Runs(t)
        /\ \A t \in all : IsTriple(t)
    BY <2>1, <2>2, <2>3 DEF IsTriple, Runs, Universals
  <2>5. Yes \subseteq {t[1] : t \in all}
    <3>1. \A q \in Yes : <<q, "darwin">> \in all /\ <<q, "darwin">>[1] = q
      BY <2>2
    <3>. QED BY <3>1
  <2>6. host = <<"aarch64", "darwin">> => \A t \in native, u \in all \ native : Before(targets, t, u)
    <3> SUFFICES ASSUME host = <<"aarch64", "darwin">>, NEW t \in native, NEW u \in all \ native
                 PROVE  Before(targets, t, u)
      OBVIOUS
    <3>1. Yes \subseteq {"x86_64h", "x86_64"}
      BY <1>1, <2>1 DEF Questions, Emulated
    <3>2. t \in {host} \cup Universals
      BY <2>2, <3>1
    <3>3. u \in emulated
      BY <2>2 DEF Universals
    <3>. QED BY <2>2, <3>2, <3>3
  <2>7. ~(\E q \in DOMAIN probe : probe[q] = "aborted")
    BY <1>1, <2>1
  <2>8. targets # <<>>
    <3>1. host \in all
      BY <2>2
    <3>. QED BY <3>1 DEF ToSet
  <2>. QED BY <2>1, <2>2, <2>4, <2>5, <2>6, <2>7, <2>8
<1>6. CASE s = "windows"
  <2>1. targets = WindowsTargets(host, Yes) /\ System(host) = "windows" /\ host \in Systems.windows
    BY <1>1, <1>3, <1>6 DEF ListOf
  <2> DEFINE more == (UNION {TripleArchs(m) : m \in Yes}) \X WindowsAbis
  <2>2. /\ targets[1] = host
        /\ \A t \in all : t \in {host[1]} \X WindowsAbis \/ t \in more
        /\ more \subseteq all /\ {host[1]} \X OwnAbis(host) \subseteq all
        /\ host[1] # "i686" => /\ IsInjective(targets) /\ \A t \in more : t[1] # host[1]
                               /\ \A t \in all, u \in more : t[1] = host[1] => Before(targets, t, u)
    BY <1>1, <2>1, WindowsRight
  <2>3. /\ \A t \in all : Runs(t)
        /\ \A t \in all : IsTriple(t)
    <3> SUFFICES ASSUME NEW t \in all PROVE Runs(t) /\ IsTriple(t)
      OBVIOUS
    <3>1. CASE t \in {host[1]} \X WindowsAbis
      BY <2>1, <3>1 DEF Runs, IsTriple, WindowsAbis
    <3>2. CASE t \in more
      <4>1. t[2] \in WindowsAbis /\ \E m \in Yes : t[1] \in TripleArchs(m)
        BY <3>2
      <4>. QED BY <2>1, <4>1 DEF Runs, IsTriple, WindowsAbis
    <3>. QED BY <2>2, <3>1, <3>2
  <2>4. {host[1]} \X OwnAbis(host) \cup Emulable(Yes) \subseteq all
    BY <2>2 DEF Emulable
  <2>5. host[1] # "i686" => \A t \in native, u \in all \ native : Before(targets, t, u)
    <3> SUFFICES ASSUME host[1] # "i686", NEW t \in native, NEW u \in all \ native
                 PROVE  Before(targets, t, u)
      OBVIOUS
    <3>1. u \in more
      BY <2>2
    <3>2. t[1] = host[1]
      <4>1. t \in {host[1]} \X WindowsAbis \/ t \in more
        BY <2>2
      <4>2. t \in more => t[1] \notin {"universal", "universal2"}
        <5>1. t \in more => \E m \in Yes : t[1] \in TripleArchs(m)
          OBVIOUS
        <5>2. Yes \subseteq Machines
          BY <1>1, <2>1 DEF Questions
        <5>. QED BY <5>1, <5>2 DEF TripleArchs, Machines
      <4>. QED BY <4>1, <4>2
    <3>. QED BY <2>2, <3>1, <3>2
  <2>6. host # <<"aarch64", "darwin">>
    BY <2>1 DEF Systems
  <2>7. ~(\E q \in DOMAIN probe : probe[q] = "aborted")
    BY <1>1, <2>1
  <2>8. targets # <<>>
    <3>1. <<host[1], "msvc">> \in {host[1]} \X OwnAbis(host)
      BY DEF OwnAbis, WindowsAbis
    <3>2. <<host[1], "msvc">> \in all
      BY <2>2, <3>1
    <3>. QED BY <3>2 DEF ToSet
  <2>. QED BY <2>1, <2>2, <2>3, <2>4, <2>5, <2>6, <2>7, <2>8
<1>. QED BY <1>2, <1>4, <1>5, <1>6

(* Whatever loaders are tried and in whatever order commands end, the list of targets
   holds what the machine can run, in the documented order of preference. *)
THEOREM TargetsPreferred == PrepSpec => []PreferredTargets
<1>1. PrepInit => DetectInv
  BY DEF PrepInit, DetectInit, DetectInv
<1>2. DetectInv /\ [PrepNext]_prepVars => DetectInv'
  BY DetectSteps
<1>. QED BY <1>1, <1>2, DetectInvPreferred, PTL DEF PrepSpec
=============================================================================
