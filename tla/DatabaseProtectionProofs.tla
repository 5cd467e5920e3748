---------------------- MODULE DatabaseProtectionProofs ----------------------
(***************************************************************************)
(* Proofs about DatabaseProtection, alone and under the HotReloader, for   *)
(* every number of backups, every limit and every number of faults: the    *)
(* bot starts on databases that are not corrupt, wherever an earlier       *)
(* repair was cut off, repairs only what is backed up, and keeps whole the *)
(* backups begun last.                                                     *)
(***************************************************************************)
EXTENDS HotReloader, FiniteSetTheorems, SequenceTheorems, TLAPS

(* The part of the type invariant that validation and repair depend on.    *)
FilesOK ==
    /\ phase \in {"down"} \cup Unprotected \cup Protected
    /\ sqlite \in {"none", "fresh", "sound", "damaged"}
    /\ chroma \in {"none", "thin", "sound", "bad"}

(* Until it is over, a repair is one of a single database, and the other   *)
(* one has passed validation.                                              *)
OneToRepair ==
    /\ phase \in {"recovering", "repairing"} =>
          \/ sqlite = "damaged" /\ chroma = "sound"
          \/ sqlite \in {"fresh", "sound"} /\ chroma \in {"thin", "bad"}
    /\ phase = "rewriting" => sqlite \in {"none", "fresh"} /\ chroma = "sound"

RepairInv == FilesOK /\ OneToRepair

-----------------------------------------------------------------------------
(* validate_all_databases lets a corrupt database pass in no case, and     *)
(* calls for a repair only when exactly one of the two is corrupt and the  *)
(* other one is there.                                                     *)
LEMMA StatusIsRight ==
    ASSUME FilesOK
    PROVE  /\ OverallStatus = "valid" => sqlite # "damaged" /\ chroma # "bad"
           /\ OverallStatus = "recoverable" =>
                \/ sqlite = "damaged" /\ chroma = "sound"
                \/ sqlite \in {"fresh", "sound"} /\ chroma = "bad"
  <1>. DEFINE errors == SqliteErrors \cup ChromaErrors
  <1>1. sqlite = "damaged" => "sqlite is corrupt" \in errors
    BY DEF SqliteErrors
  <1>2. chroma = "bad" => "chroma is corrupt" \in errors
    BY DEF ChromaErrors
  <1>3. errors \subseteq Missing => sqlite # "damaged" /\ chroma # "bad"
    BY <1>1, <1>2 DEF Missing
  <1>4. ASSUME NEW a, NEW b, a # b, errors = {a, b}
        PROVE  Cardinality(errors) # 1
    <2>1. Cardinality({a, b}) = 2
      <3>1. IsFiniteSet({a}) /\ Cardinality({a}) = 1
        BY FS_Singleton
      <3>2. {a, b} = {a} \cup {b} /\ b \notin {a}
        BY <1>4
      <3>. QED BY <3>1, <3>2, FS_AddElement
    <2>. QED BY <2>1, <1>4
  <1>5. sqlite \in {"none", "damaged"} /\ chroma # "sound" => Cardinality(errors) # 1
    <2>1. CASE sqlite = "none" /\ chroma # "sound"
      <3>1. SqliteErrors = {"sqlite is missing"}
        BY <2>1 DEF SqliteErrors
      <3>2. ChromaErrors = {"chroma is missing"} \/ ChromaErrors = {"chroma is corrupt"}
        BY <2>1, FilesOK DEF ChromaErrors, FilesOK
      <3>3. \/ errors = {"sqlite is missing", "chroma is missing"}
            \/ errors = {"sqlite is missing", "chroma is corrupt"}
        BY <3>1, <3>2
      <3>. QED BY <3>3, <1>4
    <2>2. CASE sqlite = "damaged" /\ chroma # "sound"
      <3>1. SqliteErrors = {"sqlite is corrupt"}
        BY <2>2 DEF SqliteErrors
      <3>2. ChromaErrors = {"chroma is missing"} \/ ChromaErrors = {"chroma is corrupt"}
        BY <2>2, FilesOK DEF ChromaErrors, FilesOK
      <3>3. \/ errors = {"sqlite is corrupt", "chroma is missing"}
            \/ errors = {"sqlite is corrupt", "chroma is corrupt"}
        BY <3>1, <3>2
      <3>. QED BY <3>3, <1>4
    <2>. QED BY <2>1, <2>2
  <1>6. sqlite \in {"fresh", "sound"} => SqliteErrors = {}
    BY DEF SqliteErrors
  <1>7. chroma \in {"none", "thin", "sound"} => ChromaErrors \subseteq Missing
    BY DEF ChromaErrors, Missing
  <1>8. sqlite \in {"none", "fresh", "sound"} => SqliteErrors \subseteq Missing
    BY DEF SqliteErrors, Missing
  <1>9. ~(errors \subseteq Missing) /\ Cardinality(errors) = 1 =>
            \/ sqlite = "damaged" /\ chroma = "sound"
            \/ sqlite \in {"fresh", "sound"} /\ chroma = "bad"
    BY <1>5, <1>7, <1>8, FilesOK DEF FilesOK
  <1>10. OverallStatus = "valid" => errors \subseteq Missing
    BY DEF OverallStatus
  <1>11. OverallStatus = "recoverable" =>
            ~(errors \subseteq Missing) /\ Cardinality(errors) = 1
    BY DEF OverallStatus
  <1>. QED BY <1>3, <1>9, <1>10, <1>11

(* A step of a backup leaves the databases alone; it can end the process,  *)
(* or the backup before a repair.                                          *)
LEMMA BackupKeepsFiles ==
    ASSUME NEW j \in Job, BackupStep(j)
    PROVE  /\ sqlite' = sqlite /\ chroma' = chroma
           /\ \/ phase' \in {phase, "down"}
              \/ phase = "recovering" /\ phase' \in {"repairing", "refused"}
  <1>1. sqlite' = sqlite /\ chroma' = chroma
    BY DEF BackupStep
  <1>2. \A path \in BOOLEAN : Returns(j, path) =>
            \/ phase' \in {phase, "down"}
            \/ phase = "recovering" /\ phase' \in {"repairing", "refused"}
    BY DEF Returns
  <1>. QED
    BY <1>1, <1>2 DEF BackupStep, BeginPiece, EndPiece, SkipPiece, FailPiece,
       BeginArchive, EndArchive, FailCompression, RemoveDir, RemovedDir, Prune,
       EndBackup

(* One step preserves the invariant and comes to "ready" only with sound   *)
(* databases.                                                              *)
LEMMA RepairStep ==
    ASSUME RepairInv, [ProtectionNext]_vars
    PROVE  /\ RepairInv'
           /\ phase # "ready" /\ phase' = "ready" =>
                 sqlite' # "damaged" /\ chroma' # "bad"
  <1>. USE DEF RepairInv, FilesOK, OneToRepair, Unprotected, Protected
  <1>1. CASE \E j \in Job : BackupStep(j)
    BY <1>1, BackupKeepsFiles
  <1>2. CASE Validate
    <2>1. /\ sqlite' = sqlite /\ chroma' = chroma
          /\ \/ OverallStatus = "valid" /\ phase' = "ready"
             \/ phase' = "refused"
             \/ OverallStatus = "recoverable" /\ phase' = "recovering"
      BY <1>2 DEF Validate
    <2>. QED BY <2>1, StatusIsRight
  <1>3. CASE UnlinkSqlite
    BY <1>3 DEF UnlinkSqlite
  <1>4. CASE RewriteSqlite
    BY <1>4 DEF RewriteSqlite
  <1>5. CASE RepairChroma
    BY <1>5 DEF RepairChroma
  <1>6. CASE FailRepair
    BY <1>6 DEF FailRepair
  <1>7. CASE OpenDatabase \/ StartupBackup \/ ScheduledBackup \/ EndMain
    BY <1>7 DEF OpenDatabase, StartupBackup, ScheduledBackup, EndMain
  <1>8. CASE Launch \/ Terminate \/ Die \/ Damage
    BY <1>8 DEF Launch, Terminate, Die, Damage
  <1>9. CASE UNCHANGED vars
    BY <1>9 DEF vars
  <1>. QED
    BY <1>1, <1>2, <1>3, <1>4, <1>5, <1>6, <1>7, <1>8, <1>9
    DEF ProtectionNext, BotStep

(* on_ready installs the signal handlers, and goes on to open the          *)
(* database, only when neither database is corrupt.                        *)
THEOREM OnlySoundDatabases == ProtectionSpec => StartsSound
  <1>1. Init => RepairInv
    BY DEF Init, InitDisk, RepairInv, FilesOK, OneToRepair
  <1>2. RepairInv /\ [ProtectionNext]_vars => RepairInv'
    BY RepairStep
  <1>3. RepairInv /\ [ProtectionNext]_vars =>
            [phase # "ready" /\ phase' = "ready" =>
                sqlite' # "damaged" /\ chroma' # "bad"]_vars
    BY RepairStep
  <1>. QED BY <1>1, <1>2, <1>3, PTL DEF ProtectionSpec, StartsSound

-----------------------------------------------------------------------------
(* The order of the paths *)

LEMMA RemoveAtIs ==
    ASSUME NEW S, NEW s \in Seq(S), NEW k \in 1..Len(s)
    PROVE  /\ RemoveAt(s, k) \in Seq(S)
           /\ Len(RemoveAt(s, k)) = Len(s) - 1
           /\ \A i \in 1..(Len(s) - 1) : RemoveAt(s, k)[i] = IF i < k THEN s[i] ELSE s[i + 1]
  <1>. DEFINE front == SubSeq(s, 1, k - 1)
              back == SubSeq(s, k + 1, Len(s))
  <1>1. /\ front \in Seq(S) /\ Len(front) = k - 1
        /\ \A i \in 1..(k - 1) : front[i] = s[i]
    BY SubSeqProperties
  <1>2. /\ back \in Seq(S) /\ Len(back) = Len(s) - k
        /\ \A i \in 1..(Len(s) - k) : back[i] = s[k + i]
    BY SubSeqProperties
  <1>. HIDE DEF front, back
  <1>3. /\ front \o back \in Seq(S) /\ Len(front \o back) = Len(front) + Len(back)
        /\ \A i \in 1..(Len(front) + Len(back)) : (front \o back)[i] =
              IF i <= Len(front) THEN front[i] ELSE back[i - Len(front)]
    BY <1>1, <1>2, ConcatProperties
  <1>4. RemoveAt(s, k) = front \o back
    BY DEF RemoveAt, front, back
  <1>5. ASSUME NEW i \in 1..(Len(s) - 1)
        PROVE  (front \o back)[i] = IF i < k THEN s[i] ELSE s[i + 1]
    <2>1. Len(s) \in Nat /\ i <= Len(front) + Len(back)
      BY <1>1, <1>2
    <2>2. (front \o back)[i] = IF i <= Len(front) THEN front[i] ELSE back[i - Len(front)]
      BY <1>3, <2>1
    <2>3. CASE i < k
      BY <1>1, <2>2, <2>3
    <2>4. CASE i >= k
      <3>1. /\ i - Len(front) \in 1..(Len(s) - k) /\ k + (i - Len(front)) = i + 1
            /\ ~(i <= Len(front))
        BY <1>1, <2>1, <2>4
      <3>2. (front \o back)[i] = back[i - Len(front)]
        BY <2>2, <3>1
      <3>3. back[i - Len(front)] = s[i + 1]
        BY <1>2, <3>1
      <3>. QED
        BY <2>4, <3>2, <3>3
    <2>. QED
      BY <2>1, <2>3, <2>4
  <1>6. Len(front \o back) = Len(s) - 1
    BY <1>1, <1>2, <1>3
  <1>. QED
    BY <1>3, <1>4, <1>5, <1>6

(* Where the others are when a path is removed.                            *)
LEMMA WithoutAt ==
    ASSUME paths \in Seq(Path), NEW p, OnDisk(p)
    PROVE  \E k \in 1..Len(paths) :
              /\ paths[k] = p
              /\ Without(p) \in Seq(Path) /\ Len(Without(p)) = Len(paths) - 1
              /\ \A i \in 1..(Len(paths) - 1) :
                    Without(p)[i] = IF i < k THEN paths[i] ELSE paths[i + 1]
  <1>. DEFINE k == CHOOSE i \in DOMAIN paths : paths[i] = p
              w == Without(p)
  <1>1. k \in 1..Len(paths) /\ paths[k] = p
    BY DEF OnDisk, ToSet
  <1>2. w = RemoveAt(paths, k)
    BY DEF Without
  <1>. HIDE DEF k, w
  <1>3. /\ w \in Seq(Path) /\ Len(w) = Len(paths) - 1
        /\ \A i \in 1..(Len(paths) - 1) : w[i] = IF i < k THEN paths[i] ELSE paths[i + 1]
    BY <1>1, <1>2, RemoveAtIs
  <1>. QED
    BY <1>1, <1>3 DEF w

(* A path that is removed is on the disk no longer, and nothing else goes. *)
LEMMA WithoutIs ==
    ASSUME paths \in Seq(Path), IsInjective(paths), NEW p
    PROVE  /\ Without(p) \in Seq(Path)
           /\ IsInjective(Without(p))
           /\ ToSet(Without(p)) = ToSet(paths) \ {p}
  <1>1. CASE ~OnDisk(p)
    BY <1>1 DEF Without, OnDisk
  <1>2. CASE OnDisk(p)
    <2>. DEFINE w == Without(p)
    <2>1. PICK k \in 1..Len(paths) :
             /\ paths[k] = p
             /\ w \in Seq(Path) /\ Len(w) = Len(paths) - 1
             /\ \A i \in 1..(Len(paths) - 1) :
                   w[i] = IF i < k THEN paths[i] ELSE paths[i + 1]
      BY <1>2, WithoutAt
    <2>. HIDE DEF w
    <2>2. IsInjective(w)
      <3>1. ASSUME NEW i \in DOMAIN w, NEW j \in DOMAIN w, w[i] = w[j]
            PROVE  i = j
        <4>. DEFINE at(l) == IF l < k THEN l ELSE l + 1
        <4>1. i \in 1..(Len(paths) - 1) /\ j \in 1..(Len(paths) - 1)
          BY <2>1
        <4>2. w[i] = paths[at(i)] /\ w[j] = paths[at(j)]
          BY <2>1, <4>1
        <4>3. \A a, b \in 1..Len(paths) : paths[a] = paths[b] => a = b
          BY DEF IsInjective
        <4>4. at(i) \in 1..Len(paths) /\ at(j) \in 1..Len(paths)
          BY <4>1
        <4>5. at(i) = at(j)
          BY <3>1, <4>2, <4>3, <4>4
        <4>. QED
          BY <4>1, <4>5
      <3>. QED
        BY <3>1 DEF IsInjective
    <2>3. ToSet(w) \subseteq ToSet(paths) \ {p}
      BY <2>1 DEF IsInjective, ToSet
    <2>4. ASSUME NEW i \in 1..Len(paths), i # k
          PROVE  paths[i] \in ToSet(w)
      <3>1. CASE i < k
        <4>1. i \in DOMAIN w /\ w[i] = paths[i]
          BY <2>1, <3>1
        <4>. QED
          BY <4>1 DEF ToSet
      <3>2. CASE i > k
        <4>1. i - 1 \in DOMAIN w /\ w[i - 1] = paths[i]
          BY <2>1, <3>2
        <4>. QED
          BY <4>1 DEF ToSet
      <3>. QED
        BY <2>4, <3>1, <3>2
    <2>5. ToSet(paths) \ {p} \subseteq ToSet(w)
      BY <2>1, <2>4 DEF ToSet
    <2>. QED
      BY <2>1, <2>2, <2>3, <2>5 DEF w
  <1>. QED
    BY <1>1, <1>2

LEMMA AppendedIs ==
    ASSUME NEW S, NEW s \in Seq(S), IsInjective(s), NEW p \in S, p \notin ToSet(s)
    PROVE  /\ Append(s, p) \in Seq(S)
           /\ IsInjective(Append(s, p))
           /\ ToSet(Append(s, p)) = ToSet(s) \cup {p}
           /\ Len(Append(s, p)) = Len(s) + 1 /\ Append(s, p)[Len(s) + 1] = p
           /\ \A i \in 1..Len(s) : Append(s, p)[i] = s[i]
  <1>1. /\ Append(s, p) \in Seq(S)
        /\ Len(Append(s, p)) = Len(s) + 1 /\ Append(s, p)[Len(s) + 1] = p
        /\ \A i \in 1..Len(s) : Append(s, p)[i] = s[i]
    BY AppendProperties
  <1>2. IsInjective(Append(s, p))
    BY <1>1 DEF IsInjective, ToSet
  <1>3. ToSet(Append(s, p)) = ToSet(s) \cup {p}
    BY <1>1 DEF ToSet
  <1>. QED
    BY <1>1, <1>2, <1>3

LEMMA TouchedIs ==
    ASSUME paths \in Seq(Path), IsInjective(paths), NEW p \in Path
    PROVE  /\ Touched(p) \in Seq(Path)
           /\ IsInjective(Touched(p))
           /\ ToSet(Touched(p)) = ToSet(paths) \cup {p}
  <1>1. /\ Without(p) \in Seq(Path) /\ IsInjective(Without(p))
        /\ ToSet(Without(p)) = ToSet(paths) \ {p}
    BY WithoutIs
  <1>. QED
    BY <1>1, AppendedIs DEF Touched

(* The path changed last, and the two changed last.                        *)
Ends(ps, p) == ps # <<>> /\ ps[Len(ps)] = p
Near(ps, p) == \E k \in DOMAIN ps : ps[k] = p /\ Len(ps) <= k + 1

(* The last path stays where it is when another one goes, and the one      *)
(* before it takes its place when it goes.                                 *)
LEMMA WithoutLast ==
    ASSUME paths \in Seq(Path), IsInjective(paths), NEW p, NEW q, q # p,
           Ends(paths, q) \/ (Ends(paths, p) /\ Near(paths, q))
    PROVE  Ends(Without(p), q)
  <1>1. CASE ~OnDisk(p)
    <2>1. ~Ends(paths, p)
      BY <1>1 DEF Ends, OnDisk, ToSet
    <2>. QED
      BY <1>1, <2>1 DEF Without
  <1>2. CASE OnDisk(p)
    <2>. DEFINE w == Without(p)
    <2>1. PICK k \in 1..Len(paths) :
             /\ paths[k] = p
             /\ w \in Seq(Path) /\ Len(w) = Len(paths) - 1
             /\ \A i \in 1..(Len(paths) - 1) :
                   w[i] = IF i < k THEN paths[i] ELSE paths[i + 1]
      BY <1>2, WithoutAt
    <2>. HIDE DEF w
    <2>2. CASE Ends(paths, q)
      <3>1. Len(paths) \in Nat /\ k # Len(paths) /\ paths[Len(paths)] = q
        BY <2>1, <2>2 DEF Ends
      <3>2. Len(paths) - 1 \in 1..(Len(paths) - 1) /\ ~(Len(paths) - 1 < k)
        BY <2>1, <3>1
      <3>3. w[Len(paths) - 1] = q
        BY <2>1, <3>1, <3>2
      <3>. QED
        BY <2>1, <3>2, <3>3 DEF Ends, w
    <2>3. CASE Ends(paths, p) /\ Near(paths, q)
      <3>1. PICK l \in 1..Len(paths) : paths[l] = q /\ Len(paths) <= l + 1
        BY <2>3 DEF Near
      <3>2. Len(paths) \in Nat /\ paths[Len(paths)] = p /\ Len(paths) \in 1..Len(paths)
        BY <2>1, <2>3 DEF Ends
      <3>3. k = Len(paths) /\ l # k
        BY <2>1, <3>1, <3>2 DEF IsInjective
      <3>4. l = Len(paths) - 1 /\ l \in 1..(Len(paths) - 1) /\ l < k
        BY <2>1, <3>1, <3>3
      <3>5. w[l] = q
        BY <2>1, <3>1, <3>4
      <3>. QED
        BY <2>1, <3>4, <3>5 DEF Ends, w
    <2>. QED
      BY <2>2, <2>3
  <1>. QED
    BY <1>1, <1>2

LEMMA TouchedLast ==
    ASSUME paths \in Seq(Path), IsInjective(paths), NEW p \in Path
    PROVE  /\ Ends(Touched(p), p)
           /\ \A q : /\ q # p
                     /\ Ends(paths, q) \/ (Ends(paths, p) /\ Near(paths, q))
                     => Near(Touched(p), q)
  <1>. DEFINE w == Without(p)
              t == Touched(p)
  <1>1. w \in Seq(Path) /\ IsInjective(w) /\ p \notin ToSet(w)
    BY WithoutIs
  <1>2. /\ t \in Seq(Path) /\ Len(t) = Len(w) + 1 /\ t[Len(w) + 1] = p
        /\ \A i \in 1..Len(w) : t[i] = w[i]
    BY <1>1, AppendedIs DEF Touched
  <1>3. Ends(t, p)
    BY <1>1, <1>2 DEF Ends
  <1>4. ASSUME NEW q, q # p, Ends(paths, q) \/ (Ends(paths, p) /\ Near(paths, q))
        PROVE  Near(t, q)
    <2>1. Ends(w, q)
      BY <1>4, WithoutLast
    <2>2. Len(w) \in 1..Len(w) /\ t[Len(w)] = q
      <3>. HIDE DEF w, t
      <3>. QED
        BY <1>1, <1>2, <2>1 DEF Ends
    <2>. HIDE DEF w, t
    <2>. QED
      BY <1>2, <2>2 DEF Near
  <1>. QED
    BY <1>3, <1>4

(* What is to be removed is too much of the paths, or of some of them.     *)
LEMMA DoomedIs ==
    ASSUME paths \in Seq(Path), NEW q \in Doomed
    PROVE  /\ q \in Seq(1..Len(paths))
           /\ \A k \in DOMAIN q : \E some \in SUBSET (1..Len(paths)) : q[k] \in Surplus(some)
  <1>. DEFINE tars == SurplusTars
              rest == SurplusRest
  <1>1. /\ {k \in DOMAIN paths : paths[k][2] = "tar"} \in SUBSET (1..Len(paths))
        /\ DOMAIN paths \ tars \in SUBSET (1..Len(paths))
    OBVIOUS
  <1>2. tars \subseteq 1..Len(paths) /\ rest \subseteq 1..Len(paths)
    BY <1>1 DEF Surplus, SurplusTars, SurplusRest
  <1>3. PICK s \in LatestFirst(tars), t \in LatestFirst(rest) : q = s \o t
    BY DEF Doomed
  <1>4. \A i \in tars : \E some \in SUBSET (1..Len(paths)) : i \in Surplus(some)
    BY <1>1 DEF SurplusTars, SurplusRest
  <1>5. \A i \in rest : \E some \in SUBSET (1..Len(paths)) : i \in Surplus(some)
    BY <1>1 DEF SurplusTars, SurplusRest
  <1>. HIDE DEF tars, rest
  <1>7. s \in Seq(tars \cup rest) /\ t \in Seq(tars \cup rest)
    <2>1. IsFiniteSet(tars) /\ IsFiniteSet(rest)
      <3>1. IsFiniteSet(1..Len(paths))
        BY FS_Interval
      <3>. QED
        BY <1>2, <3>1, FS_Subset
    <2>2. Cardinality(tars) \in Nat /\ Cardinality(rest) \in Nat
      BY <2>1, FS_CardinalityType
    <2>3. s \in [1..Cardinality(tars) -> tars] /\ t \in [1..Cardinality(rest) -> rest]
      BY DEF LatestFirst
    <2>. QED
      BY <2>2, <2>3
  <1>8. q \in Seq(tars \cup rest)
    BY <1>3, <1>7, ConcatProperties
  <1>9. q \in Seq(1..Len(paths))
    <2>1. DOMAIN q = 1..Len(q) /\ Len(q) \in Nat /\ \A k \in 1..Len(q) : q[k] \in tars \cup rest
      BY <1>8
    <2>2. q = [k \in 1..Len(q) |-> q[k]]
      BY <1>8
    <2>3. \A k \in 1..Len(q) : q[k] \in 1..Len(paths)
      BY <1>2, <2>1
    <2>. QED
      BY <2>1, <2>2, <2>3
  <1>10. ASSUME NEW k \in DOMAIN q
         PROVE  q[k] \in tars \cup rest
    BY <1>8
  <1>. QED
    BY <1>4, <1>5, <1>9, <1>10

(* The two paths changed last are not among them.                          *)
LEMMA NearStays ==
    ASSUME paths \in Seq(Path), IsInjective(paths), NEW p, Near(paths, p),
           NEW q \in Doomed
    PROVE  p \notin ToSet([k \in DOMAIN q |-> paths[q[k]]])
  <1>1. PICK l \in 1..Len(paths) : paths[l] = p /\ Len(paths) <= l + 1
    BY DEF Near
  <1>2. ASSUME NEW some \in SUBSET (1..Len(paths))
        PROVE  l \notin Surplus(some)
    <2>. DEFINE later == {m \in some : m > l}
    <2>1. later \subseteq {Len(paths)}
      <3>1. ASSUME NEW m \in some, m > l
            PROVE  m = Len(paths)
        <4>1. m \in 1..Len(paths) /\ Len(paths) \in Nat
          OBVIOUS
        <4>. QED
          BY <1>1, <3>1, <4>1
      <3>. QED
        BY <3>1
    <2>2. IsFiniteSet({Len(paths)}) /\ Cardinality({Len(paths)}) = 1
      BY FS_Singleton
    <2>3. IsFiniteSet(later) /\ Cardinality(later) <= 1 /\ Cardinality(later) \in Nat
      BY <2>1, <2>2, FS_Subset, FS_CardinalityType
    <2>4. ~(Cardinality(later) >= MaxBackups)
      BY <2>3, ProtectionAssumption
    <2>. QED
      BY <2>4 DEF Surplus
  <1>3. ASSUME NEW k \in DOMAIN q
        PROVE  paths[q[k]] # p
    <2>1. q[k] \in 1..Len(paths) /\ q[k] # l
      BY <1>2, DoomedIs
    <2>. QED
      BY <1>1, <2>1 DEF IsInjective
  <1>. QED
    BY <1>3 DEF ToSet

-----------------------------------------------------------------------------
(* Types *)

DiskTypes ==
    /\ paths \in Seq(Path) /\ IsInjective(paths)
    /\ dir \in [Name -> [Part -> Piece]]
    /\ tar \in [Name -> Piece]
    /\ holds \in [Name -> SUBSET Database]

Call == [stage : Stage, name : 0..names, doomed : Seq(Path)]
CallTypes ==
    /\ names \in 0..MaxNames
    /\ job \in [Job -> Call]
    /\ \A j \in Job : job[j].stage # "idle" => job[j].name # 0

(* Nothing of a name that was not given out is on the disk: the path of a  *)
(* backup that begins is a new one.                                        *)
FreshNames ==
    \A m \in Name : m > names =>
        /\ dir[m] = NoPieces /\ tar[m] = "none" /\ holds[m] = {}
        /\ ~OnDisk(<<m, "dir">>) /\ ~OnDisk(<<m, "tar">>)

DiskInv == TypeOK /\ FreshNames

FailedTypes == failed \in [Name -> SUBSET Database]

LEMMA TypeParts ==
    TypeOK <=> FilesOK /\ DiskTypes /\ FailedTypes /\ CallTypes /\ faults \in 0..MaxFaults
  BY DEF TypeOK, FilesOK, DiskTypes, FailedTypes, CallTypes, Call

(* What a backup's metadata says of failed copies is not taken back.       *)
LEMMA FailedNext ==
    ASSUME FailedTypes, [ProtectionNext]_vars
    PROVE  FailedTypes' /\ \A n \in Name : failed[n] \subseteq failed'[n]
  <1>1. ASSUME failed' = failed
        PROVE  FailedTypes' /\ \A n \in Name : failed[n] \subseteq failed'[n]
    BY <1>1 DEF FailedTypes
  <1>2. CASE \E j \in Job : FailPiece(j)
    <2>1. PICK j \in Job :
             failed' = [failed EXCEPT ![job[j].name] = @ \cup ({job[j].stage} \cap Database)]
      BY <1>2 DEF FailPiece
    <2>. QED
      BY <2>1 DEF FailedTypes
  <1>3. ASSUME NEW j \in Job, BackupStep(j), ~FailPiece(j)
        PROVE  failed' = failed
    BY <1>3 DEF BackupStep, BeginPiece, EndPiece, SkipPiece, BeginArchive, EndArchive,
                FailCompression, RemoveDir, RemovedDir, Prune, EndBackup
  <1>4. (\E j \in Job : Begins(j)) => failed' = failed
    BY DEF Begins
  <1>5. CASE Validate \/ StartupBackup \/ ScheduledBackup \/ EndMain \/ Terminate \/ Die
    BY <1>1, <1>4, <1>5 DEF Validate, StartupBackup, ScheduledBackup, EndMain, Terminate, Die, Job
  <1>6. CASE UnlinkSqlite \/ RewriteSqlite \/ RepairChroma \/ FailRepair \/ OpenDatabase
    BY <1>1, <1>6 DEF UnlinkSqlite, RewriteSqlite, RepairChroma, FailRepair, OpenDatabase
  <1>7. CASE Launch \/ Damage \/ UNCHANGED vars
    BY <1>1, <1>7 DEF Launch, Damage, vars
  <1>. QED
    BY <1>1, <1>2, <1>3, <1>5, <1>6, <1>7 DEF ProtectionNext, BotStep

LEMMA CallIs ==
    ASSUME CallTypes, NEW j \in Job, job[j].stage # "idle"
    PROVE  job[j].name \in 1..names /\ job[j].name \in Name
  BY ProtectionAssumption DEF CallTypes, Call, Name

LEMMA PathIs ==
    ASSUME NEW n \in Name
    PROVE  <<n, "dir">> \in Path /\ <<n, "tar">> \in Path /\ <<n, "dir">> # <<n, "tar">>
  BY DEF Path

LEMMA FreshKept ==
    ASSUME FreshNames, names' = names, names \in Nat, NEW n \in 1..names,
           \A m \in Name : m > names =>
               /\ dir'[m] \in {dir[m], NoPieces} /\ tar'[m] \in {tar[m], "none"}
               /\ holds'[m] = holds[m],
           ToSet(paths') \subseteq ToSet(paths) \cup {<<n, "dir">>, <<n, "tar">>}
    PROVE  FreshNames'
  <1>1. ASSUME NEW m \in Name, m > names
        PROVE  ~OnDisk(<<m, "dir">>)' /\ ~OnDisk(<<m, "tar">>)'
    <2>1. m # n /\ <<m, "dir">> \notin ToSet(paths) /\ <<m, "tar">> \notin ToSet(paths)
      BY <1>1 DEF FreshNames, OnDisk, Name
    <2>. QED
      BY <2>1 DEF OnDisk
  <1>2. ASSUME NEW m \in Name, m > names
        PROVE  dir'[m] = NoPieces /\ tar'[m] = "none" /\ holds'[m] = {}
    BY <1>2 DEF FreshNames
  <1>. QED
    BY <1>1, <1>2 DEF FreshNames

(* What unlink, or a step of rmtree, does to the disk.                     *)
LEMMA EraseIs ==
    ASSUME DiskTypes, NEW p \in Path, OnDisk(p), Erase(p)
    PROVE  /\ paths' \in Seq(Path) /\ IsInjective(paths')
           /\ dir' \in [Name -> [Part -> Piece]] /\ tar' \in [Name -> Piece]
           /\ ToSet(paths) \ {p} \subseteq ToSet(paths') /\ ToSet(paths') \subseteq ToSet(paths)
           /\ \A m \in Name : <<m, "dir">> # p => dir'[m] = dir[m]
           /\ \A m \in Name : <<m, "tar">> # p => tar'[m] = tar[m]
           /\ p[1] \in Name
  <1>1. PICK n \in Name, k \in {"dir", "tar"} : p = <<n, k>>
    BY DEF Path
  <1>2. p[1] = n /\ p[2] = k
    BY <1>1
  <1>3. /\ Without(p) \in Seq(Path) /\ IsInjective(Without(p))
        /\ ToSet(Without(p)) = ToSet(paths) \ {p}
        /\ Touched(p) \in Seq(Path) /\ IsInjective(Touched(p))
        /\ ToSet(Touched(p)) = ToSet(paths) \cup {p}
    BY WithoutIs, TouchedIs DEF DiskTypes
  <1>4. ToSet(paths) \cup {p} = ToSet(paths)
    BY DEF OnDisk
  <1>5. CASE k = "tar" /\ tar' = [tar EXCEPT ![n] = "none"] /\ paths' = Without(p) /\ dir' = dir
    BY <1>1, <1>3, <1>5 DEF DiskTypes, Piece
  <1>6. CASE \E part \in Part : /\ k = "dir" /\ dir' = [dir EXCEPT ![n][part] = "none"]
                                /\ paths' = Touched(p) /\ tar' = tar
    <2>1. dir' \in [Name -> [Part -> Piece]]
      BY <1>6 DEF DiskTypes, Piece
    <2>2. \A m \in Name : m # n => dir'[m] = dir[m]
      BY <1>6 DEF DiskTypes
    <2>. QED
      BY <1>1, <1>3, <1>4, <1>6, <2>1, <2>2 DEF DiskTypes
  <1>7. CASE k = "dir" /\ paths' = Without(p) /\ UNCHANGED <<dir, tar>>
    BY <1>1, <1>3, <1>7 DEF DiskTypes
  <1>. QED
    BY <1>2, <1>5, <1>6, <1>7 DEF Erase

LEMMA ErasePreserves ==
    ASSUME DiskInv, NEW p \in Path, OnDisk(p), Erase(p), UNCHANGED <<holds, names>>
    PROVE  DiskTypes' /\ FreshNames'
  <1>1. DiskTypes /\ CallTypes
    BY TypeParts DEF DiskInv
  <1>2. /\ paths' \in Seq(Path) /\ IsInjective(paths')
        /\ dir' \in [Name -> [Part -> Piece]] /\ tar' \in [Name -> Piece]
        /\ ToSet(paths') \subseteq ToSet(paths)
        /\ \A m \in Name : <<m, "dir">> # p => dir'[m] = dir[m]
        /\ \A m \in Name : <<m, "tar">> # p => tar'[m] = tar[m]
    BY <1>1, EraseIs
  <1>3. ASSUME NEW m \in Name, m > names
        PROVE  /\ dir'[m] = NoPieces /\ tar'[m] = "none" /\ holds'[m] = {}
               /\ ~OnDisk(<<m, "dir">>)' /\ ~OnDisk(<<m, "tar">>)'
    <2>1. /\ dir[m] = NoPieces /\ tar[m] = "none" /\ holds[m] = {}
          /\ <<m, "dir">> \notin ToSet(paths) /\ <<m, "tar">> \notin ToSet(paths)
      BY <1>3 DEF DiskInv, FreshNames, OnDisk
    <2>2. p # <<m, "dir">> /\ p # <<m, "tar">>
      BY <2>1 DEF OnDisk
    <2>. QED
      BY <1>2, <2>1, <2>2 DEF OnDisk
  <1>. QED
    BY <1>1, <1>2, <1>3 DEF DiskTypes, FreshNames

LEMMA CallMoves ==
    ASSUME CallTypes, names' = names, NEW j \in Job, job[j].stage # "idle",
           \/ \E stage \in Stage : Advance(j, stage)
           \/ \E path \in BOOLEAN : Returns(j, path)
           \/ job' = job
           \/ paths \in Seq(Path) /\ ToPrune(j)
    PROVE  CallTypes'
  <1>. USE DEF CallTypes, Call
  <1>1. CASE \E stage \in Stage : Advance(j, stage)
    BY <1>1 DEF Advance
  <1>2. NoBackup \in Call
    BY DEF NoBackup, Stage
  <1>3. CASE \E path \in BOOLEAN : Returns(j, path)
    <2>1. job' = [i \in Job |-> NoBackup] \/ job' = [job EXCEPT ![j] = NoBackup]
      BY <1>3 DEF Returns
    <2>2. NoBackup.stage = "idle"
      BY DEF NoBackup
    <2>. QED
      BY <1>2, <2>1, <2>2
  <1>4. CASE paths \in Seq(Path) /\ ToPrune(j)
    <2>1. PICK q \in Doomed : job' = [job EXCEPT ![j].stage = "prune",
                                       ![j].doomed = [k \in DOMAIN q |-> paths[q[k]]]]
      BY <1>4 DEF ToPrune
    <2>2. q \in Seq(1..Len(paths))
      BY <1>4, DoomedIs
    <2>3. [k \in DOMAIN q |-> paths[q[k]]] \in Seq(Path)
      <3>1. DOMAIN q = 1..Len(q) /\ Len(q) \in Nat /\ \A k \in 1..Len(q) : q[k] \in 1..Len(paths)
        BY <2>2
      <3>2. \A k \in 1..Len(q) : paths[q[k]] \in Path
        BY <1>4, <3>1
      <3>. QED
        BY <3>1, <3>2
    <2>. HIDE DEF Call
    <2>4. \A i \in Job \ {j} : job'[i] = job[i]
      BY <2>1
    <2>5. job'[j] = [job[j] EXCEPT !.stage = "prune", !.doomed = [k \in DOMAIN q |-> paths[q[k]]]]
      BY <2>1
    <2>6. job'[j] \in Call /\ job'[j].name = job[j].name
      <3>1. job[j] \in [stage : Stage, name : 0..names, doomed : Seq(Path)]
        BY DEF Call
      <3>2. "prune" \in Stage
        BY DEF Stage
      <3>. QED
        BY <2>3, <2>5, <3>1, <3>2 DEF Call
    <2>7. job' \in [Job -> Call]
      BY <2>1, <2>4, <2>6
    <2>. QED
      BY <2>4, <2>6, <2>7 DEF Call
  <1>. QED
    BY <1>1, <1>3, <1>4

LEMMA NextStageIs ==
    ASSUME NEW j, NEW n
    PROVE  NextStage(j, n) \in {"chroma", "info", "discard", "archive"} \cap Stage
  BY DEF NextStage, Stage, Part, Database

(* A step of a backup keeps the types and touches no fresh name.           *)
LEMMA BackupTyped ==
    ASSUME DiskInv, NEW j \in Job, BackupStep(j)
    PROVE  DiskInv'
  <1>. DEFINE n == job[j].name
              part == job[j].stage
  <1>1. FilesOK /\ DiskTypes /\ CallTypes /\ faults \in 0..MaxFaults /\ FreshNames
    BY TypeParts DEF DiskInv
  <1>2. names' = names /\ names \in Nat
    BY <1>1 DEF BackupStep, CallTypes
  <1>3. FilesOK'
    BY <1>1, BackupKeepsFiles DEF FilesOK, Unprotected
  <1>4. part # "idle"
    BY DEF BackupStep, BeginPiece, EndPiece, SkipPiece, FailPiece, BeginArchive, EndArchive,
           FailCompression, RemoveDir, RemovedDir, Prune, EndBackup, Part, Database
  <1>5. n \in 1..names /\ n \in Name /\ <<n, "dir">> \in Path /\ <<n, "tar">> \in Path
    BY <1>1, <1>4, CallIs, PathIs
  <1>6. ASSUME Fault \/ faults' = faults
        PROVE  faults' \in 0..MaxFaults
    BY <1>1, <1>6, ProtectionAssumption DEF Fault
  <1>7. ASSUME DiskTypes', FreshNames', CallTypes', Fault \/ faults' = faults
        PROVE  DiskInv'
    <2>1. FailedTypes'
      <3>1. FailedTypes /\ [ProtectionNext]_vars
        BY TypeParts DEF DiskInv, ProtectionNext, BotStep
      <3>. QED
        BY <3>1, FailedNext
    <2>. QED
      BY <1>3, <1>6, <1>7, <2>1
         DEF DiskInv, TypeOK, FilesOK, DiskTypes, FailedTypes, CallTypes, Call
  <1>8. ASSUME UNCHANGED <<paths, dir, tar, holds>>
        PROVE  DiskTypes' /\ FreshNames'
    BY <1>1, <1>2, <1>8 DEF DiskTypes, FreshNames, OnDisk
  <1>9. \A p \in Path : /\ Touched(p) \in Seq(Path) /\ IsInjective(Touched(p))
                        /\ ToSet(Touched(p)) = ToSet(paths) \cup {p}
    BY <1>1, TouchedIs DEF DiskTypes
  <1>10. \A m \in Name : m > names => m # n
    BY <1>2, <1>5 DEF Name
  <1>. HIDE DEF n
  <1>11. CASE BeginPiece(j)
    <2>1. /\ dir' = [dir EXCEPT ![n][part] = "torn"] /\ paths' = Touched(<<n, "dir">>)
          /\ UNCHANGED <<tar, holds, job, faults>> /\ part \in Part
      BY <1>11 DEF BeginPiece, n
    <2>2. DiskTypes'
      BY <1>1, <1>5, <1>9, <2>1 DEF DiskTypes, Piece
    <2>3. \A m \in Name : m > names => dir'[m] = dir[m]
      BY <1>1, <1>10, <2>1 DEF DiskTypes
    <2>4. FreshNames'
      BY <1>1, <1>2, <1>5, <1>9, <2>1, <2>3, FreshKept
    <2>5. CallTypes'
      BY <1>1, <1>2, <1>4, <2>1, CallMoves
    <2>. QED
      BY <1>7, <2>1, <2>2, <2>4, <2>5
  <1>12. CASE EndPiece(j)
    <2>1. /\ dir' = [dir EXCEPT ![n][part] = "whole"]
          /\ holds' = [holds EXCEPT ![n] = @ \cup ({part} \cap Database)]
          /\ UNCHANGED <<paths, tar, faults>> /\ Advance(j, NextStage(j, n)) /\ part \in Part
      BY <1>12 DEF EndPiece, n
    <2>2. DiskTypes'
      BY <1>1, <1>5, <2>1 DEF DiskTypes, Piece
    <2>3. \A m \in Name : m > names => dir'[m] = dir[m] /\ holds'[m] = holds[m]
      BY <1>1, <1>10, <2>1 DEF DiskTypes
    <2>4. FreshNames'
      BY <1>1, <1>2, <1>5, <2>1, <2>3, FreshKept
    <2>5. CallTypes'
      BY <1>1, <1>2, <1>4, <2>1, NextStageIs, CallMoves
    <2>. QED
      BY <1>7, <2>1, <2>2, <2>4, <2>5
  <1>13. CASE SkipPiece(j)
    <2>1. UNCHANGED <<paths, dir, tar, holds, faults>> /\ Advance(j, NextStage(j, job[j].name))
      BY <1>13 DEF SkipPiece
    <2>2. CallTypes'
      BY <1>1, <1>2, <1>4, <2>1, NextStageIs, CallMoves
    <2>. QED
      BY <1>7, <1>8, <2>1, <2>2
  <1>14. CASE FailPiece(j)
    <2>1. /\ UNCHANGED <<paths, dir, tar, holds>> /\ (Fault \/ faults' = faults)
          /\ Returns(j, FALSE) \/ Advance(j, NextStage(j, job[j].name))
      BY <1>14 DEF FailPiece
    <2>2. CallTypes'
      BY <1>1, <1>2, <1>4, <2>1, NextStageIs, CallMoves
    <2>. QED
      BY <1>7, <1>8, <2>1, <2>2
  <1>15. CASE BeginArchive(j) \/ EndArchive(j)
    <2>1. /\ tar' \in {[tar EXCEPT ![n] = "torn"], [tar EXCEPT ![n] = "whole"]}
          /\ paths' = Touched(<<n, "tar">>)
          /\ UNCHANGED <<dir, holds, faults>> /\ (job' = job \/ Advance(j, "remove"))
      BY <1>15 DEF BeginArchive, EndArchive, n
    <2>2. DiskTypes'
      BY <1>1, <1>5, <1>9, <2>1 DEF DiskTypes, Piece
    <2>3. \A m \in Name : m > names => tar'[m] = tar[m]
      BY <1>1, <1>10, <2>1 DEF DiskTypes
    <2>4. FreshNames'
      BY <1>1, <1>2, <1>5, <1>9, <2>1, <2>3, FreshKept
    <2>5. CallTypes'
      BY <1>1, <1>2, <1>4, <2>1, CallMoves DEF Stage
    <2>. QED
      BY <1>7, <2>1, <2>2, <2>4, <2>5
  <1>16. CASE FailCompression(j)
    <2>1. UNCHANGED <<paths, dir, tar, holds>> /\ (Fault \/ faults' = faults) /\ ToPrune(j)
      BY <1>16 DEF FailCompression
    <2>2. CallTypes'
      BY <1>1, <1>2, <1>4, <2>1, CallMoves DEF DiskTypes
    <2>. QED
      BY <1>7, <1>8, <2>1, <2>2
  <1>17. CASE RemoveDir(j)
    <2>1. Erase(<<n, "dir">>) /\ OnDisk(<<n, "dir">>) /\ UNCHANGED <<job, holds, faults>>
      BY <1>17 DEF RemoveDir, n
    <2>2. DiskTypes' /\ FreshNames'
      BY <1>2, <1>5, <2>1, ErasePreserves
    <2>3. CallTypes'
      BY <1>1, <1>2, <1>4, <2>1, CallMoves
    <2>. QED
      BY <1>7, <2>1, <2>2, <2>3
  <1>18. CASE RemovedDir(j)
    <2>1. UNCHANGED <<paths, dir, tar, holds, faults>> /\ (ToPrune(j) \/ Returns(j, FALSE))
      BY <1>18 DEF RemovedDir
    <2>2. CallTypes'
      BY <1>1, <1>2, <1>4, <2>1, CallMoves DEF DiskTypes
    <2>. QED
      BY <1>7, <1>8, <2>1, <2>2
  <1>19. CASE Prune(j)
    <2>. DEFINE doomed == job[j].doomed
    <2>1. /\ doomed # <<>> /\ OnDisk(Head(doomed)) /\ Erase(Head(doomed))
          /\ job' = [job EXCEPT ![j].doomed =
                        IF Head(doomed) \in ToSet(paths') THEN @ ELSE Tail(@)]
          /\ UNCHANGED <<holds, faults>>
      BY <1>19 DEF Prune
    <2>2. doomed \in Seq(Path)
      BY <1>1 DEF CallTypes, Call
    <2>3. Head(doomed) \in Path /\ Tail(doomed) \in Seq(Path)
      BY <2>1, <2>2, HeadTailProperties
    <2>4. DiskTypes' /\ FreshNames'
      BY <1>2, <2>1, <2>3, ErasePreserves
    <2>5. CallTypes'
      BY <1>1, <1>2, <2>1, <2>2, <2>3 DEF CallTypes, Call
    <2>. QED
      BY <1>7, <2>1, <2>4, <2>5
  <1>20. CASE EndBackup(j)
    <2>1. /\ UNCHANGED <<paths, dir, tar, holds>> /\ (Fault \/ faults' = faults)
          /\ Returns(j, TRUE)
      BY <1>20 DEF EndBackup
    <2>2. CallTypes'
      BY <1>1, <1>2, <1>4, <2>1, CallMoves
    <2>. QED
      BY <1>7, <1>8, <2>1, <2>2
  <1>. QED
    BY <1>11, <1>12, <1>13, <1>14, <1>15, <1>16, <1>17, <1>18, <1>19, <1>20 DEF BackupStep

(* A backup that begins makes a directory of its own.                      *)
LEMMA BeginsTyped ==
    ASSUME DiskInv, NEW j \in Job, Begins(j)
    PROVE  DiskTypes' /\ CallTypes' /\ FreshNames' /\ Ends(paths', <<names', "dir">>)
  <1>1. DiskTypes /\ CallTypes /\ FreshNames
    BY TypeParts DEF DiskInv
  <1>2. /\ names \in Nat /\ names' = names + 1 /\ names' \in 0..MaxNames /\ names' \in Name
        /\ UNCHANGED <<dir, tar, holds>>
    BY <1>1, ProtectionAssumption DEF Begins, CallTypes, Name
  <1>. DEFINE p == <<names', "dir">>
  <1>3. p \in Path /\ p \notin ToSet(paths) /\ paths' = Append(paths, p)
    <2>1. p \in Path
      BY <1>2 DEF Path
    <2>2. p \notin ToSet(paths)
      <3>1. ASSUME NEW m \in Name, m > names
            PROVE  <<m, "dir">> \notin ToSet(paths)
        BY <1>1, <3>1 DEF FreshNames, OnDisk
      <3>2. names' > names
        BY <1>2
      <3>. QED
        BY <1>2, <3>1, <3>2
    <2>3. paths' = Append(paths, p)
      BY <1>2 DEF Begins
    <2>. QED
      BY <2>1, <2>2, <2>3
  <1>4. /\ paths' \in Seq(Path) /\ IsInjective(paths') /\ ToSet(paths') = ToSet(paths) \cup {p}
        /\ Len(paths') = Len(paths) + 1 /\ paths'[Len(paths) + 1] = p
    <2>. HIDE DEF p
    <2>1. paths \in Seq(Path) /\ IsInjective(paths)
      BY <1>1 DEF DiskTypes
    <2>. QED
      BY <1>3, <2>1, AppendedIs
  <1>5. DiskTypes'
    BY <1>1, <1>2, <1>4 DEF DiskTypes
  <1>6. CallTypes'
    <2>. DEFINE b == [stage |-> "sqlite", name |-> names + 1, doomed |-> <<>>]
    <2>1. job' = [job EXCEPT ![j] = b]
      BY DEF Begins
    <2>2. b \in Call' /\ b.name # 0
      BY <1>2 DEF Call, Stage, Part, Database
    <2>3. \A i \in Job : job[i] \in Call'
      BY <1>1, <1>2 DEF CallTypes, Call
    <2>. HIDE DEF b
    <2>4. job' \in [Job -> Call']
      BY <1>1, <2>1, <2>2, <2>3 DEF CallTypes
    <2>. QED
      BY <1>1, <1>2, <2>1, <2>2, <2>4 DEF CallTypes
  <1>7. ASSUME NEW m \in Name, m > names'
        PROVE  /\ dir'[m] = NoPieces /\ tar'[m] = "none" /\ holds'[m] = {}
               /\ ~OnDisk(<<m, "dir">>)' /\ ~OnDisk(<<m, "tar">>)'
    <2>1. m > names /\ m # names'
      BY <1>2, <1>7 DEF Name
    <2>. QED
      BY <1>1, <1>2, <1>4, <2>1 DEF FreshNames, OnDisk
  <1>8. Ends(paths', p)
    BY <1>1, <1>4 DEF Ends, DiskTypes
  <1>. QED
    BY <1>5, <1>6, <1>7, <1>8 DEF FreshNames

LEMMA DiskInit == InitDisk /\ phase \in {"down", "starting"} => DiskInv
  <1>. SUFFICES ASSUME InitDisk, phase \in {"down", "starting"}
                PROVE  DiskInv
    OBVIOUS
  <1>. USE ProtectionAssumption DEF InitDisk
  <1>1. FilesOK /\ faults \in 0..MaxFaults
    BY DEF FilesOK, Unprotected
  <1>2. \A n \in 1..OldBackups : n \in Name /\ <<n, "tar">> \in Path
    BY DEF Name, Path
  <1>3. paths \in Seq(Path) /\ IsInjective(paths)
    <2>1. paths \in [1..OldBackups -> Path]
      BY <1>2
    <2>. QED
      BY <2>1 DEF IsInjective
  <1>4. DiskTypes
    BY <1>3 DEF DiskTypes, NoPieces, Piece, Database
  <1>5. CallTypes
    BY DEF CallTypes, Call, NoBackup, Stage
  <1>6. ToSet(paths) = {<<n, "tar">> : n \in 1..OldBackups}
    BY DEF ToSet
  <1>7. FreshNames
    <2>1. ASSUME NEW m \in Name, m > names
          PROVE  /\ dir[m] = NoPieces /\ tar[m] = "none" /\ holds[m] = {}
                 /\ <<m, "dir">> \notin ToSet(paths) /\ <<m, "tar">> \notin ToSet(paths)
      <3>1. m \in Nat /\ ~(m <= OldBackups) /\ m \notin 1..OldBackups
        BY <2>1 DEF Name
      <3>. QED
        BY <1>6, <3>1
    <2>. QED
      BY <2>1 DEF FreshNames, OnDisk
  <1>8. FailedTypes
    BY DEF FailedTypes
  <1>. QED
    BY <1>1, <1>4, <1>5, <1>7, <1>8, TypeParts DEF DiskInv

LEMMA DiskNext ==
    ASSUME DiskInv, RepairInv, [ProtectionNext]_vars
    PROVE  DiskInv'
  <1>1. FilesOK /\ DiskTypes /\ CallTypes /\ faults \in 0..MaxFaults /\ FreshNames
    BY TypeParts DEF DiskInv
  <1>2. FilesOK'
    BY RepairStep DEF RepairInv
  <1>3. ASSUME Fault \/ faults' = faults
        PROVE  faults' \in 0..MaxFaults
    BY <1>1, <1>3, ProtectionAssumption DEF Fault
  <1>4. ASSUME DiskTypes', FreshNames', CallTypes', Fault \/ faults' = faults
        PROVE  DiskInv'
    <2>1. FailedTypes'
      BY FailedNext, TypeParts DEF DiskInv
    <2>. QED
      BY <1>2, <1>3, <1>4, <2>1
         DEF DiskInv, TypeOK, FilesOK, DiskTypes, FailedTypes, CallTypes, Call
  <1>5. ASSUME UNCHANGED <<paths, dir, tar, holds, names>>,
               job' = job \/ job' = [i \in Job |-> NoBackup], Fault \/ faults' = faults
        PROVE  DiskInv'
    <2>1. DiskTypes' /\ FreshNames'
      BY <1>1, <1>5 DEF DiskTypes, FreshNames, OnDisk
    <2>2. CallTypes'
      <3>1. NoBackup \in Call /\ NoBackup.stage = "idle"
        BY <1>1 DEF CallTypes, Call, NoBackup, Stage
      <3>2. Call' = Call
        BY <1>5 DEF Call
      <3>. QED
        BY <1>1, <1>5, <3>1, <3>2 DEF CallTypes
    <2>. QED
      BY <1>4, <1>5, <2>1, <2>2
  <1>6. ASSUME NEW j \in Job, Begins(j), faults' = faults
        PROVE  DiskInv'
    BY <1>4, <1>6, BeginsTyped
  <1>7. CASE \E j \in Job : BackupStep(j)
    BY <1>7, BackupTyped
  <1>8. CASE Validate
    BY <1>5, <1>6, <1>8 DEF Validate, Job
  <1>9. CASE UnlinkSqlite \/ RewriteSqlite \/ RepairChroma \/ FailRepair \/ OpenDatabase
    BY <1>5, <1>9 DEF UnlinkSqlite, RewriteSqlite, RepairChroma, FailRepair, OpenDatabase
  <1>10. CASE StartupBackup \/ ScheduledBackup \/ EndMain
    BY <1>6, <1>10 DEF StartupBackup, ScheduledBackup, EndMain, Job
  <1>11. CASE Launch \/ Die \/ Damage \/ UNCHANGED vars
    BY <1>5, <1>11 DEF Launch, Die, Damage, vars
  <1>12. CASE Terminate
    BY <1>5, <1>6, <1>12 DEF Terminate, Die, Job
  <1>. QED
    BY <1>7, <1>8, <1>9, <1>10, <1>11, <1>12 DEF ProtectionNext, BotStep

(* Every variable keeps its type, and the backup directory lists no path   *)
(* twice, for every number of backups, faults and kills.                   *)
THEOREM ProtectionTypeCorrect == ProtectionSpec => []TypeOK
  <1>1. Init => RepairInv /\ DiskInv
    BY DiskInit DEF Init, InitDisk, RepairInv, FilesOK, OneToRepair
  <1>2. RepairInv /\ DiskInv /\ [ProtectionNext]_vars => (RepairInv /\ DiskInv)'
    BY RepairStep, DiskNext
  <1>3. DiskInv => TypeOK
    BY DEF DiskInv
  <1>. QED
    BY <1>1, <1>2, <1>3, PTL DEF ProtectionSpec

-----------------------------------------------------------------------------
(* The backup before a repair *)

(* Before the bot has opened anything, no backup is under way but that one. *)
Alone ==
    /\ phase \in {"down", "starting", "repairing", "rewriting"} => \A j \in Job : job[j] = NoBackup
    /\ phase = "recovering" => \A j \in Job \ {"loop"} : job[j] = NoBackup

(* While it copies, its directory is the path changed last; ...            *)
Copying(n) ==
    /\ tar[n] = "none" /\ Ends(paths, <<n, "dir">>)
    /\ \A part \in holds[n] : dir[n][part] = "whole"
(* ... while it compresses, the directory is whole and at most the archive *)
(* was changed later; ...                                                  *)
Archiving(n) ==
    /\ WholeDir(n)
    /\ \/ tar[n] = "none" /\ Ends(paths, <<n, "dir">>)
       \/ tar[n] = "torn" /\ Ends(paths, <<n, "tar">>) /\ Near(paths, <<n, "dir">>)
(* ... while the directory is removed, the archive is whole; ...           *)
Removing(n) ==
    /\ tar[n] = "whole"
    /\ \/ Ends(paths, <<n, "tar">>)
       \/ Ends(paths, <<n, "dir">>) /\ Near(paths, <<n, "tar">>)
(* ... and one of the two is whole and is not to be removed.               *)
Pruning(n, doomed) ==
    \/ ListedTar(n) /\ <<n, "tar">> \notin ToSet(doomed)
    \/ WholeDir(n) /\ <<n, "dir">> \notin ToSet(doomed)

Progress(b) ==
    /\ b.stage \in Part => Copying(b.name)
    /\ b.stage = "archive" => Archiving(b.name)
    /\ b.stage = "remove" => Removing(b.name)
    /\ b.stage = "prune" => Pruning(b.name, b.doomed)

BackedUp ==
    /\ phase = "recovering" =>
          job["loop"].stage # "idle" /\ job["loop"].name = names /\ Progress(job["loop"])
    /\ phase \in {"repairing", "rewriting"} => Whole(names)

(* The copying of a database is over when it is not there, is named in the *)
(* metadata, or is noted there as failed; ...                              *)
Settled(database) ==
    Absent(database) \/ database \in holds[names] \cup failed[names]

(* ... that of both is, when the backup before a repair is past them.      *)
Accounted ==
    /\ phase = "recovering" =>
          /\ job["loop"].stage # "sqlite" => Settled("sqlite")
          /\ job["loop"].stage \notin Database => Settled("chroma")
    /\ phase = "repairing" => Settled("sqlite") /\ Settled("chroma")

ProtectionInv == DiskInv /\ RepairInv /\ Alone /\ BackedUp /\ Accounted

LEMMA AloneNext ==
    ASSUME DiskInv, Alone, [ProtectionNext]_vars
    PROVE  Alone'
  <1>1. CallTypes /\ FilesOK
    BY TypeParts DEF DiskInv
  <1>2. ASSUME job' = [j \in Job |-> NoBackup]
        PROVE  Alone'
    BY <1>2 DEF Alone
  <1>3. ASSUME job' = job, phase' = phase \/ phase = "down" \/ phase = "repairing"
                  \/ phase' \notin {"down", "starting", "recovering", "repairing", "rewriting"}
        PROVE  Alone'
    BY <1>3 DEF Alone
  <1>4. ASSUME phase' \notin {"down", "starting", "recovering", "repairing", "rewriting"}
        PROVE  Alone'
    BY <1>4 DEF Alone
  <1>5. ASSUME NEW j \in Job, BackupStep(j)
        PROVE  Alone'
    <2>1. job[j].stage # "idle"
      BY <1>5 DEF BackupStep, BeginPiece, EndPiece, SkipPiece, FailPiece, BeginArchive,
             EndArchive, FailCompression, RemoveDir, RemovedDir, Prune, EndBackup, Part, Database
    <2>2. phase \notin {"down", "starting", "repairing", "rewriting"}
      BY <2>1 DEF Alone, NoBackup
    <2>3. phase = "recovering" => j = "loop"
      BY <2>1 DEF Alone, NoBackup
    <2>4. \/ job' = [i \in Job |-> NoBackup]
          \/ /\ \A i \in Job \ {j} : job'[i] = job[i]
             /\ phase' = phase
          \/ /\ job' = [job EXCEPT ![j] = NoBackup]
             /\ phase = "recovering" /\ phase' \in {"repairing", "refused"}
      <3>1. \A path \in BOOLEAN : Returns(j, path) =>
               \/ job' = [i \in Job |-> NoBackup]
               \/ job' = [job EXCEPT ![j] = NoBackup] /\ phase' = phase
               \/ /\ job' = [job EXCEPT ![j] = NoBackup]
                  /\ phase = "recovering" /\ phase' \in {"repairing", "refused"}
        BY DEF Returns
      <3>2. \A stage : Advance(j, stage) => \A i \in Job \ {j} : job'[i] = job[i]
        BY <1>1 DEF Advance, CallTypes
      <3>3. ToPrune(j) => \A i \in Job \ {j} : job'[i] = job[i]
        BY <1>1 DEF ToPrune, CallTypes
      <3>4. job' = [job EXCEPT ![j] = NoBackup] => \A i \in Job \ {j} : job'[i] = job[i]
        BY <1>1 DEF CallTypes
      <3>5. Prune(j) => \A i \in Job \ {j} : job'[i] = job[i]
        BY <1>1 DEF Prune, CallTypes
      <3>. QED
        BY <1>5, <3>1, <3>2, <3>3, <3>4, <3>5 DEF BackupStep, BeginPiece, EndPiece, SkipPiece,
           FailPiece, BeginArchive, EndArchive, FailCompression, RemoveDir, RemovedDir, Prune,
           EndBackup
    <2>5. CASE job' = [i \in Job |-> NoBackup]
      BY <1>2, <2>5
    <2>6. CASE (\A i \in Job \ {j} : job'[i] = job[i]) /\ phase' = phase
      BY <2>2, <2>3, <2>6 DEF Alone
    <2>7. CASE /\ job' = [job EXCEPT ![j] = NoBackup]
               /\ phase = "recovering" /\ phase' \in {"repairing", "refused"}
      BY <1>1, <2>3, <2>7 DEF Alone, CallTypes
    <2>. QED
      BY <2>4, <2>5, <2>6, <2>7
  <1>6. CASE Validate
    <2>1. ASSUME phase' = "recovering", Begins("loop")
          PROVE  Alone'
      BY <1>1, <1>6, <2>1 DEF Validate, Begins, Alone, CallTypes, Job
    <2>. QED
      BY <1>4, <1>6, <2>1 DEF Validate
  <1>7. CASE UnlinkSqlite \/ RewriteSqlite \/ RepairChroma \/ FailRepair \/ OpenDatabase
    BY <1>3, <1>7 DEF UnlinkSqlite, RewriteSqlite, RepairChroma, FailRepair, OpenDatabase
  <1>8. CASE StartupBackup \/ ScheduledBackup \/ EndMain
    BY <1>4, <1>8 DEF StartupBackup, ScheduledBackup, EndMain
  <1>9. CASE Launch \/ Die \/ Damage \/ UNCHANGED vars
    BY <1>2, <1>3, <1>9 DEF Launch, Die, Damage, vars
  <1>10. CASE Terminate
    BY <1>2, <1>4, <1>10 DEF Terminate, Die, Protected
  <1>. QED
    BY <1>5, <1>6, <1>7, <1>8, <1>9, <1>10 DEF ProtectionNext, BotStep

(* Removing a path leaves what is whole of the others.                     *)
LEMMA EraseSpares ==
    ASSUME DiskTypes, NEW p \in Path, OnDisk(p), Erase(p), holds' = holds, NEW n \in Name
    PROVE  /\ <<n, "tar">> # p /\ ListedTar(n) => ListedTar(n)'
           /\ <<n, "dir">> # p /\ WholeDir(n) => WholeDir(n)'
  <1>1. /\ ToSet(paths) \ {p} \subseteq ToSet(paths')
        /\ \A m \in Name : <<m, "dir">> # p => dir'[m] = dir[m]
        /\ \A m \in Name : <<m, "tar">> # p => tar'[m] = tar[m]
    BY EraseIs
  <1>. QED
    BY <1>1 DEF ListedTar, WholeDir, OnDisk

LEMMA ProgressStep ==
    ASSUME DiskInv, BackedUp, phase = "recovering", BackupStep("loop")
    PROVE  BackedUp'
  <1>. DEFINE j == "loop"
              n == names
              b == job[j]
  <1>1. DiskTypes /\ CallTypes /\ j \in Job
    BY TypeParts DEF DiskInv, Job
  <1>2. b.stage # "idle" /\ b.name = n /\ Progress(b) /\ b \in Call
    BY <1>1 DEF BackedUp, CallTypes
  <1>3. n \in Name /\ <<n, "dir">> \in Path /\ <<n, "tar">> \in Path /\ <<n, "dir">> # <<n, "tar">>
    BY <1>1, <1>2, CallIs, PathIs
  <1>4. names' = names
    BY DEF BackupStep
  <1>5. ASSUME Returns(j, FALSE)
        PROVE  BackedUp'
    BY <1>5 DEF Returns, BackedUp
  <1>6. ASSUME NEW stage \in Stage \ {"idle"}, Advance(j, stage), phase' = phase,
               /\ stage \in Part => Copying(n)'
               /\ stage = "archive" => Archiving(n)'
               /\ stage = "remove" => Removing(n)'
               /\ stage # "prune"
        PROVE  BackedUp'
    <2>1. job'[j] = [b EXCEPT !.stage = stage]
      BY <1>1, <1>6 DEF Advance, CallTypes
    <2>2. job'[j].stage = stage /\ job'[j].name = n
      BY <1>2, <2>1 DEF Call
    <2>. QED
      BY <1>4, <1>6, <2>2 DEF BackedUp, Progress
  <1>7. ASSUME ToPrune(j), UNCHANGED <<phase, paths, dir, tar, holds>>,
               \/ ListedTar(n) /\ Near(paths, <<n, "tar">>)
               \/ WholeDir(n) /\ Near(paths, <<n, "dir">>)
        PROVE  BackedUp'
    <2>1. PICK q \in Doomed : job' = [job EXCEPT ![j].stage = "prune",
                                       ![j].doomed = [k \in DOMAIN q |-> paths[q[k]]]]
      BY <1>7 DEF ToPrune
    <2>. DEFINE doomed == [k \in DOMAIN q |-> paths[q[k]]]
    <2>2. \A p : Near(paths, p) => p \notin ToSet(doomed)
      BY <1>1, NearStays DEF DiskTypes
    <2>. HIDE DEF doomed
    <2>3. job' = [job EXCEPT ![j].stage = "prune", ![j].doomed = doomed]
      BY <2>1 DEF doomed
    <2>4. job'[j] = [b EXCEPT !.stage = "prune", !.doomed = doomed]
      BY <1>1, <2>3 DEF CallTypes
    <2>5. job'[j].stage = "prune" /\ job'[j].name = n /\ job'[j].doomed = doomed
      BY <1>2, <2>4 DEF Call
    <2>6. ListedTar(n)' = ListedTar(n) /\ WholeDir(n)' = WholeDir(n)
      BY <1>4, <1>7 DEF ListedTar, WholeDir, OnDisk
    <2>7. (ListedTar(n)' /\ <<n, "tar">> \notin ToSet(doomed))
          \/ (WholeDir(n)' /\ <<n, "dir">> \notin ToSet(doomed))
      BY <1>7, <2>2, <2>6
    <2>8. Pruning(n, job[j].doomed)'
      BY <1>4, <2>5, <2>7 DEF Pruning
    <2>. QED
      BY <1>4, <1>7, <2>5, <2>8 DEF BackedUp, Progress, Part, Database
  <1>8. ASSUME UNCHANGED <<dir, tar, holds, paths>>
        PROVE  /\ Copying(n)' = Copying(n) /\ Archiving(n)' = Archiving(n)
               /\ Removing(n)' = Removing(n) /\ WholeDir(n)' = WholeDir(n)
    BY <1>4, <1>8 DEF Copying, Archiving, Removing, WholeDir, OnDisk
  <1>9. \A p : Ends(paths, p) => OnDisk(p) /\ Near(paths, p)
    BY <1>1 DEF Ends, Near, OnDisk, ToSet, DiskTypes
  <1>10. \A p : Near(paths, p) => OnDisk(p)
    BY <1>1 DEF Near, OnDisk, ToSet, DiskTypes
  <1>11. CASE BeginPiece(j)
    <2>1. /\ dir' = [dir EXCEPT ![n][b.stage] = "torn"] /\ paths' = Touched(<<n, "dir">>)
          /\ UNCHANGED <<tar, holds, job, phase>> /\ b.stage \in Part /\ dir[n][b.stage] = "none"
      BY <1>2, <1>11 DEF BeginPiece
    <2>2. Copying(n)
      BY <1>2, <2>1 DEF Progress
    <2>3. Ends(paths', <<n, "dir">>)
      BY <1>1, <1>3, <2>1, TouchedLast DEF DiskTypes
    <2>4. \A part \in holds[n] : dir'[n][part] = "whole"
      BY <1>1, <1>3, <2>1, <2>2 DEF DiskTypes, Copying, Part
    <2>5. Copying(n)'
      BY <1>4, <2>1, <2>2, <2>3, <2>4 DEF Copying
    <2>. QED
      BY <1>2, <1>4, <2>1, <2>5 DEF BackedUp, Progress, Part, Database
  <1>12. CASE EndPiece(j)
    <2>1. /\ dir' = [dir EXCEPT ![n][b.stage] = "whole"]
          /\ holds' = [holds EXCEPT ![n] = @ \cup ({b.stage} \cap Database)]
          /\ UNCHANGED <<paths, tar, phase>> /\ Advance(j, NextStage(j, n)) /\ b.stage \in Part
      BY <1>2, <1>12 DEF EndPiece
    <2>2. Copying(n)
      BY <1>2, <2>1 DEF Progress
    <2>3. holds'[n] = holds[n] \cup ({b.stage} \cap Database) /\ holds'[n] \subseteq Part
      BY <1>1, <1>3, <2>1 DEF DiskTypes, Part
    <2>4. \A part \in Part : dir'[n][part] = IF part = b.stage THEN "whole" ELSE dir[n][part]
      BY <1>1, <1>3, <2>1 DEF DiskTypes
    <2>5. \A part \in holds'[n] : dir'[n][part] = "whole"
      BY <2>2, <2>3, <2>4 DEF Copying
    <2>6. Copying(n)'
      BY <1>4, <2>1, <2>2, <2>5 DEF Copying
    <2>7. NextStage(j, n) = "archive" => b.stage = "info"
      BY <2>1 DEF NextStage, Part, Database
    <2>8. NextStage(j, n) = "archive" => Archiving(n)'
      <3>1. NextStage(j, n) = "archive" => dir'[n]["info"] = "whole"
        BY <2>1, <2>4, <2>7
      <3>. QED
        BY <1>4, <1>9, <2>1, <2>2, <2>5, <3>1 DEF Archiving, WholeDir, Copying, OnDisk
    <2>9. NextStage(j, n) \in Stage \ {"idle"} /\ NextStage(j, n) \notin {"remove", "prune"}
      BY NextStageIs
    <2>. QED
      BY <1>6, <2>1, <2>6, <2>8, <2>9
  <1>13. CASE SkipPiece(j) \/ (FailPiece(j) /\ b.stage # "info")
    <2>1. /\ UNCHANGED <<phase, paths, dir, tar, holds>> /\ Advance(j, NextStage(j, n))
          /\ b.stage \in Database
      BY <1>2, <1>13 DEF SkipPiece, FailPiece, Absent, Part, Database
    <2>2. Copying(n)'
      BY <1>2, <1>8, <2>1 DEF Progress, Part
    <2>3. NextStage(j, n) \in {"chroma", "info"} /\ NextStage(j, n) \in Stage
      BY <2>1 DEF NextStage, Database, Stage, Part
    <2>. QED
      BY <1>6, <2>1, <2>2, <2>3
  <1>14. CASE FailPiece(j) /\ b.stage = "info"
    BY <1>5, <1>14 DEF FailPiece
  <1>15. CASE BeginArchive(j)
    <2>1. /\ tar' = [tar EXCEPT ![n] = "torn"] /\ paths' = Touched(<<n, "tar">>)
          /\ UNCHANGED <<dir, holds, job, phase>> /\ b.stage = "archive" /\ tar[n] = "none"
      BY <1>2, <1>15 DEF BeginArchive
    <2>2. WholeDir(n) /\ Ends(paths, <<n, "dir">>)
      BY <1>2, <2>1 DEF Progress, Archiving
    <2>3. Ends(paths', <<n, "tar">>) /\ Near(paths', <<n, "dir">>)
      BY <1>1, <1>3, <2>1, <2>2, TouchedLast DEF DiskTypes
    <2>4. tar'[n] = "torn"
      BY <1>1, <1>3, <2>1 DEF DiskTypes
    <2>5. WholeDir(n)'
      BY <1>1, <1>3, <1>4, <2>1, <2>2, TouchedIs DEF WholeDir, OnDisk, DiskTypes
    <2>6. Archiving(n)'
      BY <1>4, <2>3, <2>4, <2>5 DEF Archiving
    <2>. QED
      BY <1>2, <1>4, <2>1, <2>6 DEF BackedUp, Progress, Part, Database
  <1>16. CASE EndArchive(j)
    <2>1. /\ tar' = [tar EXCEPT ![n] = "whole"] /\ paths' = Touched(<<n, "tar">>)
          /\ phase' = phase /\ Advance(j, "remove")
      BY <1>2, <1>16 DEF EndArchive
    <2>2. Ends(paths', <<n, "tar">>)
      BY <1>1, <1>3, <2>1, TouchedLast DEF DiskTypes
    <2>3. tar'[n] = "whole"
      BY <1>1, <1>3, <2>1 DEF DiskTypes
    <2>4. Removing(n)'
      BY <1>4, <2>2, <2>3 DEF Removing
    <2>. QED
      BY <1>6, <2>1, <2>4 DEF Stage, Part, Database
  <1>17. CASE FailCompression(j)
    <2>1. /\ ToPrune(j) /\ UNCHANGED <<phase, paths, dir, tar, holds>>
          /\ b.stage \in {"archive", "remove"}
      BY <1>17 DEF FailCompression
    <2>2. CASE b.stage = "archive"
      <3>1. WholeDir(n) /\ Near(paths, <<n, "dir">>)
        BY <1>2, <1>9, <2>2 DEF Progress, Archiving
      <3>. QED
        BY <1>7, <2>1, <3>1
    <2>3. CASE b.stage = "remove"
      <3>1. ListedTar(n) /\ Near(paths, <<n, "tar">>)
        BY <1>2, <1>9, <1>10, <2>3 DEF Progress, Removing, ListedTar
      <3>. QED
        BY <1>7, <2>1, <3>1
    <2>. QED
      BY <2>1, <2>2, <2>3
  <1>18. CASE RemoveDir(j)
    <2>1. /\ Erase(<<n, "dir">>) /\ OnDisk(<<n, "dir">>) /\ UNCHANGED <<phase, job, holds>>
          /\ b.stage \in {"remove", "discard"}
      BY <1>2, <1>18 DEF RemoveDir
    <2>2. ASSUME b.stage = "remove"
          PROVE  Removing(n)'
      <3>1. /\ tar[n] = "whole"
            /\ Ends(paths, <<n, "tar">>) \/ (Ends(paths, <<n, "dir">>) /\ Near(paths, <<n, "tar">>))
        BY <1>2, <2>2 DEF Progress, Removing
      <3>2. tar' = tar /\ (paths' = Touched(<<n, "dir">>) \/ paths' = Without(<<n, "dir">>))
        BY <2>1 DEF Erase
      <3>3. \/ Ends(paths', <<n, "tar">>)
            \/ Ends(paths', <<n, "dir">>) /\ Near(paths', <<n, "tar">>)
        BY <1>1, <1>3, <3>1, <3>2, TouchedLast, WithoutLast DEF DiskTypes
      <3>. QED
        BY <1>4, <3>1, <3>2, <3>3 DEF Removing
    <2>. QED
      BY <1>2, <1>4, <2>1, <2>2 DEF BackedUp, Progress, Part, Database
  <1>19. CASE RemovedDir(j)
    <2>1. CASE b.stage = "remove"
      <3>1. ListedTar(n) /\ Near(paths, <<n, "tar">>)
        BY <1>2, <1>9, <1>10, <2>1 DEF Progress, Removing, ListedTar
      <3>. QED
        BY <1>7, <1>19, <2>1, <3>1 DEF RemovedDir
    <2>2. CASE b.stage # "remove"
      BY <1>5, <1>19, <2>2 DEF RemovedDir
    <2>. QED
      BY <2>1, <2>2
  <1>20. CASE Prune(j)
    <2>. DEFINE doomed == b.doomed
                p == Head(doomed)
    <2>1. /\ b.stage = "prune" /\ doomed # <<>> /\ OnDisk(p) /\ Erase(p)
          /\ job' = [job EXCEPT ![j].doomed = IF p \in ToSet(paths') THEN @ ELSE Tail(@)]
          /\ UNCHANGED <<phase, holds>>
      BY <1>20 DEF Prune
    <2>2. doomed \in Seq(Path) /\ Pruning(n, doomed)
      BY <1>2, <2>1 DEF Call, Progress
    <2>3. p \in Path /\ p \in ToSet(doomed) /\ ToSet(Tail(doomed)) \subseteq ToSet(doomed)
      BY <2>1, <2>2, HeadTailProperties DEF ToSet
    <2>4. \/ ListedTar(n)' /\ <<n, "tar">> \notin ToSet(doomed)
          \/ WholeDir(n)' /\ <<n, "dir">> \notin ToSet(doomed)
      <3>1. /\ <<n, "tar">> # p /\ ListedTar(n) => ListedTar(n)'
            /\ <<n, "dir">> # p /\ WholeDir(n) => WholeDir(n)'
        <4>1. PICK m \in Name, r \in Path : m = n /\ r = p
          BY <1>3, <2>3
        <4>2. OnDisk(r) /\ Erase(r)
          BY <2>1, <4>1
        <4>3. /\ <<m, "tar">> # r /\ ListedTar(m) => ListedTar(m)'
              /\ <<m, "dir">> # r /\ WholeDir(m) => WholeDir(m)'
          BY <1>1, <2>1, <4>2, EraseSpares
        <4>4. ListedTar(m)' = ListedTar(n)' /\ WholeDir(m)' = WholeDir(n)'
          BY <1>4, <4>1 DEF ListedTar, WholeDir, OnDisk
        <4>. QED
          BY <4>1, <4>3, <4>4
      <3>2. CASE ListedTar(n) /\ <<n, "tar">> \notin ToSet(doomed)
        <4>1. <<n, "tar">> # p
          BY <2>3, <3>2
        <4>. QED
          BY <3>1, <3>2, <4>1
      <3>3. CASE WholeDir(n) /\ <<n, "dir">> \notin ToSet(doomed)
        <4>1. <<n, "dir">> # p
          BY <2>3, <3>3
        <4>. QED
          BY <3>1, <3>3, <4>1
      <3>. QED
        BY <2>2, <3>2, <3>3 DEF Pruning
    <2>5. job'[j] = [b EXCEPT !.doomed = IF p \in ToSet(paths') THEN doomed ELSE Tail(doomed)]
      BY <1>1, <2>1 DEF CallTypes
    <2>6. /\ job'[j].stage = "prune" /\ job'[j].name = n
          /\ ToSet(job'[j].doomed) \subseteq ToSet(doomed)
      BY <1>2, <2>1, <2>3, <2>5 DEF Call
    <2>7. Pruning(n, job[j].doomed)'
      BY <1>4, <2>4, <2>6 DEF Pruning
    <2>. QED
      BY <1>4, <2>1, <2>6, <2>7 DEF BackedUp, Progress, Part, Database
  <1>21. CASE EndBackup(j)
    <2>1. Whole(n) /\ UNCHANGED <<paths, dir, tar, holds>> /\ Returns(j, TRUE)
      BY <1>2, <1>21 DEF EndBackup, Progress, Pruning, Whole
    <2>2. Whole(n)'
      BY <1>4, <2>1 DEF Whole, ListedTar, WholeDir, OnDisk
    <2>3. phase' = "repairing"
      BY <2>1 DEF Returns
    <2>. QED
      BY <1>4, <2>2, <2>3 DEF BackedUp
  <1>. QED
    BY <1>11, <1>12, <1>13, <1>14, <1>15, <1>16, <1>17, <1>18, <1>19, <1>20, <1>21 DEF BackupStep

LEMMA BackedUpNext ==
    ASSUME DiskInv, RepairInv, Alone, BackedUp, [ProtectionNext]_vars
    PROVE  BackedUp'
  <1>1. CallTypes
    BY TypeParts DEF DiskInv
  <1>2. ASSUME phase' \notin {"recovering", "repairing", "rewriting"}
        PROVE  BackedUp'
    BY <1>2 DEF BackedUp
  <1>3. ASSUME UNCHANGED <<paths, dir, tar, holds, names>>
        PROVE  Whole(names)' = Whole(names)
    BY <1>3 DEF Whole, ListedTar, WholeDir, OnDisk
  <1>4. ASSUME NEW j \in Job, BackupStep(j)
        PROVE  BackedUp'
    <2>1. job[j].stage # "idle"
      BY <1>4 DEF BackupStep, BeginPiece, EndPiece, SkipPiece, FailPiece, BeginArchive,
             EndArchive, FailCompression, RemoveDir, RemovedDir, Prune, EndBackup, Part, Database
    <2>2. CASE phase = "recovering"
      <3>1. j = "loop"
        BY <2>1, <2>2 DEF Alone, NoBackup
      <3>. QED
        BY <1>4, <2>2, <3>1, ProgressStep
    <2>3. CASE phase # "recovering"
      <3>1. phase \notin {"repairing", "rewriting"}
        BY <2>1 DEF Alone, NoBackup
      <3>2. phase' \in {phase, "down"}
        BY <1>4, <2>3, BackupKeepsFiles
      <3>. QED
        BY <1>2, <2>3, <3>1, <3>2
    <2>. QED
      BY <2>2, <2>3
  <1>5. CASE Validate
    <2>1. ASSUME phase' = "recovering", Begins("loop")
          PROVE  BackedUp'
      <3>1. "loop" \in Job
        BY DEF Job
      <3>2. Ends(paths', <<names', "dir">>) /\ names' \in Name /\ names' > names
        <4>1. CallTypes'
          BY <2>1, <3>1, BeginsTyped
        <4>2. names \in Nat /\ names' = names + 1 /\ names' \in 0..MaxNames
          BY <1>1, <2>1, <4>1 DEF Begins, CallTypes
        <4>3. names' \in Name /\ names' > names
          BY <4>2, ProtectionAssumption DEF Name
        <4>. QED
          BY <2>1, <3>1, <4>3, BeginsTyped
      <3>3. tar'[names'] = "none" /\ holds'[names'] = {}
        BY <2>1, <3>2 DEF Begins, DiskInv, FreshNames
      <3>4. Copying(names)'
        BY <3>2, <3>3 DEF Copying
      <3>5. job'["loop"] = [stage |-> "sqlite", name |-> names', doomed |-> <<>>]
        BY <1>1, <2>1, <3>1 DEF Begins, CallTypes
      <3>. QED
        BY <2>1, <3>4, <3>5 DEF BackedUp, Progress
    <2>. QED
      BY <1>2, <1>5, <2>1 DEF Validate
  <1>6. CASE UnlinkSqlite \/ RewriteSqlite \/ RepairChroma
    <2>1. /\ UNCHANGED <<paths, dir, tar, holds, names>> /\ phase \in {"repairing", "rewriting"}
          /\ phase' # "recovering"
      BY <1>6 DEF UnlinkSqlite, RewriteSqlite, RepairChroma
    <2>. QED
      BY <1>3, <2>1 DEF BackedUp
  <1>7. CASE FailRepair \/ OpenDatabase \/ StartupBackup \/ ScheduledBackup \/ EndMain \/ Launch \/ Die
    BY <1>2, <1>7 DEF FailRepair, OpenDatabase, StartupBackup, ScheduledBackup, EndMain, Launch, Die
  <1>8. CASE Terminate
    BY <1>2, <1>8 DEF Terminate, Die, Protected
  <1>9. CASE Damage
    BY <1>2, <1>9 DEF Damage
  <1>10. CASE UNCHANGED vars
    <2>1. UNCHANGED <<phase, paths, dir, tar, holds, names, job>>
      BY <1>10 DEF vars
    <2>2. Progress(job["loop"])' = Progress(job["loop"])
      BY <2>1 DEF Progress, Copying, Archiving, Removing, Pruning, ListedTar, WholeDir, OnDisk
    <2>. QED
      BY <1>3, <2>1, <2>2 DEF BackedUp
  <1>. QED
    BY <1>4, <1>5, <1>6, <1>7, <1>8, <1>9, <1>10 DEF ProtectionNext, BotStep

(* A step of the backup settles what it goes past.                         *)
LEMMA AccountedBackup ==
    ASSUME DiskInv, BackedUp, Accounted, phase = "recovering", BackupStep("loop")
    PROVE  Accounted'
  <1>. DEFINE j == "loop"
              n == names
              b == job[j]
  <1>1. DiskTypes /\ CallTypes /\ FailedTypes /\ j \in Job
    BY TypeParts DEF DiskInv, Job
  <1>2. b.stage # "idle" /\ b.name = n /\ b \in Call
    BY <1>1 DEF BackedUp, CallTypes
  <1>3. n \in Name
    BY <1>1, <1>2, CallIs
  <1>4. /\ names' = names /\ sqlite' = sqlite /\ chroma' = chroma
    BY DEF BackupStep
  <1>5. failed[n] \subseteq failed'[n]
    BY <1>1, <1>3, FailedNext DEF ProtectionNext, BotStep
  <1>6. holds[n] \subseteq holds'[n]
    <2>1. holds' = holds \/ EndPiece(j)
      BY DEF BackupStep, BeginPiece, EndPiece, SkipPiece, FailPiece, BeginArchive, EndArchive,
             FailCompression, RemoveDir, RemovedDir, Prune, EndBackup
    <2>2. CASE EndPiece(j)
      <3>1. holds' = [holds EXCEPT ![n] = @ \cup ({b.stage} \cap Database)]
        BY <1>2, <2>2 DEF EndPiece
      <3>. QED
        BY <1>1, <1>3, <3>1 DEF DiskTypes
    <2>. QED
      BY <2>1, <2>2
  <1>7. \A database \in Database : Settled(database) => Settled(database)'
    BY <1>4, <1>5, <1>6 DEF Settled, Absent
  <1>8. ASSUME NEW stage, Advance(j, stage)
        PROVE  job'[j].stage = stage
    <2>1. job'[j] = [b EXCEPT !.stage = stage]
      BY <1>1, <1>8 DEF Advance, CallTypes
    <2>. QED
      BY <1>2, <2>1 DEF Call
  <1>9. CASE b.stage \notin Database
    <2>1. Settled("sqlite")' /\ Settled("chroma")'
      BY <1>7, <1>9 DEF Accounted, Database
    <2>. QED
      BY <2>1 DEF Accounted
  <1>10. CASE b.stage \in Database
    <2>1. EndPiece(j) \/ SkipPiece(j) \/ FailPiece(j) \/ BeginPiece(j)
      BY <1>10 DEF BackupStep, BeginArchive, EndArchive, FailCompression, RemoveDir, RemovedDir,
                   Prune, EndBackup, Database
    <2>2. CASE BeginPiece(j)
      <3>1. job' = job /\ phase' = phase
        BY <2>2 DEF BeginPiece
      <3>. QED
        BY <1>7, <3>1 DEF Accounted, Database
    <2>3. CASE EndPiece(j) \/ SkipPiece(j) \/ FailPiece(j)
      <3>1. phase' = phase /\ Advance(j, NextStage(j, n))
        BY <1>2, <1>10, <2>3 DEF EndPiece, SkipPiece, FailPiece, Database
      <3>2. job'[j].stage = NextStage(j, n)
        BY <1>8, <3>1
      <3>3. \/ b.stage = "sqlite" /\ job'[j].stage = "chroma"
            \/ b.stage = "chroma" /\ job'[j].stage = "info"
        BY <1>10, <3>2 DEF NextStage, Database
      <3>4. ASSUME NEW database \in Database, b.stage = database
            PROVE  Settled(database)'
        <4>1. CASE EndPiece(j)
          <5>1. holds' = [holds EXCEPT ![n] = @ \cup ({b.stage} \cap Database)]
            BY <1>2, <4>1 DEF EndPiece
          <5>2. database \in holds'[n]
            BY <1>1, <1>3, <3>4, <5>1 DEF DiskTypes
          <5>. QED
            BY <1>4, <5>2 DEF Settled
        <4>2. CASE SkipPiece(j)
          BY <1>4, <3>4, <4>2 DEF SkipPiece, Settled, Absent
        <4>3. CASE FailPiece(j)
          <5>1. failed' = [failed EXCEPT ![n] = @ \cup ({b.stage} \cap Database)]
            BY <1>2, <4>3 DEF FailPiece
          <5>2. database \in failed'[n]
            BY <1>1, <1>3, <3>4, <5>1 DEF FailedTypes
          <5>. QED
            BY <1>4, <5>2 DEF Settled
        <4>. QED
          BY <2>3, <4>1, <4>2, <4>3
      <3>5. CASE b.stage = "sqlite"
        <4>1. Settled("sqlite")' /\ job'[j].stage = "chroma"
          BY <3>3, <3>4, <3>5 DEF Database
        <4>. QED
          BY <3>1, <4>1 DEF Accounted, Database
      <3>6. CASE b.stage = "chroma"
        <4>1. Settled("chroma")'
          BY <3>4, <3>6 DEF Database
        <4>2. Settled("sqlite")'
          BY <1>7, <3>6 DEF Accounted, Database
        <4>. QED
          BY <4>1, <4>2 DEF Accounted
      <3>. QED
        BY <3>3, <3>5, <3>6
    <2>. QED
      BY <2>1, <2>2, <2>3
  <1>. QED
    BY <1>9, <1>10

LEMMA AccountedNext ==
    ASSUME DiskInv, RepairInv, Alone, BackedUp, Accounted, [ProtectionNext]_vars
    PROVE  Accounted'
  <1>1. ASSUME phase' \notin {"recovering", "repairing"}
        PROVE  Accounted'
    BY <1>1 DEF Accounted
  <1>2. ASSUME NEW j \in Job, BackupStep(j)
        PROVE  Accounted'
    <2>1. job[j].stage # "idle"
      BY <1>2 DEF BackupStep, BeginPiece, EndPiece, SkipPiece, FailPiece, BeginArchive,
             EndArchive, FailCompression, RemoveDir, RemovedDir, Prune, EndBackup, Part, Database
    <2>2. CASE phase = "recovering"
      <3>1. j = "loop"
        BY <2>1, <2>2 DEF Alone, NoBackup
      <3>. QED
        BY <1>2, <2>2, <3>1, AccountedBackup
    <2>3. CASE phase # "recovering"
      <3>1. phase \notin {"repairing"}
        BY <2>1 DEF Alone, NoBackup
      <3>2. phase' \in {phase, "down"}
        BY <1>2, <2>3, BackupKeepsFiles
      <3>. QED
        BY <1>1, <2>3, <3>1, <3>2
    <2>. QED
      BY <2>2, <2>3
  <1>3. CASE Validate
    <2>1. ASSUME phase' = "recovering", Begins("loop")
          PROVE  Accounted'
      <3>1. CallTypes /\ "loop" \in Job
        BY TypeParts DEF DiskInv, Job
      <3>2. job'["loop"].stage = "sqlite"
        BY <2>1, <3>1 DEF Begins, CallTypes
      <3>. QED
        BY <2>1, <3>2 DEF Accounted, Database
    <2>. QED
      BY <1>1, <1>3, <2>1 DEF Validate
  <1>4. CASE RepairChroma
    <2>1. /\ chroma # "none" /\ UNCHANGED <<sqlite, holds, failed, names>> /\ phase = "repairing"
          /\ phase' # "recovering"
      BY <1>4 DEF RepairChroma
    <2>. QED
      BY <2>1 DEF Accounted, Settled, Absent
  <1>5. CASE UnlinkSqlite \/ FailRepair \/ OpenDatabase \/ StartupBackup \/ ScheduledBackup
             \/ EndMain \/ Launch \/ Die \/ Damage
    BY <1>1, <1>5 DEF UnlinkSqlite, FailRepair, OpenDatabase, StartupBackup, ScheduledBackup,
                      EndMain, Launch, Die, Damage
  <1>6. CASE RewriteSqlite \/ Terminate
    BY <1>1, <1>6 DEF RewriteSqlite, Terminate, Die, Protected
  <1>7. CASE UNCHANGED vars
    BY <1>7 DEF vars, Accounted, Settled, Absent
  <1>. QED
    BY <1>2, <1>3, <1>4, <1>5, <1>6, <1>7 DEF ProtectionNext, BotStep

LEMMA ProtectionInvNext == ProtectionInv /\ [ProtectionNext]_vars => ProtectionInv'
  BY RepairStep, DiskNext, AloneNext, BackedUpNext, AccountedNext DEF ProtectionInv

(* A repair changes only databases that are there: they have been settled. *)
LEMMA RepairOfSettled ==
    ASSUME ProtectionInv
    PROVE  [phase = "repairing" =>
              /\ sqlite' # sqlite => Copied(names, "sqlite") \/ "sqlite" \in failed[names]
              /\ chroma' # chroma => Copied(names, "chroma") \/ "chroma" \in failed[names]]_vars
  <1>1. phase = "repairing" => Whole(names) /\ Settled("sqlite") /\ Settled("chroma")
    BY DEF ProtectionInv, BackedUp, Accounted
  <1>2. phase = "repairing" => ~Absent("sqlite") /\ ~Absent("chroma")
    BY DEF ProtectionInv, RepairInv, OneToRepair, Absent
  <1>. QED
    BY <1>1, <1>2 DEF Settled, Copied

(* A repair removes a database only when the backup made for it has that   *)
(* database in full, or has noted that it could not be copied, however     *)
(* many backups there were, and whatever failed while it was made.         *)
THEOREM RepairsWhatIsBackedUp == ProtectionSpec => BackedUpBeforeRepair
  <1>1. Init => ProtectionInv
    <2>1. Init => RepairInv /\ Alone /\ BackedUp /\ Accounted
      BY DEF Init, InitDisk, RepairInv, FilesOK, OneToRepair, Alone, BackedUp, Accounted
    <2>. QED
      BY <2>1, DiskInit DEF Init, ProtectionInv
  <1>. QED
    BY <1>1, RepairOfSettled, ProtectionInvNext, PTL DEF ProtectionSpec, BackedUpBeforeRepair

-----------------------------------------------------------------------------
(* The backups begun last *)

(* The second path was changed after the first one.                        *)
Before(ps, p, q) == \E k, l \in DOMAIN ps : k < l /\ ps[k] = p /\ ps[l] = q

(* Removing a path brings no other one forward, ...                        *)
LEMMA WithoutBefore ==
    ASSUME paths \in Seq(Path), NEW r, NEW p, NEW q, Before(Without(r), p, q)
    PROVE  Before(paths, p, q)
  <1>1. CASE ~OnDisk(r)
    BY <1>1 DEF Without
  <1>2. CASE OnDisk(r)
    <2>. DEFINE w == Without(r)
    <2>1. PICK k \in 1..Len(paths) :
             /\ paths[k] = r
             /\ w \in Seq(Path) /\ Len(w) = Len(paths) - 1
             /\ \A i \in 1..(Len(paths) - 1) :
                   w[i] = IF i < k THEN paths[i] ELSE paths[i + 1]
      BY <1>2, WithoutAt
    <2>2. PICK a, b \in DOMAIN w : a < b /\ w[a] = p /\ w[b] = q
      BY DEF Before
    <2>. HIDE DEF w
    <2>. DEFINE at(i) == IF i < k THEN i ELSE i + 1
    <2>3. a \in 1..(Len(paths) - 1) /\ b \in 1..(Len(paths) - 1)
      BY <2>1, <2>2
    <2>4. /\ at(a) \in 1..Len(paths) /\ at(b) \in 1..Len(paths) /\ at(a) < at(b)
          /\ paths[at(a)] = p /\ paths[at(b)] = q
      BY <2>1, <2>2, <2>3
    <2>. HIDE DEF at
    <2>. QED
      BY <2>4 DEF Before
  <1>. QED
    BY <1>1, <1>2

(* ... one that is appended comes after all of them, ...                   *)
LEMMA AppendedBefore ==
    ASSUME NEW s \in Seq(Path), NEW r \in Path, NEW p, NEW q, Before(Append(s, r), p, q)
    PROVE  Before(s, p, q) \/ q = r
  <1>1. /\ Len(Append(s, r)) = Len(s) + 1 /\ Append(s, r)[Len(s) + 1] = r
        /\ \A i \in 1..Len(s) : Append(s, r)[i] = s[i]
        /\ DOMAIN Append(s, r) = 1..(Len(s) + 1) /\ DOMAIN s = 1..Len(s) /\ Len(s) \in Nat
    BY AppendProperties
  <1>2. PICK k, l \in DOMAIN Append(s, r) :
           k < l /\ Append(s, r)[k] = p /\ Append(s, r)[l] = q
    BY DEF Before
  <1>3. CASE l = Len(s) + 1
    BY <1>1, <1>2, <1>3
  <1>4. CASE l # Len(s) + 1
    <2>1. k \in 1..Len(s) /\ l \in 1..Len(s)
      BY <1>1, <1>2, <1>4
    <2>. QED
      BY <1>1, <1>2, <2>1 DEF Before
  <1>. QED
    BY <1>3, <1>4

(* ... and one that is changed is the only one that can come after more.   *)
LEMMA TouchedBefore ==
    ASSUME paths \in Seq(Path), IsInjective(paths), NEW r \in Path, NEW p, NEW q,
           Before(Touched(r), p, q)
    PROVE  Before(paths, p, q) \/ q = r
  <1>1. Without(r) \in Seq(Path)
    BY WithoutIs
  <1>2. Before(Without(r), p, q) \/ q = r
    BY <1>1, AppendedBefore DEF Touched
  <1>. QED
    BY <1>2, WithoutBefore

Active(i) == job[i].stage # "idle"

(* The calls of create_backup that can change a path after backup n was    *)
(* begun: some, and those begun since.                                     *)
Calls(n, some) == some \cup (n..names)

(* What was changed after a path of backup n is a path of one of these     *)
(* calls, or the directory its clean-up was removing.                      *)
Company(n, some, debris) ==
    /\ some \in SUBSET Name /\ Cardinality(some) <= 2
    /\ \A i \in Job : Active(i) => job[i].name \in Calls(n, some)
    /\ \A p, q \in Path : p[1] = n /\ Before(paths, p, q) =>
          q[1] \in Calls(n, some) \/ \E c \in Calls(n, some) : q = debris[c]

(* The directory that the clean-up of each call is removing, or was when   *)
(* it was cut off; until there is one, the call's own stands for it.       *)
Debris(debris) ==
    /\ debris \in [Name -> Path]
    /\ \A c \in Name : /\ debris[c][2] = "dir"
                       /\ c > names => debris[c] = <<c, "dir">>
                       /\ c <= names => debris[c][1] <= names
    /\ \A i \in Job : Active(i) =>
          \/ debris[job[i].name] = <<job[i].name, "dir">>
          \/ ~OnDisk(debris[job[i].name])
          \/ /\ job[i].stage = "prune" /\ job[i].doomed # <<>>
             /\ debris[job[i].name] = Head(job[i].doomed)

CrowdInv ==
    /\ \A i, j \in Job : Active(i) /\ Active(j) /\ job[i].name = job[j].name => i = j
    /\ \A i \in Job : \A p \in ToSet(job[i].doomed) : p[1] <= names
    /\ \E debris : /\ Debris(debris)
                   /\ \A n \in 1..names : \E some : Company(n, some, debris)

(* A clean-up that lists the directory now removes this path.              *)
Goes(p) == \E q \in Doomed : \E k \in DOMAIN q : p = paths[q[k]]

LEMMA GoesIs ==
    ASSUME DiskTypes, NEW p, Goes(p)
    PROVE  OnDisk(p)
  <1>1. PICK q \in Doomed : \E k \in DOMAIN q : p = paths[q[k]]
    BY DEF Goes
  <1>2. q \in Seq(1..Len(paths))
    BY DoomedIs DEF DiskTypes
  <1>3. \A k \in DOMAIN q : q[k] \in DOMAIN paths
    BY <1>2 DEF DiskTypes
  <1>. QED
    BY <1>1, <1>3 DEF OnDisk, ToSet

(* A step that begins no backup and cleans up none.                        *)
Quiet ==
    /\ names' = names
    /\ \A i \in Job : job'[i].stage # "idle" =>
          /\ Active(i) /\ job'[i].name = job[i].name
          /\ job[i].stage = "prune" => job'[i] = job[i]
    /\ \A i \in Job : \A p \in ToSet(job'[i].doomed) :
          p \in ToSet(job[i].doomed) \/ Goes(p)
    /\ \A p, q : Before(paths', p, q) =>
          Before(paths, p, q) \/ \E i \in Job : Active(i) /\ q[1] = job[i].name
    /\ \A p \in ToSet(paths') : p[2] = "dir" => OnDisk(p)

LEMMA CrowdQuiet ==
    ASSUME DiskInv, CrowdInv, Quiet
    PROVE  CrowdInv'
  <1>1. DiskTypes /\ CallTypes /\ FreshNames
    BY TypeParts DEF DiskInv
  <1>2. \A i, j \in Job : (Active(i) /\ Active(j) /\ job[i].name = job[j].name)' => i = j
    BY DEF CrowdInv, Quiet, Active
  <1>3. \A i \in Job : \A p \in ToSet(job'[i].doomed) : p[1] <= names'
    <2>1. \A p \in Path : OnDisk(p) => p[1] <= names
      <3>1. ASSUME NEW p \in Path, OnDisk(p), ~(p[1] <= names)
            PROVE  FALSE
        <4>1. PICK m \in Name, k \in {"dir", "tar"} : p = <<m, k>>
          BY DEF Path
        <4>2. m > names
          BY <1>1, <3>1, <4>1 DEF CallTypes, Name
        <4>. QED
          BY <1>1, <3>1, <4>1, <4>2 DEF FreshNames
      <3>. QED
        BY <3>1
    <2>2. \A p : OnDisk(p) => p \in Path
      BY <1>1 DEF OnDisk, DiskTypes, ToSet
    <2>. QED
      BY <1>1, <2>1, <2>2, GoesIs DEF CrowdInv, Quiet
  <1>4. PICK debris : /\ Debris(debris)
                      /\ \A n \in 1..names : \E some : Company(n, some, debris)
    BY DEF CrowdInv
  <1>5. Debris(debris)'
    <2>1. ASSUME NEW i \in Job, job'[i].stage # "idle"
          PROVE  \/ debris[job'[i].name] = <<job'[i].name, "dir">>
                 \/ debris[job'[i].name] \notin ToSet(paths')
                 \/ /\ job'[i].stage = "prune" /\ job'[i].doomed # <<>>
                    /\ debris[job'[i].name] = Head(job'[i].doomed)
      <3>1. /\ Active(i) /\ job'[i].name = job[i].name
            /\ job[i].stage = "prune" => job'[i] = job[i]
        BY <2>1 DEF Quiet
      <3>2. PICK c \in Name : c = job[i].name
        BY <1>1, <3>1, CallIs DEF Active
      <3>3. debris[c] \notin ToSet(paths) => debris[c] \notin ToSet(paths')
        BY <1>4 DEF Debris, Quiet, OnDisk
      <3>4. \/ debris[c] = <<c, "dir">>
            \/ debris[c] \notin ToSet(paths)
            \/ /\ job[i].stage = "prune" /\ job[i].doomed # <<>>
               /\ debris[c] = Head(job[i].doomed)
        BY <1>4, <3>1, <3>2 DEF Debris, OnDisk
      <3>. QED
        BY <3>1, <3>2, <3>3, <3>4
    <2>2. names' = names
      BY DEF Quiet
    <2>. QED
      BY <1>4, <2>1, <2>2 DEF Debris, Active, OnDisk
  <1>6. ASSUME NEW n \in 1..names
        PROVE  \E some : Company(n, some, debris)'
    <2>1. PICK some : Company(n, some, debris)
      BY <1>4
    <2>2. Calls(n, some)' = Calls(n, some)
      BY DEF Calls, Quiet
    <2>3. \A i \in Job : job'[i].stage # "idle" => job'[i].name \in Calls(n, some)
      BY <2>1 DEF Company, Quiet
    <2>4. ASSUME NEW p \in Path, NEW q \in Path, p[1] = n, Before(paths', p, q)
          PROVE  q[1] \in Calls(n, some) \/ \E c \in Calls(n, some) : q = debris[c]
      <3>1. Before(paths, p, q) \/ \E i \in Job : Active(i) /\ q[1] = job[i].name
        BY <2>4 DEF Quiet
      <3>. QED
        BY <2>1, <2>4, <3>1 DEF Company
    <2>. QED
      BY <2>1, <2>2, <2>3, <2>4 DEF Company, Active, Before
  <1>7. names' = names
    BY DEF Quiet
  <1>. QED
    BY <1>2, <1>3, <1>5, <1>6, <1>7 DEF CrowdInv

(* A step of a clean-up makes the directory it removes its debris.         *)
LEMMA CrowdPrune ==
    ASSUME DiskInv, CrowdInv, NEW j \in Job, Prune(j), names' = names
    PROVE  CrowdInv'
  <1>1. DiskTypes /\ CallTypes /\ FreshNames
    BY TypeParts DEF DiskInv
  <1>2. /\ job[j].stage = "prune" /\ Active(j) /\ job[j].doomed \in Seq(Path)
        /\ job[j].doomed # <<>> /\ OnDisk(Head(job[j].doomed)) /\ Erase(Head(job[j].doomed))
        /\ job' = [job EXCEPT ![j].doomed =
                      IF Head(job[j].doomed) \in ToSet(paths') THEN @ ELSE Tail(@)]
    BY <1>1 DEF Prune, CallTypes, Call, Active
  <1>3. PICK c \in Name : c = job[j].name
    BY <1>1, <1>2, CallIs DEF Active
  <1>4. /\ Head(job[j].doomed) \in Path /\ Head(job[j].doomed) \in ToSet(job[j].doomed)
        /\ ToSet(Tail(job[j].doomed)) \subseteq ToSet(job[j].doomed)
    BY <1>2, HeadTailProperties DEF ToSet
  <1>5. PICK h \in Path : h = Head(job[j].doomed)
    BY <1>4
  <1>6. /\ h[1] \in Name /\ h[1] <= names /\ OnDisk(h)
        /\ ToSet(paths') \subseteq ToSet(paths)
        /\ paths' = Without(h) \/ (h[2] = "dir" /\ paths' = Touched(h))
    BY <1>1, <1>2, <1>4, <1>5, EraseIs DEF CrowdInv, Erase
  <1>7. /\ \A i \in Job \ {j} : job'[i] = job[i]
        /\ job'[j] = [job[j] EXCEPT !.doomed =
                         IF h \in ToSet(paths') THEN job[j].doomed ELSE Tail(job[j].doomed)]
    BY <1>1, <1>2, <1>5 DEF CallTypes
  <1>8. /\ job'[j].stage = "prune" /\ job'[j].name = c
        /\ job'[j].doomed = IF h \in ToSet(paths') THEN job[j].doomed ELSE Tail(job[j].doomed)
    BY <1>1, <1>2, <1>3, <1>7 DEF CallTypes, Call
  <1>9. \A i \in Job : job'[i].stage = job[i].stage /\ job'[i].name = job[i].name
    BY <1>2, <1>3, <1>7, <1>8
  <1>10. \A i, k \in Job : (Active(i) /\ Active(k) /\ job[i].name = job[k].name)' => i = k
    BY <1>9 DEF CrowdInv, Active
  <1>11. \A i \in Job : \A p \in ToSet(job'[i].doomed) : p[1] <= names'
    BY <1>4, <1>7, <1>8 DEF CrowdInv
  <1>12. PICK debris : /\ Debris(debris)
                       /\ \A n \in 1..names : \E some : Company(n, some, debris)
    BY DEF CrowdInv
  <1>13. \A i \in Job : Active(i) => job[i].name \in Name
    BY <1>1, CallIs DEF Active
  <1>14. \A n, some : Calls(n, some)' = Calls(n, some)
    BY DEF Calls
  <1>15. CASE paths' = Without(h)
    <2>1. h \notin ToSet(paths')
      BY <1>1, <1>15, WithoutIs DEF DiskTypes
    <2>2. ASSUME NEW i \in Job, job'[i].stage # "idle"
          PROVE  \/ debris[job'[i].name] = <<job'[i].name, "dir">>
                 \/ debris[job'[i].name] \notin ToSet(paths')
                 \/ /\ job'[i].stage = "prune" /\ job'[i].doomed # <<>>
                    /\ debris[job'[i].name] = Head(job'[i].doomed)
      <3>1. PICK d \in Name : d = job[i].name /\ d = job'[i].name
        BY <1>9, <1>13, <2>2 DEF Active
      <3>2. \/ debris[d] = <<d, "dir">>
            \/ debris[d] \notin ToSet(paths)
            \/ /\ job[i].stage = "prune" /\ job[i].doomed # <<>>
               /\ debris[d] = Head(job[i].doomed)
        BY <1>9, <1>12, <2>2, <3>1 DEF Debris, OnDisk, Active
      <3>3. CASE i = j
        BY <1>5, <1>6, <2>1, <3>1, <3>2, <3>3
      <3>4. CASE i # j
        BY <1>6, <1>7, <3>1, <3>2, <3>4
      <3>. QED
        BY <3>3, <3>4
    <2>3. Debris(debris)'
      BY <1>12, <2>2 DEF Debris, Active, OnDisk
    <2>4. ASSUME NEW n \in 1..names
          PROVE  \E some : Company(n, some, debris)'
      <3>1. PICK some : Company(n, some, debris)
        BY <1>12
      <3>2. \A p, q : Before(paths', p, q) => Before(paths, p, q)
        BY <1>1, <1>15, WithoutBefore DEF DiskTypes
      <3>. QED
        BY <1>9, <1>14, <3>1, <3>2 DEF Company, Active
    <2>. QED
      BY <1>10, <1>11, <2>3, <2>4 DEF CrowdInv
  <1>16. CASE h[2] = "dir" /\ paths' = Touched(h)
    <2>. DEFINE now == [debris EXCEPT ![c] = h]
    <2>1. /\ now \in [Name -> Path] /\ now[c] = h
          /\ \A d \in Name : d # c => now[d] = debris[d]
      BY <1>12 DEF Debris
    <2>2. c <= names
      BY <1>1, <1>2, <1>3, CallIs DEF Active
    <2>. HIDE DEF now
    <2>3. h \in ToSet(paths')
      BY <1>1, <1>16, TouchedIs DEF DiskTypes
    <2>4. ASSUME NEW i \in Job, job'[i].stage # "idle"
          PROVE  \/ now[job'[i].name] = <<job'[i].name, "dir">>
                 \/ now[job'[i].name] \notin ToSet(paths')
                 \/ /\ job'[i].stage = "prune" /\ job'[i].doomed # <<>>
                    /\ now[job'[i].name] = Head(job'[i].doomed)
      <3>1. PICK d \in Name : d = job[i].name /\ d = job'[i].name
        BY <1>9, <1>13, <2>4 DEF Active
      <3>2. CASE i = j
        BY <1>2, <1>5, <1>8, <2>1, <2>3, <3>2
      <3>3. CASE i # j
        <4>1. d # c
          BY <1>2, <1>3, <1>9, <2>4, <3>1, <3>3 DEF CrowdInv, Active
        <4>2. \/ debris[d] = <<d, "dir">>
              \/ debris[d] \notin ToSet(paths)
              \/ /\ job[i].stage = "prune" /\ job[i].doomed # <<>>
                 /\ debris[d] = Head(job[i].doomed)
          BY <1>9, <1>12, <2>4, <3>1 DEF Debris, OnDisk, Active
        <4>. QED
          BY <1>6, <1>7, <2>1, <3>1, <3>3, <4>1, <4>2
      <3>. QED
        BY <3>2, <3>3
    <2>5. \A d \in Name : /\ now[d][2] = "dir"
                          /\ d > names => now[d] = <<d, "dir">>
                          /\ d <= names => now[d][1] <= names
      <3>1. \A d \in Name : d # c =>
               /\ now[d][2] = "dir"
               /\ d > names => now[d] = <<d, "dir">>
               /\ d <= names => now[d][1] <= names
        BY <1>12, <2>1 DEF Debris
      <3>2. ~(c > names)
        BY <1>1, <2>2 DEF CallTypes, Name
      <3>. QED
        BY <1>6, <1>16, <2>1, <3>1, <3>2
    <2>6. Debris(now)'
      BY <2>1, <2>4, <2>5 DEF Debris, Active, OnDisk
    <2>7. ASSUME NEW n \in 1..names
          PROVE  \E some : Company(n, some, now)'
      <3>1. PICK some : Company(n, some, debris)
        BY <1>12
      <3>2. c \in Calls(n, some) /\ Calls(n, some) \subseteq Name
        BY <1>1, <1>2, <1>3, <3>1, ProtectionAssumption DEF Company, Calls, CallTypes, Name
      <3>3. ASSUME NEW p \in Path, NEW q \in Path, p[1] = n, Before(paths', p, q)
            PROVE  q[1] \in Calls(n, some) \/ \E d \in Calls(n, some) : q = now[d]
        <4>1. Before(paths, p, q) \/ q = h
          BY <1>1, <1>16, <3>3, TouchedBefore DEF DiskTypes
        <4>2. CASE q = h
          BY <2>1, <3>2, <4>2
        <4>3. CASE Before(paths, p, q)
          <5>1. q[1] \in Calls(n, some) \/ \E d \in Calls(n, some) : q = debris[d]
            BY <3>1, <3>3, <4>3 DEF Company
          <5>2. OnDisk(q)
            BY <4>3 DEF Before, OnDisk, ToSet
          <5>3. q = debris[c] => q = <<c, "dir">> \/ q = h
            BY <1>2, <1>3, <1>5, <1>12, <5>2 DEF Debris
          <5>4. <<c, "dir">>[1] = c
            OBVIOUS
          <5>. QED
            BY <2>1, <3>2, <5>1, <5>3, <5>4
        <4>. QED
          BY <4>1, <4>2, <4>3
      <3>. QED
        BY <1>9, <1>14, <3>1, <3>3 DEF Company, Active
    <2>. QED
      BY <1>10, <1>11, <2>6, <2>7 DEF CrowdInv
  <1>. QED
    BY <1>6, <1>15, <1>16

(* A backup that begins comes after everything, beside the calls that are  *)
(* under way.                                                              *)
LEMMA CrowdBegins ==
    ASSUME DiskInv, CrowdInv, NEW j \in Job, Begins(j)
    PROVE  CrowdInv'
  <1>1. DiskTypes /\ CallTypes /\ FreshNames
    BY TypeParts DEF DiskInv
  <1>2. /\ names \in Nat /\ names' = names + 1 /\ names + 1 \in Name
        /\ paths' = Append(paths, <<names + 1, "dir">>)
        /\ job[j] = NoBackup
    BY <1>1, ProtectionAssumption DEF Begins, CallTypes, Name
  <1>3. /\ \A i \in Job \ {j} : job'[i] = job[i]
        /\ job'[j] = [stage |-> "sqlite", name |-> names + 1, doomed |-> <<>>]
    BY <1>1 DEF Begins, CallTypes
  <1>4. PICK next \in Name :
           next = names + 1 /\ ~OnDisk(<<next, "dir">>) /\ ~OnDisk(<<next, "tar">>)
    <2>1. \A m \in Name : m > names => ~OnDisk(<<m, "dir">>) /\ ~OnDisk(<<m, "tar">>)
      BY <1>1 DEF FreshNames
    <2>2. names + 1 > names
      BY <1>2
    <2>. QED
      BY <1>2, <2>1, <2>2
  <1>5. \A i \in Job : Active(i) => job[i].name \in Name /\ job[i].name <= names /\ i # j
    <2>1. ~Active(j)
      BY <1>2 DEF Active, NoBackup
    <2>. QED
      BY <1>1, <2>1, CallIs DEF Active
  <1>6. \A i, k \in Job : (Active(i) /\ Active(k) /\ job[i].name = job[k].name)' => i = k
    BY <1>2, <1>3, <1>5 DEF CrowdInv, Active
  <1>7. \A i \in Job : \A p \in ToSet(job'[i].doomed) : p[1] <= names'
    <2>1. ToSet(<<>>) = {}
      BY DEF ToSet
    <2>2. \A i \in Job : \A p \in ToSet(job[i].doomed) : p \in Path /\ p[1] <= names
      BY <1>1 DEF CrowdInv, CallTypes, Call, ToSet
    <2>3. \A p \in Path : p[1] <= names => p[1] <= names + 1
      BY <1>2 DEF Path, Name
    <2>. QED
      BY <1>2, <1>3, <2>1, <2>2, <2>3
  <1>8. PICK debris : /\ Debris(debris)
                      /\ \A n \in 1..names : \E some : Company(n, some, debris)
    BY DEF CrowdInv
  <1>9. \A p, q \in Path : Before(paths', p, q) => Before(paths, p, q) \/ q = <<next, "dir">>
    <2>1. <<next, "dir">> \in Path
      BY <1>4, PathIs
    <2>. QED
      BY <1>1, <1>2, <1>4, <2>1, AppendedBefore DEF DiskTypes
  <1>10. ToSet(paths') = ToSet(paths) \cup {<<next, "dir">>}
    <2>1. <<next, "dir">> \in Path /\ <<next, "dir">> \notin ToSet(paths)
      BY <1>4, PathIs DEF OnDisk
    <2>. QED
      BY <1>1, <1>2, <1>4, <2>1, AppendedIs DEF DiskTypes
  <1>11. Debris(debris)'
    <2>1. ASSUME NEW i \in Job, job'[i].stage # "idle"
          PROVE  \/ debris[job'[i].name] = <<job'[i].name, "dir">>
                 \/ debris[job'[i].name] \notin ToSet(paths')
                 \/ /\ job'[i].stage = "prune" /\ job'[i].doomed # <<>>
                    /\ debris[job'[i].name] = Head(job'[i].doomed)
      <3>1. CASE i = j
        BY <1>2, <1>3, <1>4, <1>8, <3>1 DEF Debris
      <3>2. CASE i # j
        <4>1. PICK d \in Name : d = job[i].name /\ d = job'[i].name /\ d <= names
          BY <1>3, <1>5, <2>1, <3>2 DEF Active
        <4>2. \/ debris[d] = <<d, "dir">>
              \/ debris[d] \notin ToSet(paths)
              \/ /\ job[i].stage = "prune" /\ job[i].doomed # <<>>
                 /\ debris[d] = Head(job[i].doomed)
          BY <1>3, <1>8, <2>1, <3>2, <4>1 DEF Debris, OnDisk, Active
        <4>3. debris[d] # <<next, "dir">>
          <5>1. debris[d][1] <= names /\ <<next, "dir">>[1] = next
            BY <1>8, <4>1 DEF Debris
          <5>. QED
            BY <1>2, <1>4, <5>1
        <4>. QED
          BY <1>3, <1>10, <3>2, <4>1, <4>2, <4>3
      <3>. QED
        BY <3>1, <3>2
    <2>2. ASSUME NEW d \in Name
          PROVE  /\ debris[d][2] = "dir"
                 /\ d > names + 1 => debris[d] = <<d, "dir">>
                 /\ d <= names + 1 => debris[d][1] <= names + 1
      <3>1. /\ debris[d][2] = "dir"
            /\ d > names => debris[d] = <<d, "dir">>
            /\ d <= names => debris[d][1] <= names
        BY <1>8 DEF Debris
      <3>2. debris[d][1] \in Nat /\ d \in Nat
        BY <1>8 DEF Debris, Path, Name
      <3>3. CASE d <= names
        BY <1>2, <3>1, <3>2, <3>3
      <3>4. CASE d > names
        <4>1. debris[d][1] = d
          BY <3>1, <3>4
        <4>. QED
          BY <1>2, <3>1, <3>2, <3>4, <4>1
      <3>. QED
        BY <1>2, <3>2, <3>3, <3>4
    <2>. QED
      BY <1>2, <1>8, <2>1, <2>2 DEF Debris, Active, OnDisk
  <1>12. ASSUME NEW n \in 1..names
         PROVE  \E some : Company(n, some, debris)'
    <2>1. PICK some : Company(n, some, debris)
      BY <1>8
    <2>2. Calls(n, some) \subseteq Calls(n, some)' /\ next \in Calls(n, some)'
      BY <1>2, <1>4 DEF Calls
    <2>3. \A i \in Job : job'[i].stage # "idle" => job'[i].name \in Calls(n, some)'
      BY <1>3, <1>4, <2>1, <2>2 DEF Company, Active
    <2>4. ASSUME NEW p \in Path, NEW q \in Path, p[1] = n, Before(paths', p, q)
          PROVE  q[1] \in Calls(n, some)' \/ \E c \in Calls(n, some)' : q = debris[c]
      <3>1. CASE Before(paths, p, q)
        BY <2>1, <2>2, <2>4, <3>1 DEF Company
      <3>2. CASE q = <<next, "dir">>
        BY <2>2, <3>2
      <3>. QED
        BY <1>9, <2>4, <3>1, <3>2
    <2>. QED
      BY <2>1, <2>3, <2>4 DEF Company, Active
  <1>13. \E some : Company(next, some, debris)'
    <2>1. PICK a, b : Job = {j, a, b}
      BY DEF Job
    <2>. DEFINE some == {m \in Name : \E i \in Job \ {j} : Active(i) /\ m = job[i].name}
    <2>2. PICK them \in SUBSET Name : them = some
      OBVIOUS
    <2>3. Cardinality(them) <= 2
      <3>. DEFINE two == {job[a].name} \cup {job[b].name}
      <3>1. them \subseteq two
        BY <2>1, <2>2
      <3>2. IsFiniteSet({job[a].name}) /\ IsFiniteSet({job[b].name})
            /\ Cardinality({job[a].name}) = 1 /\ Cardinality({job[b].name}) = 1
        BY FS_Singleton
      <3>3. IsFiniteSet(two) /\ Cardinality(two) <= 2 /\ Cardinality(two) \in Nat
        <4>1. IsFiniteSet({job[a].name} \cup {job[b].name})
          BY <3>2, FS_Union
        <4>2. Cardinality({job[a].name} \cup {job[b].name}) =
                 1 + 1 - Cardinality({job[a].name} \cap {job[b].name})
          BY <3>2, FS_Union
        <4>3. Cardinality({job[a].name} \cap {job[b].name}) \in Nat
          BY <3>2, FS_Intersection, FS_CardinalityType
        <4>4. Cardinality({job[a].name} \cup {job[b].name}) \in Nat
          BY <4>1, FS_CardinalityType
        <4>. QED
          BY <4>1, <4>2, <4>3, <4>4
      <3>. HIDE DEF two
      <3>4. Cardinality(them) <= Cardinality(two) /\ IsFiniteSet(them)
        BY <3>1, <3>3, FS_Subset
      <3>5. Cardinality(them) \in Nat
        BY <3>4, FS_CardinalityType
      <3>. QED
        BY <3>3, <3>4, <3>5
    <2>4. \A i \in Job : job'[i].stage # "idle" => job'[i].name \in them \cup {next}
      BY <1>3, <1>4, <1>5, <2>2 DEF Active
    <2>5. them \cup {next} \subseteq Calls(next, them)'
      BY <1>2, <1>4 DEF Calls
    <2>6. ASSUME NEW p \in Path, NEW q \in Path, p[1] = next, Before(paths', p, q)
          PROVE  q[1] \in Calls(next, them)'
      <3>1. ~OnDisk(p)
        <4>1. p = <<next, "dir">> \/ p = <<next, "tar">>
          BY <2>6 DEF Path
        <4>. QED
          BY <1>4, <4>1
      <3>2. ~Before(paths, p, q)
        BY <3>1 DEF Before, OnDisk, ToSet
      <3>3. q[1] = next
        BY <1>9, <2>6, <3>2
      <3>. QED
        BY <2>5, <3>3
    <2>. HIDE DEF some
    <2>7. Company(next, them, debris)'
      BY <2>3, <2>4, <2>5, <2>6 DEF Company, Active
    <2>. QED
      BY <2>7
  <1>14. \A n \in 1..names' : n \in 1..names \/ n = next
    BY <1>2, <1>4
  <1>15. \A n \in 1..names' : \E some : Company(n, some, debris)'
    BY <1>12, <1>13, <1>14
  <1>. QED
    BY <1>6, <1>7, <1>11, <1>15 DEF CrowdInv

(* Of the steps of a backup only those of its clean-up are not quiet.      *)
LEMMA QuietBackup ==
    ASSUME DiskInv, NEW j \in Job, BackupStep(j), ~Prune(j)
    PROVE  Quiet
  <1>1. DiskTypes /\ CallTypes
    BY TypeParts DEF DiskInv
  <1>2. Active(j) /\ names' = names
    BY DEF Active, BackupStep, BeginPiece, EndPiece, SkipPiece, FailPiece, BeginArchive,
           EndArchive, FailCompression, RemoveDir, RemovedDir, Prune, EndBackup, Part, Database
  <1>3. PICK n \in Name : n = job[j].name
    BY <1>1, <1>2, CallIs DEF Active
  <1>4. ASSUME \/ job' = job
               \/ \E stage : Advance(j, stage) /\ job[j].stage # "prune"
               \/ \E path : Returns(j, path)
               \/ ToPrune(j) /\ job[j].stage # "prune"
        PROVE  /\ \A i \in Job : job'[i].stage # "idle" =>
                     /\ Active(i) /\ job'[i].name = job[i].name
                     /\ job[i].stage = "prune" => job'[i] = job[i]
               /\ \A i \in Job : \A p \in ToSet(job'[i].doomed) :
                     p \in ToSet(job[i].doomed) \/ Goes(p)
    <2>1. CASE job' = job
      BY <2>1 DEF Active
    <2>2. ASSUME NEW stage, Advance(j, stage), job[j].stage # "prune"
          PROVE  /\ \A i \in Job : job'[i].stage # "idle" =>
                       /\ Active(i) /\ job'[i].name = job[i].name
                       /\ job[i].stage = "prune" => job'[i] = job[i]
                 /\ \A i \in Job : job'[i].doomed = job[i].doomed
      <3>1. /\ \A i \in Job \ {j} : job'[i] = job[i]
            /\ job'[j] = [job[j] EXCEPT !.stage = stage]
        BY <1>1, <2>2 DEF Advance, CallTypes
      <3>2. job'[j].name = job[j].name /\ job'[j].doomed = job[j].doomed
        BY <1>1, <3>1 DEF CallTypes, Call
      <3>. QED
        BY <1>2, <2>2, <3>1, <3>2 DEF Active
    <2>3. CASE \E path : Returns(j, path)
      <3>1. job' = [i \in Job |-> NoBackup] \/ job' = [job EXCEPT ![j] = NoBackup]
        BY <2>3 DEF Returns
      <3>2. \A i \in Job : job'[i] = NoBackup \/ job'[i] = job[i]
        BY <1>1, <3>1 DEF CallTypes
      <3>3. NoBackup.stage = "idle" /\ ToSet(NoBackup.doomed) = {}
        BY DEF NoBackup, ToSet
      <3>. QED
        BY <3>2, <3>3 DEF Active
    <2>4. CASE ToPrune(j) /\ job[j].stage # "prune"
      <3>1. PICK q \in Doomed : job' = [job EXCEPT ![j].stage = "prune",
                                         ![j].doomed = [k \in DOMAIN q |-> paths[q[k]]]]
        BY <2>4 DEF ToPrune
      <3>. DEFINE doomed == [k \in DOMAIN q |-> paths[q[k]]]
      <3>2. \A p \in ToSet(doomed) : Goes(p)
        BY <3>1 DEF Goes, ToSet
      <3>. HIDE DEF doomed
      <3>3. job' = [job EXCEPT ![j].stage = "prune", ![j].doomed = doomed]
        BY <3>1 DEF doomed
      <3>4. /\ \A i \in Job \ {j} : job'[i] = job[i]
            /\ job'[j] = [job[j] EXCEPT !.stage = "prune", !.doomed = doomed]
        BY <1>1, <3>3 DEF CallTypes
      <3>5. job'[j].name = job[j].name /\ job'[j].doomed = doomed
        BY <1>1, <3>4 DEF CallTypes, Call
      <3>. QED
        BY <1>2, <2>4, <3>2, <3>4, <3>5 DEF Active
    <2>. QED
      BY <1>4, <2>1, <2>2, <2>3, <2>4
  <1>5. ASSUME \/ paths' = paths
               \/ \E p \in Path : /\ p[1] = n /\ (p[2] = "dir" => OnDisk(p))
                                  /\ paths' \in {Without(p), Touched(p)}
        PROVE  /\ \A p, q : Before(paths', p, q) =>
                     Before(paths, p, q) \/ \E i \in Job : Active(i) /\ q[1] = job[i].name
               /\ \A p \in ToSet(paths') : p[2] = "dir" => OnDisk(p)
    <2>1. CASE paths' = paths
      BY <2>1 DEF OnDisk
    <2>2. ASSUME NEW p \in Path, p[1] = n, p[2] = "dir" => OnDisk(p),
                 paths' \in {Without(p), Touched(p)}
          PROVE  /\ \A a, b : Before(paths', a, b) => Before(paths, a, b) \/ b = p
                 /\ ToSet(paths') \subseteq ToSet(paths) \cup {p}
      <3>1. paths \in Seq(Path) /\ IsInjective(paths)
        BY <1>1 DEF DiskTypes
      <3>2. CASE paths' = Without(p)
        BY <3>1, <3>2, WithoutBefore, WithoutIs
      <3>3. CASE paths' = Touched(p)
        BY <3>1, <3>3, TouchedBefore, TouchedIs
      <3>. QED
        BY <2>2, <3>2, <3>3
    <2>. QED
      BY <1>2, <1>3, <1>5, <2>1, <2>2 DEF OnDisk
  <1>6. \/ job' = job
        \/ \E stage : Advance(j, stage) /\ job[j].stage # "prune"
        \/ \E path : Returns(j, path)
        \/ ToPrune(j) /\ job[j].stage # "prune"
    BY DEF BackupStep, BeginPiece, EndPiece, SkipPiece, FailPiece, BeginArchive, EndArchive,
           FailCompression, RemoveDir, RemovedDir, EndBackup, Part, Database
  <1>7. \/ paths' = paths
        \/ paths' = Touched(<<n, "dir">>) /\ OnDisk(<<n, "dir">>)
        \/ paths' = Touched(<<n, "tar">>)
        \/ paths' = Without(<<n, "dir">>) /\ OnDisk(<<n, "dir">>)
    BY <1>3 DEF BackupStep, BeginPiece, EndPiece, SkipPiece, FailPiece, BeginArchive, EndArchive,
           FailCompression, RemoveDir, RemovedDir, EndBackup, Erase
  <1>8. \/ paths' = paths
        \/ \E p \in Path : /\ p[1] = n /\ (p[2] = "dir" => OnDisk(p))
                           /\ paths' \in {Without(p), Touched(p)}
    BY <1>7, PathIs
  <1>. QED
    BY <1>2, <1>4, <1>5, <1>6, <1>8 DEF Quiet

LEMMA StepKinds ==
    ASSUME DiskInv, [ProtectionNext]_vars
    PROVE  \/ Quiet
           \/ \E j \in Job : Prune(j) /\ names' = names
           \/ \E j \in Job : Begins(j)
  <1>1. ASSUME UNCHANGED <<paths, names>>, job' = job \/ job' = [j \in Job |-> NoBackup]
        PROVE  Quiet
    <2>1. NoBackup.stage = "idle" /\ ToSet(NoBackup.doomed) = {}
      BY DEF NoBackup, ToSet
    <2>2. \A i \in Job : job'[i] = NoBackup \/ job'[i] = job[i]
      BY <1>1
    <2>. QED
      BY <1>1, <2>1, <2>2 DEF Quiet, Active, OnDisk
  <1>2. CASE \E j \in Job : BackupStep(j)
    BY <1>2, QuietBackup DEF BackupStep
  <1>3. CASE Validate \/ StartupBackup \/ ScheduledBackup \/ EndMain \/ Terminate
    BY <1>1, <1>3 DEF Validate, StartupBackup, ScheduledBackup, EndMain, Terminate, Die, Job
  <1>4. CASE UnlinkSqlite \/ RewriteSqlite \/ RepairChroma \/ FailRepair \/ OpenDatabase
    BY <1>1, <1>4 DEF UnlinkSqlite, RewriteSqlite, RepairChroma, FailRepair, OpenDatabase
  <1>5. CASE Launch \/ Die \/ Damage \/ UNCHANGED vars
    BY <1>1, <1>5 DEF Launch, Die, Damage, vars
  <1>. QED
    BY <1>2, <1>3, <1>4, <1>5 DEF ProtectionNext, BotStep

LEMMA CrowdNext == DiskInv /\ CrowdInv /\ [ProtectionNext]_vars => CrowdInv'
  BY StepKinds, CrowdQuiet, CrowdPrune, CrowdBegins

LEMMA UnionSize ==
    ASSUME NEW A, NEW B, IsFiniteSet(A), IsFiniteSet(B)
    PROVE  /\ IsFiniteSet(A \cup B)
           /\ Cardinality(A \cup B) <= Cardinality(A) + Cardinality(B)
  <1>1. /\ IsFiniteSet(A \cup B)
        /\ Cardinality(A \cup B) = Cardinality(A) + Cardinality(B) - Cardinality(A \cap B)
    BY FS_Union
  <1>2. IsFiniteSet(A \cap B)
    BY FS_Intersection
  <1>3. Cardinality(A) \in Nat /\ Cardinality(B) \in Nat /\ Cardinality(A \cap B) \in Nat
    BY <1>2, FS_CardinalityType
  <1>. QED
    BY <1>1, <1>3

(* At most three paths of each of those calls come after one of backup n:  *)
(* its directory, its archive and its debris.                              *)
LEMMA LaterFew ==
    ASSUME DiskInv, CrowdInv, NEW k \in 1..Len(paths)
    PROVE  /\ IsFiniteSet({l \in 1..Len(paths) : l > k})
           /\ paths[k][1] \in 1..names
           /\ Cardinality({l \in 1..Len(paths) : l > k}) < 3 * (names - paths[k][1] + 3)
  <1>1. DiskTypes /\ CallTypes /\ FreshNames
    BY TypeParts DEF DiskInv
  <1>2. Len(paths) \in Nat /\ names \in Nat
    BY <1>1 DEF DiskTypes, CallTypes
  <1>3. \A l \in 1..Len(paths) : paths[l] \in Path /\ OnDisk(paths[l])
    BY <1>1 DEF DiskTypes, OnDisk, ToSet
  <1>4. PICK n \in Name : n = paths[k][1]
    BY <1>3 DEF Path
  <1>5. n \in 1..names
    <2>1. paths[k] = <<n, "dir">> \/ paths[k] = <<n, "tar">>
      BY <1>3, <1>4 DEF Path
    <2>2. ~(n > names)
      BY <1>1, <1>3, <2>1 DEF FreshNames
    <2>. QED
      BY <1>2, <2>2 DEF Name
  <1>6. PICK debris, some : Debris(debris) /\ Company(n, some, debris)
    BY <1>5 DEF CrowdInv
  <1>. DEFINE calls == Calls(n, some)
              more == names - n + 3
              tail == {l \in 1..Len(paths) : l >= k}
              later == {l \in 1..Len(paths) : l > k}
              mine == {q \in Path : q[1] \in calls}
              ours == {q \in Path : \E c \in calls : q = debris[c]}
  <1>7. IsFiniteSet(calls) /\ Cardinality(calls) <= more /\ Cardinality(calls) \in Nat
    <2>1. IsFiniteSet(some) /\ Cardinality(some) <= 2 /\ Cardinality(some) \in Nat
      <3>1. IsFiniteSet(Name)
        BY ProtectionAssumption, FS_Interval DEF Name
      <3>. QED
        BY <1>6, <3>1, FS_Subset, FS_CardinalityType DEF Company
    <2>2. IsFiniteSet(n..names) /\ Cardinality(n..names) = names - n + 1
      <3>1. n \in Int /\ names \in Int /\ n <= names
        BY <1>2, <1>5
      <3>. QED
        BY <3>1, FS_Interval
    <2>3. /\ IsFiniteSet(some \cup (n..names))
          /\ Cardinality(some \cup (n..names)) =
                Cardinality(some) + Cardinality(n..names) - Cardinality(some \cap (n..names))
      BY <2>1, <2>2, FS_Union
    <2>4. Cardinality(some \cap (n..names)) \in Nat
      BY <2>1, FS_Intersection, FS_CardinalityType
    <2>5. Cardinality(some \cup (n..names)) \in Nat
      BY <2>3, FS_CardinalityType
    <2>. QED
      BY <1>2, <1>5, <2>1, <2>2, <2>3, <2>4, <2>5 DEF Calls
  <1>8. calls \subseteq Name
    BY <1>1, <1>6, ProtectionAssumption DEF Company, Calls, CallTypes, Name
  <1>. HIDE DEF calls
  <1>9. \A l \in tail : paths[l] \in mine \cup ours
    <2>1. ASSUME NEW l \in tail, l # k
          PROVE  paths[l][1] \in calls \/ \E c \in calls : paths[l] = debris[c]
      <3>1. Before(paths, paths[k], paths[l])
        <4>1. k \in DOMAIN paths /\ l \in DOMAIN paths /\ k < l
          BY <1>1, <1>2, <2>1 DEF DiskTypes
        <4>. QED
          BY <4>1 DEF Before
      <3>. QED
        BY <1>3, <1>4, <1>6, <2>1, <3>1 DEF Company, calls
    <2>2. n \in calls
      BY <1>2, <1>5 DEF calls, Calls
    <2>. QED
      BY <1>3, <1>4, <2>1, <2>2
  <1>10. IsFiniteSet(mine \cup ours) /\ Cardinality(mine \cup ours) <= 3 * Cardinality(calls)
    <2>1. PICK D \in SUBSET Path : D = {q \in Path : q[1] \in calls /\ q[2] = "dir"}
      OBVIOUS
    <2>2. PICK T \in SUBSET Path : T = {q \in Path : q[1] \in calls /\ q[2] = "tar"}
      OBVIOUS
    <2>3. PICK G \in SUBSET Path : G = ours
      OBVIOUS
    <2>4. IsFiniteSet(D) /\ Cardinality(D) <= Cardinality(calls)
      <3>. DEFINE f == [c \in calls |-> <<c, "dir">>]
      <3>1. f \in [calls -> D] /\ \A q \in D : \E c \in calls : f[c] = q
        BY <1>8, <2>1 DEF Path
      <3>2. f \in Surjection(calls, D)
        BY <3>1 DEF Surjection
      <3>. QED
        BY <1>7, <3>2, FS_Surjection
    <2>5. IsFiniteSet(T) /\ Cardinality(T) <= Cardinality(calls)
      <3>. DEFINE f == [c \in calls |-> <<c, "tar">>]
      <3>1. f \in [calls -> T] /\ \A q \in T : \E c \in calls : f[c] = q
        BY <1>8, <2>2 DEF Path
      <3>2. f \in Surjection(calls, T)
        BY <3>1 DEF Surjection
      <3>. QED
        BY <1>7, <3>2, FS_Surjection
    <2>6. IsFiniteSet(G) /\ Cardinality(G) <= Cardinality(calls)
      <3>. DEFINE f == [c \in calls |-> debris[c]]
      <3>1. f \in [calls -> G] /\ \A q \in G : \E c \in calls : f[c] = q
        BY <1>6, <1>8, <2>3 DEF Debris
      <3>2. f \in Surjection(calls, G)
        BY <3>1 DEF Surjection
      <3>. QED
        BY <1>7, <3>2, FS_Surjection
    <2>7. mine \cup ours = (D \cup T) \cup G
      BY <2>1, <2>2, <2>3 DEF Path
    <2>8. IsFiniteSet(D \cup T) /\ Cardinality(D \cup T) <= Cardinality(D) + Cardinality(T)
      BY <2>4, <2>5, UnionSize
    <2>9. /\ IsFiniteSet((D \cup T) \cup G)
          /\ Cardinality((D \cup T) \cup G) <= Cardinality(D \cup T) + Cardinality(G)
      BY <2>6, <2>8, UnionSize
    <2>10. /\ Cardinality(D) \in Nat /\ Cardinality(T) \in Nat /\ Cardinality(G) \in Nat
           /\ Cardinality(D \cup T) \in Nat /\ Cardinality((D \cup T) \cup G) \in Nat
      BY <2>4, <2>5, <2>6, <2>8, <2>9, FS_CardinalityType
    <2>11. Cardinality((D \cup T) \cup G) <= 3 * Cardinality(calls)
      BY <1>7, <2>4, <2>5, <2>6, <2>8, <2>9, <2>10
    <2>. QED
      BY <2>7, <2>9, <2>11
  <1>11. IsFiniteSet(tail) /\ Cardinality(tail) <= Cardinality(mine \cup ours)
    <2>. DEFINE f == [l \in tail |-> paths[l]]
    <2>. HIDE DEF mine, ours
    <2>1. f \in [tail -> mine \cup ours]
      BY <1>9
    <2>2. \A a, b \in tail : f[a] = f[b] => a = b
      BY <1>1 DEF DiskTypes, IsInjective
    <2>3. f \in Injection(tail, mine \cup ours)
      BY <2>1, <2>2 DEF Injection, IsInjective
    <2>. HIDE DEF f
    <2>. QED
      BY <1>10, <2>3, FS_Injection
  <1>12. IsFiniteSet(later) /\ Cardinality(tail) = Cardinality(later) + 1
    <2>1. tail = later \cup {k} /\ k \notin later
      BY <1>2
    <2>2. IsFiniteSet(later)
      BY <1>11, <2>1, FS_Subset
    <2>. QED
      BY <2>1, <2>2, FS_AddElement
  <1>13. /\ Cardinality(tail) \in Nat /\ Cardinality(later) \in Nat
         /\ Cardinality(mine \cup ours) \in Nat
    BY <1>10, <1>11, <1>12, FS_CardinalityType
  <1>14. Cardinality(later) < 3 * more
    BY <1>2, <1>5, <1>7, <1>10, <1>11, <1>12, <1>13
  <1>. QED
    BY <1>4, <1>5, <1>12, <1>14

-----------------------------------------------------------------------------
(* What stays of a backup that is among the last *)

(* No clean-up removes a path of it, ...                                   *)
Spared == \A i \in Job : \A p \in ToSet(job[i].doomed) : ~Recent(p[1])

(* ... and at each stage of its call, and when the call was cut off, what  *)
(* list_backups offers of it is whole.                                     *)
Safe(n, stage) ==
    /\ stage \in Part => OnDisk(<<n, "dir">>) /\ \A part \in holds[n] : dir[n][part] = "whole"
    /\ stage = "archive" => WholeDir(n)
    /\ stage = "remove" => ListedTar(n)
    /\ stage = "discard" => holds[n] = {}
    /\ stage = "prune" => Whole(n)

Intact(n) ==
    /\ ListedDir(n) => Whole(n)
    /\ \A i \in Job : Active(i) /\ job[i].name = n => Safe(n, job[i].stage)

KeepInv == CrowdInv /\ Spared /\ \A n \in 1..names : Recent(n) => Intact(n)

LEMMA GoesOld ==
    ASSUME DiskInv, CrowdInv, NEW p, Goes(p)
    PROVE  ~Recent(p[1])
  <1>1. DiskTypes /\ CallTypes
    BY TypeParts DEF DiskInv
  <1>2. PICK q \in Doomed : \E k \in DOMAIN q : p = paths[q[k]]
    BY DEF Goes
  <1>3. PICK k \in DOMAIN q : p = paths[q[k]]
    BY <1>2
  <1>4. PICK l \in 1..Len(paths) : l = q[k] /\ \E some \in SUBSET (1..Len(paths)) : l \in Surplus(some)
    <2>1. q \in Seq(1..Len(paths)) /\ \E some \in SUBSET (1..Len(paths)) : q[k] \in Surplus(some)
      BY <1>1, DoomedIs DEF DiskTypes
    <2>. QED
      BY <2>1
  <1>5. PICK some \in SUBSET (1..Len(paths)) : l \in Surplus(some)
    BY <1>4
  <1>. DEFINE later == {m \in 1..Len(paths) : m > l}
              these == {m \in some : m > l}
              more == names - paths[l][1] + 3
  <1>6. IsFiniteSet(later) /\ paths[l][1] \in 1..names /\ Cardinality(later) < 3 * more
    BY LaterFew
  <1>7. IsFiniteSet(these) /\ Cardinality(these) <= Cardinality(later)
    <2>1. these \subseteq later
      OBVIOUS
    <2>. QED
      BY <1>6, <2>1, FS_Subset
  <1>8. Cardinality(these) \in Nat /\ Cardinality(later) \in Nat
    BY <1>6, <1>7, FS_CardinalityType
  <1>9. Cardinality(these) >= MaxBackups
    BY <1>5 DEF Surplus
  <1>10. more \in Int /\ p[1] = paths[l][1]
    BY <1>1, <1>3, <1>4, <1>6 DEF CallTypes
  <1>. HIDE DEF later, these, more
  <1>11. ~(3 * more <= MaxBackups)
    BY <1>6, <1>7, <1>8, <1>9, <1>10, ProtectionAssumption
  <1>. QED
    BY <1>10, <1>11 DEF Recent, more

(* A backup that is among the last was among them before.                  *)
LEMMA RecentBefore ==
    ASSUME names \in Nat, names' = names \/ names' = names + 1, NEW n \in Nat, Recent(n)'
    PROVE  Recent(n)
  <1>1. CASE names' = names
    BY <1>1 DEF Recent
  <1>2. CASE names' = names + 1
    <2>1. PICK old \in Int : old = names - n + 3
      OBVIOUS
    <2>2. names' - n + 3 = old + 1
      BY <1>2, <2>1
    <2>3. 3 * (old + 1) <= MaxBackups /\ MaxBackups \in Int
      BY <2>2, ProtectionAssumption DEF Recent
    <2>4. 3 * old <= MaxBackups
      BY <2>3
    <2>. QED
      BY <2>1, <2>4 DEF Recent
  <1>. QED
    BY <1>1, <1>2

LEMMA SparedNext ==
    ASSUME DiskInv, CrowdInv, Spared, [ProtectionNext]_vars
    PROVE  Spared'
  <1>1. DiskTypes /\ CallTypes
    BY TypeParts DEF DiskInv
  <1>2. ASSUME NEW i \in Job, NEW p \in ToSet(job'[i].doomed)
        PROVE  p[1] \in Nat /\ ~Recent(p[1])
    <2>1. ASSUME p \in ToSet(job[i].doomed)
          PROVE  p[1] \in Nat /\ ~Recent(p[1])
      <3>1. p \in Path
        BY <1>1, <2>1 DEF CallTypes, Call, ToSet
      <3>. QED
        BY <2>1, <3>1 DEF Spared, Path, Name
    <2>2. ASSUME Goes(p)
          PROVE  p[1] \in Nat /\ ~Recent(p[1])
      <3>1. p \in Path
        BY <1>1, <2>2, GoesIs DEF OnDisk, ToSet, DiskTypes
      <3>. QED
        BY <2>2, <3>1, GoesOld DEF Path, Name
    <2>3. CASE Quiet
      BY <2>1, <2>2, <2>3 DEF Quiet
    <2>4. ASSUME NEW j \in Job, Prune(j)
          PROVE  p \in ToSet(job[i].doomed)
      <3>1. /\ job[j].doomed \in Seq(Path) /\ job[j].doomed # <<>>
            /\ \A l \in Job \ {j} : job'[l] = job[l]
            /\ job'[j] = [job[j] EXCEPT !.doomed =
                             IF Head(job[j].doomed) \in ToSet(paths') THEN @ ELSE Tail(@)]
        BY <1>1, <2>4 DEF Prune, CallTypes, Call
      <3>2. ToSet(Tail(job[j].doomed)) \subseteq ToSet(job[j].doomed)
        BY <3>1, HeadTailProperties DEF ToSet
      <3>3. job'[j].doomed \in {job[j].doomed, Tail(job[j].doomed)}
        BY <1>1, <3>1 DEF CallTypes, Call
      <3>. QED
        BY <3>1, <3>2, <3>3
    <2>5. ASSUME NEW j \in Job, Begins(j)
          PROVE  p \in ToSet(job[i].doomed)
      <3>1. \A l \in Job \ {j} : job'[l] = job[l]
        BY <1>1, <2>5 DEF Begins, CallTypes
      <3>2. job'[j].doomed = <<>> /\ ToSet(<<>>) = {}
        BY <1>1, <2>5 DEF Begins, CallTypes, ToSet
      <3>. QED
        BY <3>1, <3>2
    <2>. QED
      BY <2>1, <2>3, <2>4, <2>5, StepKinds
  <1>3. names \in Nat /\ (names' = names \/ names' = names + 1)
    BY <1>1, StepKinds DEF Quiet, Begins, CallTypes
  <1>. QED
    BY <1>1, <1>2, <1>3, RecentBefore DEF Spared

(* What a step of a backup does to the other calls.                        *)
LEMMA OthersStay ==
    ASSUME CallTypes, NEW j \in Job, BackupStep(j)
    PROVE  /\ \A i \in Job \ {j} : job'[i] = job[i] \/ job'[i] = NoBackup
           /\ job'[j].stage # "idle" => job'[j].name = job[j].name
  <1>1. ASSUME NEW stage, Advance(j, stage)
        PROVE  (\A i \in Job \ {j} : job'[i] = job[i]) /\ job'[j].name = job[j].name
    <2>1. job' = [job EXCEPT ![j].stage = stage] /\ job[j] \in Call
      BY <1>1 DEF Advance, CallTypes
    <2>. QED
      BY <2>1 DEF CallTypes, Call
  <1>2. ASSUME \E path : Returns(j, path)
        PROVE  /\ \A i \in Job \ {j} : job'[i] = job[i] \/ job'[i] = NoBackup
               /\ job'[j] = NoBackup
    BY <1>2 DEF Returns, CallTypes
  <1>3. ASSUME ToPrune(j)
        PROVE  (\A i \in Job \ {j} : job'[i] = job[i]) /\ job'[j].name = job[j].name
    BY <1>3 DEF ToPrune, CallTypes, Call
  <1>4. ASSUME Prune(j)
        PROVE  (\A i \in Job \ {j} : job'[i] = job[i]) /\ job'[j].name = job[j].name
    BY <1>4 DEF Prune, CallTypes, Call
  <1>5. \/ job' = job \/ \E stage : Advance(j, stage)
        \/ \E path : Returns(j, path)
        \/ ToPrune(j) \/ Prune(j)
    BY DEF BackupStep, BeginPiece, EndPiece, SkipPiece, FailPiece, BeginArchive, EndArchive,
           FailCompression, RemoveDir, RemovedDir, EndBackup
  <1>6. NoBackup.stage = "idle"
    BY DEF NoBackup
  <1>. QED
    BY <1>1, <1>2, <1>3, <1>4, <1>5, <1>6

(* A backup on which no call works stays as it is.                         *)
LEMMA IntactApart ==
    ASSUME NEW n \in Name, Intact(n),
           dir'[n] = dir[n], tar'[n] = tar[n], holds'[n] = holds[n],
           OnDisk(<<n, "dir">>)' <=> OnDisk(<<n, "dir">>),
           OnDisk(<<n, "tar">>)' <=> OnDisk(<<n, "tar">>),
           \A i \in Job : job'[i].stage # "idle" /\ job'[i].name = n =>
              Active(i) /\ job[i].name = n /\ job'[i].stage = job[i].stage
    PROVE  Intact(n)'
  <1>1. /\ ListedDir(n)' <=> ListedDir(n)
        /\ ListedTar(n)' <=> ListedTar(n)
        /\ WholeDir(n)' <=> WholeDir(n)
    BY DEF ListedDir, ListedTar, WholeDir
  <1>2. Whole(n)' <=> Whole(n)
    BY <1>1 DEF Whole
  <1>3. ASSUME NEW i \in Job, job'[i].stage # "idle", job'[i].name = n
        PROVE  Safe(n, job[i].stage)'
    <2>1. Safe(n, job[i].stage) /\ job'[i].stage = job[i].stage
      BY <1>3 DEF Intact
    <2>. QED
      BY <1>1, <1>2, <2>1 DEF Safe
  <1>. QED
    BY <1>1, <1>2, <1>3 DEF Intact, Active

(* A step of a backup changes what is its own, or what its clean-up        *)
(* removes.                                                                *)
LEMMA BackupApart ==
    ASSUME DiskInv, NEW n \in Name, NEW j \in Job, BackupStep(j),
           ~Prune(j) => job[j].name # n,
           Prune(j) => Head(job[j].doomed)[1] # n
    PROVE  /\ dir'[n] = dir[n] /\ tar'[n] = tar[n] /\ holds'[n] = holds[n]
           /\ OnDisk(<<n, "dir">>)' <=> OnDisk(<<n, "dir">>)
           /\ OnDisk(<<n, "tar">>)' <=> OnDisk(<<n, "tar">>)
  <1>1. DiskTypes /\ CallTypes
    BY TypeParts DEF DiskInv
  <1>2. Active(j)
    BY DEF Active, BackupStep, BeginPiece, EndPiece, SkipPiece, FailPiece, BeginArchive,
           EndArchive, FailCompression, RemoveDir, RemovedDir, Prune, EndBackup, Part, Database
  <1>3. PICK m \in Name : m = job[j].name
    BY <1>1, <1>2, CallIs DEF Active
  <1>4. ASSUME NEW p \in Path, OnDisk(p), Erase(p), p[1] # n
        PROVE  /\ dir'[n] = dir[n] /\ tar'[n] = tar[n]
               /\ <<n, "dir">> \in ToSet(paths') <=> <<n, "dir">> \in ToSet(paths)
               /\ <<n, "tar">> \in ToSet(paths') <=> <<n, "tar">> \in ToSet(paths)
    <2>1. p # <<n, "dir">> /\ p # <<n, "tar">>
      BY <1>4
    <2>. QED
      BY <1>1, <1>4, <2>1, EraseIs
  <1>5. CASE Prune(j)
    <2>1. /\ job[j].doomed \in Seq(Path) /\ job[j].doomed # <<>>
          /\ OnDisk(Head(job[j].doomed)) /\ Erase(Head(job[j].doomed)) /\ holds' = holds
      BY <1>1, <1>5 DEF Prune, CallTypes, Call
    <2>2. PICK p \in Path : p = Head(job[j].doomed)
      BY <2>1, HeadTailProperties
    <2>3. OnDisk(p) /\ Erase(p) /\ p[1] # n
      BY <1>5, <2>1, <2>2
    <2>. QED
      BY <1>4, <2>1, <2>3 DEF OnDisk
  <1>6. CASE ~Prune(j)
    <2>1. m # n
      BY <1>3, <1>6
    <2>2. ASSUME NEW k \in {"dir", "tar"}, paths' = Touched(<<m, k>>)
          PROVE  /\ <<n, "dir">> \in ToSet(paths') <=> <<n, "dir">> \in ToSet(paths)
                 /\ <<n, "tar">> \in ToSet(paths') <=> <<n, "tar">> \in ToSet(paths)
      <3>1. PICK p \in Path : p = <<m, k>>
        BY DEF Path
      <3>2. ToSet(paths') = ToSet(paths) \cup {p}
        BY <1>1, <2>2, <3>1, TouchedIs DEF DiskTypes
      <3>. QED
        BY <2>1, <3>1, <3>2
    <2>3. CASE BeginPiece(j)
      <3>1. /\ dir' = [dir EXCEPT ![m][job[j].stage] = "torn"] /\ paths' = Touched(<<m, "dir">>)
            /\ UNCHANGED <<tar, holds>>
        BY <1>3, <2>3 DEF BeginPiece
      <3>. QED
        BY <1>1, <2>1, <2>2, <3>1 DEF OnDisk, DiskTypes
    <2>4. CASE EndPiece(j)
      <3>1. /\ dir' = [dir EXCEPT ![m][job[j].stage] = "whole"] /\ UNCHANGED <<paths, tar>>
            /\ holds' = [holds EXCEPT ![m] = @ \cup ({job[j].stage} \cap Database)]
        BY <1>3, <2>4 DEF EndPiece
      <3>. QED
        BY <1>1, <2>1, <3>1 DEF OnDisk, DiskTypes
    <2>5. CASE BeginArchive(j) \/ EndArchive(j)
      <3>1. /\ tar' = [tar EXCEPT ![m] = "torn"] \/ tar' = [tar EXCEPT ![m] = "whole"]
            /\ paths' = Touched(<<m, "tar">>) /\ UNCHANGED <<dir, holds>>
        BY <1>3, <2>5 DEF BeginArchive, EndArchive
      <3>. QED
        BY <1>1, <2>1, <2>2, <3>1 DEF OnDisk, DiskTypes
    <2>6. CASE RemoveDir(j)
      <3>1. PICK p \in Path : p = <<m, "dir">>
        BY PathIs
      <3>2. OnDisk(p) /\ Erase(p) /\ holds' = holds /\ p[1] # n
        BY <1>3, <2>1, <2>6, <3>1 DEF RemoveDir
      <3>. QED
        BY <1>4, <3>2 DEF OnDisk
    <2>7. CASE SkipPiece(j) \/ FailPiece(j) \/ FailCompression(j) \/ RemovedDir(j) \/ EndBackup(j)
      <3>1. UNCHANGED <<paths, dir, tar, holds>>
        BY <2>7 DEF SkipPiece, FailPiece, FailCompression, RemovedDir, EndBackup
      <3>. QED
        BY <3>1 DEF OnDisk
    <2>. QED
      BY <1>6, <2>3, <2>4, <2>5, <2>6, <2>7 DEF BackupStep
  <1>. QED
    BY <1>5, <1>6

(* A call leaves its own backup in one of those stages.                    *)
LEMMA IntactOwn ==
    ASSUME DiskInv, CrowdInv, NEW n \in Name, Intact(n), NEW j \in Job, BackupStep(j),
           ~Prune(j), job[j].name = n
    PROVE  Intact(n)'
  <1>. DEFINE stage == job[j].stage
  <1>1. DiskTypes /\ CallTypes
    BY TypeParts DEF DiskInv
  <1>2. Active(j)
    BY DEF Active, BackupStep, BeginPiece, EndPiece, SkipPiece, FailPiece, BeginArchive,
           EndArchive, FailCompression, RemoveDir, RemovedDir, EndBackup, Part, Database
  <1>3. Safe(n, stage) /\ (ListedDir(n) => Whole(n))
    BY <1>2 DEF Intact
  <1>4. ASSUME ListedDir(n)' => Whole(n)', job'[j].stage # "idle" => Safe(n, job[j].stage)'
        PROVE  Intact(n)'
    <2>1. ASSUME NEW i \in Job, job'[i].stage # "idle", job'[i].name = n
          PROVE  i = j
      <3>1. i # j => Active(i) /\ job[i].name = n
        BY <1>1, <2>1, OthersStay DEF Active, NoBackup
      <3>. QED
        BY <1>2, <3>1 DEF CrowdInv
    <2>. QED
      BY <1>4, <2>1 DEF Intact, Active
  <1>5. <<n, "dir">> \in Path /\ <<n, "tar">> \in Path /\ <<n, "dir">> # <<n, "tar">>
    BY PathIs
  <1>6. ASSUME OnDisk(<<n, "dir">>)', \A part \in holds'[n] : dir'[n][part] = "whole"
        PROVE  ListedDir(n)' => WholeDir(n)'
    BY <1>6 DEF ListedDir, WholeDir, OnDisk
  <1>7. ASSUME UNCHANGED <<paths, dir, tar, holds>>
        PROVE  /\ ListedDir(n)' = ListedDir(n) /\ ListedTar(n)' = ListedTar(n)
               /\ WholeDir(n)' = WholeDir(n) /\ Whole(n)' = Whole(n)
               /\ OnDisk(<<n, "dir">>)' = OnDisk(<<n, "dir">>)
    BY <1>7 DEF ListedDir, ListedTar, WholeDir, Whole, OnDisk
  <1>8. ASSUME NEW next, Advance(j, next)
        PROVE  job'[j].stage = next
    BY <1>1, <1>8 DEF Advance, CallTypes, Call
  <1>9. ASSUME NEW path, Returns(j, path)
        PROVE  job'[j].stage = "idle"
    BY <1>1, <1>9 DEF Returns, CallTypes, NoBackup
  <1>10. ToPrune(j) => job'[j].stage = "prune"
    BY <1>1 DEF ToPrune, CallTypes, Call
  <1>11. \A next \in Part : Safe(n, next)' <=>
             OnDisk(<<n, "dir">>)' /\ \A part \in holds'[n] : dir'[n][part] = "whole"
    BY DEF Safe, Part, Database
  <1>12. stage \in Part => /\ OnDisk(<<n, "dir">>)
                           /\ \A part \in holds[n] : dir[n][part] = "whole"
    BY <1>3 DEF Safe
  <1>13. holds[n] \subseteq Part
    BY <1>1 DEF DiskTypes, Part
  <1>14. CASE BeginPiece(j)
    <2>1. /\ dir' = [dir EXCEPT ![n][stage] = "torn"] /\ paths' = Touched(<<n, "dir">>)
          /\ UNCHANGED <<tar, holds, job>> /\ stage \in Part /\ dir[n][stage] = "none"
      BY <1>14 DEF BeginPiece
    <2>2. OnDisk(<<n, "dir">>)'
      BY <1>1, <1>5, <2>1, TouchedIs DEF DiskTypes, OnDisk
    <2>3. \A part \in holds'[n] : dir'[n][part] = "whole"
      BY <1>1, <1>12, <1>13, <2>1 DEF DiskTypes
    <2>4. Safe(n, job[j].stage)'
      BY <1>11, <2>1, <2>2, <2>3
    <2>. QED
      BY <1>4, <1>6, <2>2, <2>3, <2>4 DEF Whole
  <1>15. CASE EndPiece(j)
    <2>1. /\ dir' = [dir EXCEPT ![n][stage] = "whole"]
          /\ holds' = [holds EXCEPT ![n] = @ \cup ({stage} \cap Database)]
          /\ UNCHANGED <<paths, tar>> /\ Advance(j, NextStage(j, n)) /\ stage \in Part
      BY <1>15 DEF EndPiece
    <2>2. OnDisk(<<n, "dir">>)'
      BY <1>12, <2>1 DEF OnDisk
    <2>3. /\ holds'[n] = holds[n] \cup ({stage} \cap Database)
          /\ \A part \in Part : dir'[n][part] = IF part = stage THEN "whole" ELSE dir[n][part]
      BY <1>1, <2>1 DEF DiskTypes
    <2>4. \A part \in holds'[n] : dir'[n][part] = "whole"
      BY <1>12, <1>13, <2>1, <2>3 DEF Part
    <2>5. PICK next : next = NextStage(j, n)
      OBVIOUS
    <2>6. job'[j].stage = next
      BY <1>8, <2>1, <2>5
    <2>7. \/ next \in Part
          \/ next = "archive" /\ stage = "info"
          \/ next = "discard" /\ stage = "info" /\ holds[n] = {}
      BY <2>1, <2>5 DEF NextStage, Part, Database
    <2>8. CASE next \in Part
      BY <1>4, <1>6, <1>11, <2>2, <2>4, <2>6, <2>8 DEF Whole
    <2>9. CASE next = "archive" /\ stage = "info"
      <3>1. WholeDir(n)'
        BY <2>1, <2>2, <2>3, <2>4, <2>9 DEF WholeDir, OnDisk
      <3>2. Safe(n, job[j].stage)'
        BY <2>6, <2>9, <3>1 DEF Safe, Part, Database
      <3>. QED
        BY <1>4, <3>1, <3>2 DEF Whole
    <2>10. CASE next = "discard" /\ stage = "info" /\ holds[n] = {}
      <3>1. holds'[n] = {}
        BY <2>3, <2>10 DEF Database
      <3>2. Safe(n, job[j].stage)'
        BY <2>6, <2>10, <3>1 DEF Safe, Part, Database
      <3>. QED
        BY <1>4, <1>6, <2>2, <2>4, <3>2 DEF Whole
    <2>. QED
      BY <2>7, <2>8, <2>9, <2>10
  <1>16. CASE SkipPiece(j) \/ (FailPiece(j) /\ stage # "info")
    <2>1. /\ UNCHANGED <<paths, dir, tar, holds>> /\ Advance(j, NextStage(j, n))
          /\ stage \in Database
      BY <1>16 DEF SkipPiece, FailPiece, Absent, Part, Database
    <2>2. NextStage(j, n) \in Part /\ stage \in Part
      BY <2>1 DEF NextStage, Part, Database
    <2>3. job'[j].stage \in Part
      BY <1>8, <2>1, <2>2
    <2>4. OnDisk(<<n, "dir">>)' /\ \A part \in holds'[n] : dir'[n][part] = "whole"
      BY <1>7, <1>12, <2>1, <2>2
    <2>5. Safe(n, job[j].stage)'
      BY <1>11, <2>3, <2>4
    <2>. QED
      BY <1>3, <1>4, <1>7, <2>1, <2>5
  <1>17. CASE (FailPiece(j) /\ stage = "info") \/ EndBackup(j)
    <2>1. UNCHANGED <<paths, dir, tar, holds>> /\ \E path : Returns(j, path)
      BY <1>17 DEF FailPiece, EndBackup
    <2>. QED
      BY <1>3, <1>4, <1>7, <1>9, <2>1
  <1>18. CASE BeginArchive(j)
    <2>1. /\ paths' = Touched(<<n, "tar">>) /\ UNCHANGED <<dir, holds, job>>
          /\ stage = "archive"
      BY <1>18 DEF BeginArchive
    <2>2. WholeDir(n)
      BY <1>3, <2>1 DEF Safe
    <2>3. WholeDir(n)'
      BY <1>1, <1>5, <2>1, <2>2, TouchedIs DEF WholeDir, OnDisk, DiskTypes
    <2>4. Safe(n, job[j].stage)'
      BY <2>1, <2>3 DEF Safe, Part, Database
    <2>. QED
      BY <1>4, <2>3, <2>4 DEF Whole
  <1>19. CASE EndArchive(j)
    <2>1. /\ tar' = [tar EXCEPT ![n] = "whole"] /\ paths' = Touched(<<n, "tar">>)
          /\ Advance(j, "remove")
      BY <1>19 DEF EndArchive
    <2>2. ListedTar(n)'
      BY <1>1, <1>5, <2>1, TouchedIs DEF ListedTar, OnDisk, DiskTypes
    <2>3. job'[j].stage = "remove"
      BY <1>8, <2>1
    <2>4. Safe(n, job[j].stage)'
      BY <2>2, <2>3 DEF Safe, Part, Database
    <2>. QED
      BY <1>4, <2>2, <2>4 DEF Whole
  <1>20. CASE FailCompression(j) \/ (RemovedDir(j) /\ stage = "remove")
    <2>1. /\ UNCHANGED <<paths, dir, tar, holds>> /\ ToPrune(j)
          /\ stage \in {"archive", "remove"}
      BY <1>20 DEF FailCompression, RemovedDir
    <2>2. Whole(n)'
      BY <1>3, <1>7, <2>1 DEF Safe, Whole
    <2>3. Safe(n, job[j].stage)'
      BY <1>10, <2>1, <2>2 DEF Safe, Part, Database
    <2>. QED
      BY <1>4, <2>2, <2>3
  <1>21. CASE RemovedDir(j) /\ stage # "remove"
    <2>1. UNCHANGED <<paths, dir, tar, holds>> /\ \E path : Returns(j, path)
      BY <1>21 DEF RemovedDir
    <2>. QED
      BY <1>3, <1>4, <1>7, <1>9, <2>1
  <1>22. CASE RemoveDir(j)
    <2>1. /\ OnDisk(<<n, "dir">>) /\ Erase(<<n, "dir">>) /\ UNCHANGED <<job, holds>>
          /\ stage \in {"remove", "discard"}
      BY <1>22 DEF RemoveDir
    <2>2. CASE stage = "remove"
      <3>1. ListedTar(n)
        BY <1>3, <2>2 DEF Safe
      <3>2. ListedTar(n)'
        BY <1>1, <1>5, <2>1, <3>1, EraseSpares
      <3>3. Safe(n, job[j].stage)'
        BY <2>1, <2>2, <3>2 DEF Safe, Part, Database
      <3>. QED
        BY <1>4, <3>2, <3>3 DEF Whole
    <2>3. CASE stage = "discard"
      <3>1. holds'[n] = {}
        BY <1>3, <2>1, <2>3 DEF Safe
      <3>2. ListedDir(n)' => WholeDir(n)'
        BY <3>1 DEF ListedDir, WholeDir
      <3>3. Safe(n, job[j].stage)'
        BY <2>1, <2>3, <3>1 DEF Safe, Part, Database
      <3>. QED
        BY <1>4, <3>2, <3>3 DEF Whole
    <2>. QED
      BY <2>1, <2>2, <2>3
  <1>. QED
    BY <1>14, <1>15, <1>16, <1>17, <1>18, <1>19, <1>20, <1>21, <1>22 DEF BackupStep

(* A backup begins with nothing.                                           *)
LEMMA IntactBegins ==
    ASSUME DiskInv, NEW j \in Job, Begins(j), NEW n \in Name, n = names + 1
    PROVE  Intact(n)'
  <1>1. DiskTypes /\ CallTypes /\ FreshNames /\ (DiskTypes /\ CallTypes)'
    BY TypeParts, BeginsTyped DEF DiskInv
  <1>2. /\ dir[n] = NoPieces /\ holds[n] = {} /\ UNCHANGED <<dir, tar, holds>>
        /\ names \in Nat
    <2>1. names \in Nat
      BY <1>1 DEF CallTypes
    <2>2. n > names
      BY <2>1
    <2>. QED
      BY <1>1, <2>1, <2>2 DEF FreshNames, Begins
  <1>3. ~ListedDir(n)'
    BY <1>2 DEF ListedDir, NoPieces, Part
  <1>4. OnDisk(<<n, "dir">>)'
    <2>1. paths' = Append(paths, <<n, "dir">>)
      BY DEF Begins
    <2>2. PICK p \in Path : p = <<n, "dir">>
      BY PathIs
    <2>3. /\ Len(paths') = Len(paths) + 1 /\ paths'[Len(paths) + 1] = p
          /\ Len(paths) + 1 \in DOMAIN paths'
      BY <1>1, <2>1, <2>2, AppendProperties DEF DiskTypes
    <2>. QED
      BY <2>2, <2>3 DEF OnDisk, ToSet
  <1>5. ASSUME NEW i \in Job, job'[i].stage # "idle", job'[i].name = n
        PROVE  job'[i].stage = "sqlite"
    <2>1. /\ \A l \in Job \ {j} : job'[l] = job[l]
          /\ job'[j].stage = "sqlite"
      BY <1>1 DEF Begins, CallTypes
    <2>2. i # j => job[i].name \in 0..names
      BY <1>1 DEF CallTypes, Call
    <2>. QED
      BY <1>2, <1>5, <2>1, <2>2
  <1>6. ASSUME NEW i \in Job, job'[i].stage = "sqlite"
        PROVE  Safe(n, job[i].stage)'
    BY <1>2, <1>4, <1>6 DEF Safe, Part, Database
  <1>. QED
    BY <1>3, <1>5, <1>6 DEF Intact, Active

LEMMA KeepNext ==
    ASSUME DiskInv, KeepInv, [ProtectionNext]_vars
    PROVE  KeepInv'
  <1>1. DiskTypes /\ CallTypes
    BY TypeParts DEF DiskInv
  <1>2. CrowdInv' /\ Spared'
    BY CrowdNext, SparedNext DEF KeepInv
  <1>3. names \in Nat /\ (names' = names \/ names' = names + 1)
    BY <1>1, StepKinds DEF Quiet, Begins, CallTypes
  <1>4. ASSUME NEW n \in 1..names', Recent(n)'
        PROVE  Intact(n)'
    <2>1. n \in 1..names => n \in Name /\ Intact(n) /\ Recent(n)
      <3>1. Recent(n)
        BY <1>3, <1>4, RecentBefore
      <3>2. n \in 1..names => n \in Name
        BY <1>1, ProtectionAssumption DEF CallTypes, Name
      <3>. QED
        BY <3>1, <3>2 DEF KeepInv
    <2>2. ASSUME UNCHANGED <<paths, dir, tar, holds, names>>,
                 job' = job \/ job' = [i \in Job |-> NoBackup]
          PROVE  Intact(n)'
      <3>1. \A i \in Job : job'[i] = job[i] \/ job'[i].stage = "idle"
        BY <2>2 DEF NoBackup
      <3>2. OnDisk(<<n, "dir">>)' = OnDisk(<<n, "dir">>)
            /\ OnDisk(<<n, "tar">>)' = OnDisk(<<n, "tar">>)
        BY <2>2 DEF OnDisk
      <3>. QED
        BY <1>4, <2>1, <2>2, <3>1, <3>2, IntactApart DEF Active
    <2>3. ASSUME NEW j \in Job, BackupStep(j)
          PROVE  Intact(n)'
      <3>1. n \in Name /\ Intact(n) /\ Recent(n)
        BY <1>4, <2>1, <2>3 DEF BackupStep
      <3>2. CASE ~Prune(j) /\ job[j].name = n
        BY <2>3, <3>1, <3>2, IntactOwn DEF KeepInv
      <3>3. CASE Prune(j) \/ job[j].name # n
        <4>1. Prune(j) => Head(job[j].doomed)[1] # n
          <5>1. ASSUME Prune(j)
                PROVE  Head(job[j].doomed) \in ToSet(job[j].doomed)
            <6>1. job[j].doomed \in Seq(Path) /\ job[j].doomed # <<>>
              BY <1>1, <5>1 DEF Prune, CallTypes, Call
            <6>. QED
              BY <6>1, HeadTailProperties DEF ToSet
          <5>. QED
            BY <3>1, <5>1 DEF KeepInv, Spared
        <4>2. /\ dir'[n] = dir[n] /\ tar'[n] = tar[n] /\ holds'[n] = holds[n]
              /\ OnDisk(<<n, "dir">>)' <=> OnDisk(<<n, "dir">>)
              /\ OnDisk(<<n, "tar">>)' <=> OnDisk(<<n, "tar">>)
          BY <2>3, <3>1, <3>3, <4>1, BackupApart
        <4>3. ASSUME NEW i \in Job, job'[i].stage # "idle", job'[i].name = n
              PROVE  Active(i) /\ job[i].name = n /\ job'[i].stage = job[i].stage
          <5>1. CASE i # j
            BY <1>1, <2>3, <4>3, <5>1, OthersStay DEF Active, NoBackup
          <5>2. CASE i = j
            <6>1. job[j].name = n /\ Prune(j)
              BY <1>1, <2>3, <3>3, <4>3, <5>2, OthersStay
            <6>. QED
              BY <1>1, <5>2, <6>1 DEF Prune, Active, CallTypes, Call
          <5>. QED
            BY <5>1, <5>2
        <4>. QED
          BY <3>1, <4>2, <4>3, IntactApart
      <3>. QED
        BY <3>2, <3>3
    <2>4. ASSUME NEW j \in Job, Begins(j)
          PROVE  Intact(n)'
      <3>1. CASE n \in 1..names
        <4>1. /\ n \in Name /\ Intact(n) /\ n # names + 1
              /\ UNCHANGED <<dir, tar, holds>>
          BY <1>3, <2>1, <2>4, <3>1 DEF Begins
        <4>2. PICK p \in Path : p = <<names + 1, "dir">> /\ p[1] = names + 1
          <5>1. names + 1 \in Name
            BY <1>1, <2>4, ProtectionAssumption DEF Begins, CallTypes, Name
          <5>2. PICK next \in Name : next = names + 1
            BY <5>1
          <5>3. <<next, "dir">> \in Path /\ <<next, "dir">>[1] = next
            BY PathIs
          <5>. QED
            BY <5>2, <5>3
        <4>3. p \notin ToSet(paths) /\ paths' = Append(paths, p)
          <5>1. /\ names + 1 \in Name /\ names + 1 > names
                /\ paths' = Append(paths, <<names + 1, "dir">>)
            BY <1>1, <2>4, ProtectionAssumption DEF Begins, CallTypes, Name
          <5>2. \A m \in Name : m > names => ~OnDisk(<<m, "dir">>)
            BY DEF DiskInv, FreshNames
          <5>. QED
            BY <4>2, <5>1, <5>2 DEF OnDisk
        <4>4. ToSet(paths') = ToSet(paths) \cup {p}
          BY <1>1, <4>3, AppendedIs DEF DiskTypes
        <4>5. p # <<n, "dir">> /\ p # <<n, "tar">>
          BY <4>1, <4>2
        <4>6. /\ OnDisk(<<n, "dir">>)' <=> OnDisk(<<n, "dir">>)
              /\ OnDisk(<<n, "tar">>)' <=> OnDisk(<<n, "tar">>)
          BY <4>4, <4>5 DEF OnDisk
        <4>7. ASSUME NEW i \in Job, job'[i].stage # "idle", job'[i].name = n
              PROVE  Active(i) /\ job[i].name = n /\ job'[i].stage = job[i].stage
          <5>1. /\ \A l \in Job \ {j} : job'[l] = job[l]
                /\ job'[j].name = names + 1
            BY <1>1, <2>4 DEF Begins, CallTypes
          <5>. QED
            BY <4>1, <4>7, <5>1 DEF Active
        <4>. QED
          BY <4>1, <4>6, <4>7, IntactApart
      <3>2. CASE n \notin 1..names
        <4>1. n = names + 1
          BY <1>3, <1>4, <3>2
        <4>2. n \in Name
          BY <1>1, <1>3, <2>4, <4>1, ProtectionAssumption DEF Begins, CallTypes, Name
        <4>. QED
          BY <2>4, <4>1, <4>2, IntactBegins
      <3>. QED
        BY <3>1, <3>2
    <2>5. CASE \E j \in Job : BackupStep(j)
      BY <2>3, <2>5
    <2>6. CASE Validate \/ StartupBackup \/ ScheduledBackup \/ EndMain \/ Terminate
      BY <2>2, <2>4, <2>6 DEF Validate, StartupBackup, ScheduledBackup, EndMain, Terminate, Die, Job
    <2>7. CASE UnlinkSqlite \/ RewriteSqlite \/ RepairChroma \/ FailRepair \/ OpenDatabase
      BY <2>2, <2>7 DEF UnlinkSqlite, RewriteSqlite, RepairChroma, FailRepair, OpenDatabase
    <2>8. CASE Launch \/ Die \/ Damage \/ UNCHANGED vars
      BY <2>2, <2>8 DEF Launch, Die, Damage, vars
    <2>. QED
      BY <2>5, <2>6, <2>7, <2>8 DEF ProtectionNext, BotStep
  <1>. QED
    BY <1>2, <1>4 DEF KeepInv

(* The old backups are archives, in the order of their names.              *)
LEMMA KeepInit == InitDisk => KeepInv
  <1>. SUFFICES ASSUME InitDisk
                PROVE  KeepInv
    OBVIOUS
  <1>1. \A i \in Job : job[i] = NoBackup
    BY DEF InitDisk
  <1>2. NoBackup.stage = "idle" /\ ToSet(NoBackup.doomed) = {}
    BY DEF NoBackup, ToSet
  <1>3. \A i \in Job : ~Active(i)
    BY <1>1, <1>2 DEF Active
  <1>4. /\ paths = [m \in 1..OldBackups |-> <<m, "tar">>] /\ names = OldBackups
        /\ OldBackups \in Nat
    BY ProtectionAssumption DEF InitDisk
  <1>5. DOMAIN paths = 1..names /\ \A m \in 1..names : paths[m] = <<m, "tar">>
    BY <1>4
  <1>6. Spared
    BY <1>1, <1>2 DEF Spared
  <1>7. ASSUME NEW n \in 1..names
        PROVE  Intact(n)
    <2>1. ~OnDisk(<<n, "dir">>)
      BY <1>5 DEF OnDisk, ToSet
    <2>. QED
      BY <1>3, <2>1 DEF Intact, ListedDir
  <1>. DEFINE debris == [c \in Name |-> <<c, "dir">>]
  <1>8. Debris(debris)
    <2>1. debris \in [Name -> Path]
      BY DEF Path
    <2>. QED
      BY <1>3, <2>1 DEF Debris
  <1>9. ASSUME NEW n \in 1..names
        PROVE  Company(n, {}, debris)
    <2>1. ASSUME NEW p \in Path, NEW q \in Path, p[1] = n, Before(paths, p, q)
          PROVE  q[1] \in Calls(n, {})
      <3>1. PICK k, l \in 1..names : k < l /\ p = <<k, "tar">> /\ q = <<l, "tar">>
        BY <1>5, <2>1 DEF Before
      <3>2. k = n /\ q[1] = l
        BY <2>1, <3>1
      <3>3. l \in n..names
        BY <1>4, <3>1, <3>2
      <3>. QED
        BY <3>2, <3>3 DEF Calls
    <2>2. Cardinality({}) <= 2
      BY FS_EmptySet
    <2>. QED
      BY <1>3, <2>1, <2>2 DEF Company
  <1>10. CrowdInv
    <2>1. \A i, j \in Job : Active(i) /\ Active(j) /\ job[i].name = job[j].name => i = j
      BY <1>3
    <2>2. \A i \in Job : \A p \in ToSet(job[i].doomed) : p[1] <= names
      BY <1>1, <1>2
    <2>. HIDE DEF debris
    <2>. QED
      BY <1>8, <1>9, <2>1, <2>2 DEF CrowdInv
  <1>. QED
    BY <1>6, <1>7, <1>10 DEF KeepInv

LEMMA KeepIs ==
    ASSUME DiskInv, KeepInv
    PROVE  ListedIsWhole /\ ReportsWholeBackup
  <1>1. DiskTypes /\ CallTypes /\ FreshNames
    BY TypeParts DEF DiskInv
  <1>2. ASSUME NEW n \in Name, ListedTar(n) \/ ListedDir(n), Recent(n)
        PROVE  Whole(n)
    <2>1. ~(n > names)
      BY <1>1, <1>2 DEF FreshNames, ListedTar, ListedDir
    <2>2. n \in 1..names
      BY <1>1, <2>1 DEF CallTypes, Name
    <2>. QED
      BY <1>2, <2>2 DEF KeepInv, Intact, Whole
  <1>3. ASSUME NEW j \in Job, job[j].stage = "prune", Recent(job[j].name)
        PROVE  Whole(job[j].name)
    <2>1. job[j].name \in 1..names
      BY <1>1, <1>3, CallIs
    <2>2. Active(j)
      BY <1>3 DEF Active
    <2>. QED
      BY <1>3, <2>1, <2>2 DEF KeepInv, Intact, Safe
  <1>. QED
    BY <1>2, <1>3 DEF ListedIsWhole, ReportsWholeBackup

(* What list_backups offers is whole, wherever a backup or a clean-up was  *)
(* cut off, as long as three paths of each call of create_backup begun     *)
(* since, or under way then, fit into the limit; ...                       *)
THEOREM OffersWholeBackups == ProtectionSpec => []ListedIsWhole
  <1>1. Init => RepairInv /\ DiskInv /\ KeepInv
    BY DiskInit, KeepInit DEF Init, InitDisk, RepairInv, FilesOK, OneToRepair
  <1>2. RepairInv /\ DiskInv /\ KeepInv /\ [ProtectionNext]_vars =>
            (RepairInv /\ DiskInv /\ KeepInv)'
    BY RepairStep, DiskNext, KeepNext
  <1>3. DiskInv /\ KeepInv => ListedIsWhole
    BY KeepIs
  <1>. QED
    BY <1>1, <1>2, <1>3, PTL DEF ProtectionSpec

(* ... and what create_backup reports then is on the disk.                 *)
THEOREM ReportsWhatIsThere == ProtectionSpec => []ReportsWholeBackup
  <1>1. Init => RepairInv /\ DiskInv /\ KeepInv
    BY DiskInit, KeepInit DEF Init, InitDisk, RepairInv, FilesOK, OneToRepair
  <1>2. RepairInv /\ DiskInv /\ KeepInv /\ [ProtectionNext]_vars =>
            (RepairInv /\ DiskInv /\ KeepInv)'
    BY RepairStep, DiskNext, KeepNext
  <1>3. DiskInv /\ KeepInv => ReportsWholeBackup
    BY KeepIs
  <1>. QED
    BY <1>1, <1>2, <1>3, PTL DEF ProtectionSpec

-----------------------------------------------------------------------------
(* The process under the hot reloader *)

(* The reloader and the people around it do to the process what an         *)
(* environment of ProtectionSpec may do, or leave it alone.                *)
LEMMA ReloaderImplements == [Next]_allvars => [ProtectionNext]_vars
  <1>. SUFFICES ASSUME [Next]_allvars, ~UNCHANGED vars
                PROVE  ProtectionNext
    OBVIOUS
  <1>1. StopBot => ProtectionNext
    BY DEF StopBot, ProtectionNext
  <1>2. CASE BotStep \/ Damage \/ Die
    BY <1>2 DEF ProtectionNext
  <1>3. CASE ReloaderStep
    BY <1>1, <1>3 DEF ReloaderStep, PollChange, PollSignal, PollQuit, EndBuild, GraceExpires, Spawn,
                      ProtectionNext, vars
  <1>4. CASE (\E k \in Source : Edit(k)) \/ RequestRestart \/ Interrupt
    BY <1>4 DEF Edit, RequestRestart, Interrupt, ProtectionNext, vars
  <1>. QED
    BY <1>2, <1>3, <1>4 DEF Next, allvars

LEMMA ReloaderStarts == ReloaderInit => ProtectionInv
  <1>1. InitDisk /\ phase = "starting" => RepairInv /\ Alone /\ BackedUp /\ Accounted
    BY DEF InitDisk, RepairInv, FilesOK, OneToRepair, Alone, BackedUp, Accounted, Unprotected
  <1>. QED
    BY <1>1, DiskInit DEF ReloaderInit, ProtectionInv

(* Under the reloader, too, which kills the bot at any time and starts it  *)
(* again at once, the bot opens only sound databases and repairs only what *)
(* is backed up or noted as not copied, ...                                *)
THEOREM ReloaderProtects == Spec => StartsSound /\ BackedUpBeforeRepair
  <1>1. ProtectionInv /\ [ProtectionNext]_vars =>
            [phase # "ready" /\ phase' = "ready" =>
                sqlite' # "damaged" /\ chroma' # "bad"]_vars
    BY RepairStep DEF ProtectionInv
  <1>. QED
    BY <1>1, RepairOfSettled, ReloaderImplements, ReloaderStarts, ProtectionInvNext, PTL
       DEF Spec, StartsSound, BackedUpBeforeRepair

(* ... and what list_backups offers, and create_backup reports, is whole.  *)
THEOREM ReloaderKeepsBackups == Spec => []ListedIsWhole /\ []ReportsWholeBackup
  <1>1. ReloaderInit => ProtectionInv /\ KeepInv
    BY ReloaderStarts, KeepInit DEF ReloaderInit
  <1>2. ProtectionInv /\ KeepInv /\ [ProtectionNext]_vars => (ProtectionInv /\ KeepInv)'
    BY ProtectionInvNext, KeepNext DEF ProtectionInv
  <1>3. ProtectionInv /\ KeepInv => ListedIsWhole /\ ReportsWholeBackup
    BY KeepIs DEF ProtectionInv
  <1>. QED
    BY <1>1, <1>2, <1>3, ReloaderImplements, PTL DEF Spec

(* What the reloader keeps for itself.                                     *)
WatchTypes ==
    /\ watcher \in {"asleep", "building", "stopping", "stopped"}
    /\ edits \in [Source -> 0..MaxEdits]
    /\ prev \in [Source -> 0..MaxEdits]
    /\ loaded \in [Source -> 0..MaxEdits]
    /\ signal \in BOOLEAN /\ owed \in BOOLEAN /\ quit \in BOOLEAN

LEMMA WatchStarts == ReloaderInit => WatchTypes
  <1>. SUFFICES ASSUME ReloaderInit
                PROVE  WatchTypes
    OBVIOUS
  <1>1. edits \in [Source -> 0..MaxEdits] /\ prev = edits /\ loaded = edits
    BY ReloaderAssumption DEF ReloaderInit
  <1>2. watcher = "asleep" /\ signal = FALSE /\ owed = FALSE /\ quit = FALSE
    BY DEF ReloaderInit
  <1>. QED
    BY <1>1, <1>2 DEF WatchTypes

LEMMA WatchNext == WatchTypes /\ [Next]_allvars => WatchTypes'
  <1>. SUFFICES ASSUME WatchTypes, [Next]_allvars
                PROVE  WatchTypes'
    OBVIOUS
  <1>1. CASE UNCHANGED reloader
    BY <1>1 DEF WatchTypes, reloader
  <1>2. CASE ReloaderStep
    BY <1>1, <1>2 DEF WatchTypes, ReloaderStep, PollChange, PollSignal, PollQuit, EndBuild,
                      GraceExpires, Spawn, StopBot
  <1>3. ASSUME NEW k \in Source, Edit(k)
        PROVE  WatchTypes'
    <2>1. edits[k] \in 0..MaxEdits /\ edits[k] + 1 \in 0..MaxEdits
      BY <1>3, ReloaderAssumption DEF WatchTypes, Edit
    <2>2. edits' \in [Source -> 0..MaxEdits]
      BY <1>3, <2>1 DEF WatchTypes, Edit
    <2>. QED
      BY <1>3, <2>2 DEF WatchTypes, Edit
  <1>4. CASE RequestRestart \/ Interrupt
    BY <1>4 DEF WatchTypes, RequestRestart, Interrupt
  <1>. QED
    BY <1>1, <1>2, <1>3, <1>4 DEF Next, allvars

(* Every variable of the reloader and of the process it restarts keeps its *)
(* type.                                                                   *)
THEOREM ReloaderTypeCorrect == Spec => []ReloaderTypeOK
  <1>1. WatchTypes /\ ProtectionInv => ReloaderTypeOK
    BY DEF WatchTypes, ProtectionInv, DiskInv, ReloaderTypeOK
  <1>. QED
    BY <1>1, WatchStarts, WatchNext, ReloaderImplements, ReloaderStarts, ProtectionInvNext, PTL
       DEF Spec
=============================================================================
