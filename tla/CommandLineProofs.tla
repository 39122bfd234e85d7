------------------------- MODULE CommandLineProofs -------------------------
(***************************************************************************)
(* The parts of MCLocal that stand at its command line, proved for all     *)
(* values of their constants: setting up (ServerInstall, Onboarding), the  *)
(* command line and its editor (CliArgs, LineEditor), and the language     *)
(* server client (LspClient).  LocalProofs has the other parts; as there,  *)
(* each property needs the invariant of its own part alone.                *)
(***************************************************************************)
EXTENDS MCLocal, FiniteSetTheorems, SequenceTheorems, WellFoundedInduction, TLAPS

(* A set of numbers that is not empty has a least one.                     *)
LEMMA LeastOf ==
  ASSUME NEW T, T \subseteq Nat, T # {}
  PROVE  \E i \in T : \A j \in T : i <= j
<1>1. PICK x \in T : \A y \in T : ~(<<y, x>> \in OpToRel(<, Nat))
  BY NatLessThanWellFounded, WFMin
<1>2. \A y \in T : ~(y < x)
  BY <1>1 DEF OpToRel
<1> QED
  BY <1>2

(* Staging the server bundle.                                              *)
InstallOf(n) == [at : 1..n, bind : Binds, open : BOOLEAN]
StagedFile == [bind : Binds, whole : BOOLEAN]
InstallTypeOK ==
  /\ overlapped \in BOOLEAN
  /\ bundle \in [DOMAIN bundle -> StagedFile]
  /\ install \in [Installers -> {IdleInstaller} \cup InstallOf(Len(Order(platform)))]

(* Nobody disturbed an install: one runs at most, a file is there when all *)
(* before it are whole and of its install, and the one that runs has       *)
(* written what is there.                                                  *)
OneInstall == \A i, j \in Installers : install[i].at # 0 /\ install[j].at # 0 => i = j
FileAt(k) == Order(platform)[k]
IsWritten(f, bind, whole) ==
  f \in DOMAIN bundle /\ bundle[f].bind = bind /\ bundle[f].whole = whole
InOrder ==
  \A k \in DOMAIN Order(platform) : FileAt(k) \in DOMAIN bundle =>
    \A j \in 1..(k - 1) : IsWritten(FileAt(j), bundle[FileAt(k)].bind, TRUE)
WrittenBy(i) ==
  \A k \in DOMAIN Order(platform) :
    /\ k < install[i].at => IsWritten(FileAt(k), install[i].bind, TRUE)
    /\ k = install[i].at => IF install[i].open THEN IsWritten(FileAt(k), install[i].bind, FALSE)
                            ELSE FileAt(k) \notin DOMAIN bundle
    /\ k > install[i].at => FileAt(k) \notin DOMAIN bundle
Undisturbed ==
  ~overlapped => OneInstall /\ InOrder /\ \A i \in Installers : install[i].at # 0 => WrittenBy(i)

InstallInv == InstallTypeOK /\ Undisturbed

ArtifactNames == {"launcher", "unit", "plist", "register", "unregister", "manifest", "README"}

LEMMA OrderOf ==
  ASSUME NEW p
  PROVE  /\ Len(Order(p)) \in {4, 5} /\ DOMAIN Order(p) = 1..Len(Order(p))
         /\ Order(p)[1] = "launcher" /\ Order(p)[Len(Order(p)) - 1] = "manifest"
         /\ Order(p)[Len(Order(p))] = "README"
         /\ \A j, k \in 1..Len(Order(p)) : Order(p)[j] = Order(p)[k] => j = k
         /\ Files(p) = {Order(p)[k] : k \in 1..Len(Order(p))}
         /\ contract(p).required \subseteq Files(p) /\ Files(p) \subseteq contract(p).required \cup {"manifest"}
         /\ "manifest" \in Files(p) /\ "README" \in contract(p).required
<1>1. CASE p = "systemd_user"
  <2>1. /\ Order(p) \in Seq(ArtifactNames) /\ Len(Order(p)) = 4
        /\ Order(p)[1] = "launcher" /\ Order(p)[2] = "unit" /\ Order(p)[3] = "manifest" /\ Order(p)[4] = "README"
    <3>1. Artifacts(p) = <<"launcher", "unit">>
      BY <1>1 DEF Artifacts
    <3>2. <<"manifest", "README">> \in Seq(ArtifactNames)
      BY DEF ArtifactNames
    <3>3. Artifacts(p) \in Seq(ArtifactNames)
      BY <3>1 DEF ArtifactNames
    <3> QED BY <3>1, <3>2, <3>3 DEF Order
  <2>2. contract(p).required = {"README", "launcher", "unit"}
    BY <1>1 DEF contract
  <2>3. Files(p) = {"launcher", "unit", "manifest", "README"}
    BY <2>1 DEF Files
  <2> QED BY <2>1, <2>2, <2>3
<1>2. CASE p = "launchd_agent"
  <2>1. /\ Order(p) \in Seq(ArtifactNames) /\ Len(Order(p)) = 4
        /\ Order(p)[1] = "launcher" /\ Order(p)[2] = "plist" /\ Order(p)[3] = "manifest" /\ Order(p)[4] = "README"
    <3>1. Artifacts(p) = <<"launcher", "plist">>
      BY <1>2 DEF Artifacts
    <3>2. <<"manifest", "README">> \in Seq(ArtifactNames)
      BY DEF ArtifactNames
    <3>3. Artifacts(p) \in Seq(ArtifactNames)
      BY <3>1 DEF ArtifactNames
    <3> QED BY <3>1, <3>2, <3>3 DEF Order
  <2>2. contract(p).required = {"README", "launcher", "plist"}
    BY <1>2 DEF contract
  <2>3. Files(p) = {"launcher", "plist", "manifest", "README"}
    BY <2>1 DEF Files
  <2> QED BY <2>1, <2>2, <2>3
<1>3. CASE p \notin {"systemd_user", "launchd_agent"}
  <2>1. /\ Order(p) \in Seq(ArtifactNames) /\ Len(Order(p)) = 5
        /\ Order(p)[1] = "launcher" /\ Order(p)[2] = "register" /\ Order(p)[3] = "unregister" /\ Order(p)[4] = "manifest" /\ Order(p)[5] = "README"
    <3>1. Artifacts(p) = <<"launcher", "register", "unregister">>
      BY <1>3 DEF Artifacts
    <3>2. <<"manifest", "README">> \in Seq(ArtifactNames)
      BY DEF ArtifactNames
    <3>3. Artifacts(p) \in Seq(ArtifactNames)
      BY <3>1 DEF ArtifactNames
    <3> QED BY <3>1, <3>2, <3>3 DEF Order
  <2>2. contract(p).required = {"README", "launcher", "register", "unregister"}
    BY <1>3 DEF contract
  <2>3. Files(p) = {"launcher", "register", "unregister", "manifest", "README"}
    BY <2>1 DEF Files
  <2> QED BY <2>1, <2>2, <2>3
<1> QED BY <1>1, <1>2, <1>3

LEMMA InstallerOf ==
  ASSUME InstallInv, NEW i \in Installers
  PROVE  /\ install[i].at \in 0..Len(Order(platform)) /\ Len(Order(platform)) \in Nat
         /\ install[i].at # 0 => /\ install[i] \in InstallOf(Len(Order(platform)))
                                 /\ install[i].bind \in Binds /\ install[i].open \in BOOLEAN
<1>1. install[i] \in {IdleInstaller} \cup InstallOf(Len(Order(platform)))
  BY DEF InstallInv, InstallTypeOK
<1>2. IdleInstaller.at = 0
  BY DEF IdleInstaller
<1> QED BY <1>1, <1>2, OrderOf DEF InstallOf

LEMMA InstallMoves ==
  ASSUME InstallInv, InstallNext
  PROVE  InstallInv'
<1>0. PICK i \in Installers : begin(i) \/ open_file(i) \/ fill_file(i) \/ interrupt(i)
  BY DEF InstallNext
<1> DEFINE n == Len(Order(platform))
<1>t. /\ n \in {4, 5} /\ DOMAIN Order(platform) = 1..n
      /\ \A j, k \in 1..n : FileAt(j) = FileAt(k) => j = k
  BY OrderOf DEF FileAt
<1>b. /\ overlapped \in BOOLEAN /\ bundle \in [DOMAIN bundle -> StagedFile]
      /\ install \in [Installers -> {IdleInstaller} \cup InstallOf(n)]
  BY DEF InstallInv, InstallTypeOK
<1>i. IdleInstaller.at = 0
  BY DEF IdleInstaller
<1>1. CASE begin(i)
  <2>1. PICK b \in Binds : install' = [install EXCEPT ![i] = [at |-> 1, bind |-> b, open |-> FALSE]]
    BY <1>1 DEF begin
  <2>2. /\ install[i].at = 0 /\ bundle' = <<>> /\ platform' = platform
        /\ overlapped' = (overlapped \/ \E j \in Installers \ {i} : install[j].at # 0)
    BY <1>1 DEF begin
  <2>3. [at |-> 1, bind |-> b, open |-> FALSE] \in InstallOf(n)
    BY <1>t DEF InstallOf
  <2>4. InstallTypeOK'
    <3>1. <<>> \in [DOMAIN <<>> -> StagedFile]
      OBVIOUS
    <3> QED BY <1>b, <2>1, <2>2, <2>3, <3>1 DEF InstallTypeOK
  <2>5. /\ install'[i] = [at |-> 1, bind |-> b, open |-> FALSE]
        /\ \A j \in Installers \ {i} : install'[j] = install[j]
    BY <1>b, <2>1
  <2>6. Undisturbed'
    <3>0. DOMAIN bundle' = {}
      BY <2>2
    <3>1. ~overlapped' => \A j \in Installers : install'[j].at # 0 => j = i
      BY <2>2, <2>5
    <3>2. WrittenBy(i)'
      <4>1. DOMAIN Order(platform') = 1..n
        BY <1>t, <2>2
      <4> QED BY <1>t, <2>2, <2>5, <3>0, <4>1 DEF WrittenBy, FileAt, IsWritten
    <3>3. InOrder'
      BY <3>0 DEF InOrder
    <3> QED BY <3>1, <3>2, <3>3 DEF Undisturbed, OneInstall
  <2> QED BY <2>4, <2>6 DEF InstallInv
<1>2. ASSUME install[i].at # 0
      PROVE  /\ install[i].at \in 1..n /\ install[i] \in InstallOf(n)
             /\ install[i].bind \in Binds /\ install[i].open \in BOOLEAN
             /\ ~overlapped => /\ InOrder /\ WrittenBy(i)
                               /\ \A j \in Installers : install[j].at # 0 => j = i
  BY <1>2, InstallerOf DEF InstallInv, Undisturbed, OneInstall
<1> DEFINE place == install[i].at
           f == Order(platform)[place]
           Is2(g, b, w) == g \in DOMAIN bundle' /\ bundle'[g].bind = b /\ bundle'[g].whole = w
<1>n. n \in Nat /\ n > 1 /\ (place # 0 => place \in 1..n /\ f = FileAt(place))
  BY <1>t, <1>2 DEF FileAt
<1> HIDE DEF n, f
<1>3. CASE open_file(i)
  <2>1. /\ place # 0 /\ ~install[i].open /\ platform' = platform /\ overlapped' = overlapped
        /\ bundle' = Put(f, [bind |-> install[i].bind, whole |-> FALSE])
        /\ install' = [install EXCEPT ![i].open = TRUE]
    BY <1>3 DEF open_file, f
  <2> DEFINE v == [bind |-> install[i].bind, whole |-> FALSE]
             w == [install[i] EXCEPT !.open = TRUE]
  <2>2. v \in StagedFile /\ w \in InstallOf(n) /\ w.at = place /\ w.bind = install[i].bind /\ w.open
    BY <1>2, <2>1 DEF StagedFile, InstallOf
  <2>3. /\ DOMAIN bundle' = DOMAIN bundle \cup {f}
        /\ \A g \in DOMAIN bundle : g # f => bundle'[g] = bundle[g]
        /\ f \in DOMAIN bundle' => bundle'[f].bind = v.bind /\ bundle'[f].whole = v.whole
        /\ bundle' \in [DOMAIN bundle' -> StagedFile]
    BY <1>b, <2>1, <2>2 DEF Put
  <2>4. /\ install' \in [Installers -> {IdleInstaller} \cup InstallOf(n)]
        /\ install'[i] = w /\ \A j \in Installers \ {i} : install'[j] = install[j]
    BY <1>b, <2>1, <2>2
  <2>5. Undisturbed'
    <3> SUFFICES ASSUME ~overlapped PROVE (OneInstall /\ InOrder /\ \A j \in Installers : install[j].at # 0 => WrittenBy(j))'
      BY <2>1 DEF Undisturbed
    <3>1. InOrder /\ WrittenBy(i) /\ \A j \in Installers : install[j].at # 0 => j = i
      BY <1>2, <2>1
    <3> HIDE DEF v, w
    <3>2. \A j \in Installers : install'[j].at # 0 => j = i
      BY <2>4, <3>1
    <3>3. place \in 1..n /\ \A k \in 1..n : (FileAt(k))' = FileAt(k) /\ (FileAt(k) = f <=> k = place)
      BY <1>n, <1>t, <2>1 DEF FileAt
    <3>w. \A k \in 1..n :
            /\ k < place => IsWritten(FileAt(k), install[i].bind, TRUE)
            /\ k = place => IF install[i].open THEN IsWritten(FileAt(k), install[i].bind, FALSE)
                         ELSE FileAt(k) \notin DOMAIN bundle
            /\ k > place => FileAt(k) \notin DOMAIN bundle
      BY <1>t, <3>1 DEF WrittenBy
    <3>4. WrittenBy(i)'
      <4>1. \A k \in 1..n :
            /\ k < place => Is2(FileAt(k), install[i].bind, TRUE)
            /\ k = place => Is2(FileAt(k), install[i].bind, FALSE)
            /\ k > place => FileAt(k) \notin DOMAIN bundle'
        BY <2>3, <3>3, <3>w DEF v, IsWritten
      <4>2. DOMAIN Order(platform') = 1..n
        BY <1>t, <2>1
      <4>3. install'[i].at = place /\ install'[i].bind = install[i].bind /\ install'[i].open
        BY <2>2, <2>4
      <4>4. SUFFICES ASSUME NEW k \in 1..n
                     PROVE  /\ k < place => Is2((FileAt(k))', install'[i].bind, TRUE)
                            /\ k = place => Is2((FileAt(k))', install'[i].bind, FALSE)
                            /\ k > place => (FileAt(k))' \notin DOMAIN bundle'
        BY <4>2, <4>3 DEF WrittenBy, IsWritten
      <4> QED BY <3>3, <4>1, <4>3
    <3>5. InOrder'
      <4> SUFFICES ASSUME NEW k \in 1..n, FileAt(k) \in DOMAIN bundle', NEW j \in 1..(k - 1)
                   PROVE  Is2(FileAt(j), bundle'[FileAt(k)].bind, TRUE)
        <5>1. DOMAIN Order(platform') = 1..n
          BY <1>t, <2>1
        <5>2. platform' = platform
          BY <2>1
        <5> QED BY <1>n, <3>3, <5>1, <5>2 DEF InOrder, IsWritten, FileAt
      <4>1. CASE k = place
        BY <1>n, <2>3, <3>3, <3>w, <4>1 DEF v, IsWritten
      <4>2. CASE k # place
        <5>1. k < place
          BY <1>n, <2>3, <3>3, <3>w, <4>2 DEF v, IsWritten
        <5> QED BY <1>n, <2>3, <3>3, <3>w, <4>2, <5>1 DEF v, IsWritten
      <4> QED BY <4>1, <4>2
    <3> QED BY <3>2, <3>4, <3>5 DEF OneInstall
  <2> QED BY <1>b, <2>1, <2>3, <2>4, <2>5 DEF InstallInv, InstallTypeOK, n
<1>4. CASE fill_file(i)
  <2>1. /\ place # 0 /\ install[i].open /\ platform' = platform /\ overlapped' = overlapped
        /\ bundle' = IF f \in DOMAIN bundle
                     THEN Put(f, [bind |-> install[i].bind, whole |-> TRUE]) ELSE bundle
        /\ install' = [install EXCEPT ![i] = IF place = n THEN IdleInstaller
                                             ELSE [at |-> place + 1, bind |-> install[i].bind, open |-> FALSE]]
    BY <1>4 DEF fill_file, f, n
  <2> DEFINE v == [bind |-> install[i].bind, whole |-> TRUE]
             w == IF place = n THEN IdleInstaller ELSE [at |-> place + 1, bind |-> install[i].bind, open |-> FALSE]
  <2>2. v \in StagedFile /\ w \in {IdleInstaller} \cup InstallOf(n)
        /\ (place = n => w.at = 0) /\ (place # n => w.at = place + 1 /\ w.bind = install[i].bind /\ ~w.open)
    <3>1. v \in StagedFile
      BY <1>2, <2>1 DEF StagedFile
    <3>2. CASE place = n
      BY <1>i, <1>n, <2>1, <3>1, <3>2
    <3>3. CASE place # n
      <4>1. place + 1 \in 1..n
        BY <1>n, <2>1, <3>3
      <4> QED BY <1>2, <2>1, <3>1, <3>3, <4>1 DEF InstallOf
    <3> QED BY <3>2, <3>3
  <2>3. /\ DOMAIN bundle' = DOMAIN bundle
        /\ \A g \in DOMAIN bundle : g # f => bundle'[g] = bundle[g]
        /\ f \in DOMAIN bundle' => bundle'[f].bind = v.bind /\ bundle'[f].whole = v.whole
        /\ bundle' \in [DOMAIN bundle' -> StagedFile]
    BY <1>b, <2>1, <2>2 DEF Put
  <2>4. /\ install' \in [Installers -> {IdleInstaller} \cup InstallOf(n)]
        /\ install'[i] = w /\ \A j \in Installers \ {i} : install'[j] = install[j]
    BY <1>b, <2>1, <2>2
  <2>5. Undisturbed'
    <3> SUFFICES ASSUME ~overlapped PROVE (OneInstall /\ InOrder /\ \A j \in Installers : install[j].at # 0 => WrittenBy(j))'
      BY <2>1 DEF Undisturbed
    <3>1. InOrder /\ WrittenBy(i) /\ \A j \in Installers : install[j].at # 0 => j = i
      BY <1>2, <2>1
    <3> HIDE DEF v, w
    <3>2. \A j \in Installers : install'[j].at # 0 => j = i
      BY <2>4, <3>1
    <3>3. place \in 1..n /\ \A k \in 1..n : (FileAt(k))' = FileAt(k) /\ (FileAt(k) = f <=> k = place)
      BY <1>n, <1>t, <2>1 DEF FileAt
    <3>w. \A k \in 1..n :
            /\ k < place => IsWritten(FileAt(k), install[i].bind, TRUE)
            /\ k = place => IF install[i].open THEN IsWritten(FileAt(k), install[i].bind, FALSE)
                         ELSE FileAt(k) \notin DOMAIN bundle
            /\ k > place => FileAt(k) \notin DOMAIN bundle
      BY <1>t, <3>1 DEF WrittenBy
    <3>4. \A k \in 1..n : /\ k <= place => Is2(FileAt(k), install[i].bind, TRUE)
                          /\ k > place => FileAt(k) \notin DOMAIN bundle'
      <4>1. DOMAIN bundle' = DOMAIN bundle /\ (f \in DOMAIN bundle' => bundle'[f].bind = install[i].bind /\ bundle'[f].whole = TRUE)
        BY <2>3 DEF v
      <4>2. \A k \in 1..n : k < place => Is2(FileAt(k), install[i].bind, TRUE)
        BY <1>n, <2>3, <3>3, <3>w, <4>1 DEF IsWritten
      <4>3. Is2(FileAt(place), install[i].bind, TRUE)
        BY <2>1, <3>3, <3>w, <4>1 DEF IsWritten
      <4>4. \A k \in 1..n : k > place => FileAt(k) \notin DOMAIN bundle'
        BY <3>3, <3>w, <4>1
      <4> QED BY <1>n, <3>3, <4>2, <4>3, <4>4
    <3>5. install'[i].at # 0 => WrittenBy(i)'
      <4>2. DOMAIN Order(platform') = 1..n
        BY <1>t, <2>1
      <4>3. SUFFICES ASSUME install'[i].at # 0 PROVE WrittenBy(i)'
        OBVIOUS
      <4>4. install'[i].at = place + 1 /\ install'[i].bind = install[i].bind /\ ~install'[i].open
        BY <2>2, <2>4, <4>3
      <4>5. SUFFICES ASSUME NEW k \in 1..n
                     PROVE  /\ k < install'[i].at => Is2((FileAt(k))', install'[i].bind, TRUE)
                            /\ k = install'[i].at => (FileAt(k))' \notin DOMAIN bundle'
                            /\ k > install'[i].at => (FileAt(k))' \notin DOMAIN bundle'
        BY <4>2, <4>4 DEF WrittenBy, IsWritten
      <4> QED BY <1>n, <3>3, <3>4, <4>4
    <3>6. InOrder'
      <4> SUFFICES ASSUME NEW k \in 1..n, FileAt(k) \in DOMAIN bundle', NEW j \in 1..(k - 1)
                   PROVE  Is2(FileAt(j), bundle'[FileAt(k)].bind, TRUE)
        <5>1. DOMAIN Order(platform') = 1..n
          BY <1>t, <2>1
        <5>2. platform' = platform
          BY <2>1
        <5> QED BY <1>n, <3>3, <5>1, <5>2 DEF InOrder, IsWritten, FileAt
      <4>1. k <= place /\ j <= place /\ v.bind = install[i].bind
        BY <1>n, <3>3, <3>4 DEF v
      <4> QED BY <1>n, <3>4, <4>1 DEF v, IsWritten
    <3> QED BY <3>2, <3>5, <3>6 DEF OneInstall
  <2> QED BY <1>b, <2>1, <2>3, <2>4, <2>5 DEF InstallInv, InstallTypeOK, n
<1>5. CASE interrupt(i)
  <2>1. /\ place # 0 /\ install' = [install EXCEPT ![i] = IdleInstaller]
        /\ UNCHANGED <<platform, bundle, overlapped>>
    BY <1>5 DEF interrupt
  <2>2. /\ install' \in [Installers -> {IdleInstaller} \cup InstallOf(n)]
        /\ install'[i].at = 0 /\ \A j \in Installers \ {i} : install'[j] = install[j]
    BY <1>b, <1>i, <2>1
  <2>3. ~overlapped => \A j \in Installers : install'[j].at = 0
    BY <1>2, <2>1, <2>2
  <2>4. Undisturbed'
    BY <1>2, <2>1, <2>3 DEF Undisturbed, OneInstall, InOrder, FileAt, IsWritten
  <2> QED BY <1>b, <2>1, <2>2, <2>4 DEF InstallInv, InstallTypeOK
<1> QED BY <1>0, <1>1, <1>3, <1>4, <1>5

LEMMA InstallStart ==
  ASSUME InstallInit
  PROVE  InstallInv
<1>1. bundle = <<>> /\ install = [i \in Installers |-> IdleInstaller] /\ overlapped = FALSE
  BY DEF InstallInit
<1>2. DOMAIN bundle = {} /\ bundle \in [DOMAIN bundle -> StagedFile]
  BY <1>1
<1>3. \A i \in Installers : install[i].at = 0
  BY <1>1 DEF IdleInstaller
<1> QED BY <1>1, <1>2, <1>3 DEF InstallInv, InstallTypeOK, Undisturbed, OneInstall, InOrder

LEMMA InstallIdle ==
  ASSUME InstallInv, UNCHANGED installVars
  PROVE  InstallInv'
BY DEF InstallInv, InstallTypeOK, Undisturbed, OneInstall, InOrder, WrittenBy, FileAt, IsWritten, installVars

LEMMA InstallHolds ==
  ASSUME InstallInv
  PROVE  StagedIsUsable /\ InstalledIsRecognised /\ NotStagedEarly
<1> DEFINE n == Len(Order(platform))
<1>1. /\ n \in {4, 5} /\ DOMAIN Order(platform) = 1..n /\ FileAt(1) = "launcher"
      /\ FileAt(n - 1) = "manifest" /\ FileAt(n) = "README"
      /\ \A j, k \in 1..n : FileAt(j) = FileAt(k) => j = k
      /\ Files(platform) = {FileAt(k) : k \in 1..n}
      /\ contract(platform).required \subseteq Files(platform)
      /\ "manifest" \in Files(platform) /\ "README" \in contract(platform).required
      /\ "launcher" \in Files(platform)
  BY OrderOf DEF FileAt
<1>2. inspect = "present" => /\ "manifest" \in DOMAIN bundle /\ bundle["manifest"].whole
                             /\ bundle["launcher"].whole /\ "README" \in DOMAIN bundle
                             /\ bundle["launcher"].bind = bundle["manifest"].bind
  BY <1>1 DEF inspect, parse_status, validate_artifacts
<1>3. ASSUME inspect = "present", ~overlapped, NEW f \in Files(platform) \ {"README"}
      PROVE  f \in DOMAIN bundle /\ bundle[f] = bundle["manifest"]
  <2>1. PICK k \in 1..(n - 1) : f = FileAt(k)
    BY <1>1, <1>3
  <2>2. /\ FileAt(k) \in DOMAIN bundle
        /\ bundle[FileAt(k)].bind = bundle["README"].bind /\ bundle[FileAt(k)].whole = TRUE
        /\ bundle["manifest"].bind = bundle["README"].bind /\ bundle["manifest"].whole = TRUE
    BY <1>1, <1>2, <1>3 DEF InstallInv, Undisturbed, InOrder, IsWritten
  <2>3. bundle[f] \in StagedFile /\ bundle["manifest"] \in StagedFile
    BY <1>2, <1>3, <2>1, <2>2 DEF InstallInv, InstallTypeOK
  <2> QED BY <2>1, <2>2, <2>3 DEF StagedFile
<1>4. StagedIsUsable
  BY <1>2, <1>3 DEF StagedIsUsable
<1>5. InstalledIsRecognised
  <2> SUFFICES ASSUME Files(platform) \subseteq DOMAIN bundle,
                      \A f \in Files(platform) : bundle[f] = [bind |-> bundle["manifest"].bind, whole |-> TRUE]
               PROVE  inspect = "present"
    BY DEF InstalledIsRecognised
  <2>1. bundle["launcher"].whole /\ bundle["manifest"].whole
        /\ bundle["launcher"].bind = bundle["manifest"].bind
    BY <1>1
  <2>2. staged_service_label(platform) = contract(platform).label
    BY DEF staged_service_label, contract
  <2>3. parse_status
    BY <1>1, <2>1, <2>2 DEF parse_status, validate_artifacts
  <2> QED BY <1>1, <2>1, <2>3 DEF inspect
<1>6. NotStagedEarly
  <2> SUFFICES ASSUME inspect = "present", ~overlapped, NEW i \in Installers, install[i].at # 0
               PROVE  Order(platform)[install[i].at] = "README" /\ install[i].open
    BY DEF NotStagedEarly
  <2>1. install[i].at \in 1..n /\ WrittenBy(i)
    BY InstallerOf, <1>1 DEF InstallInv, Undisturbed
  <2>2. install[i].at = n /\ install[i].open
    BY <1>1, <1>2, <2>1 DEF WrittenBy, IsWritten
  <2> QED BY <1>1, <2>2 DEF FileAt
<1> QED BY <1>4, <1>5, <1>6

(* Onboarding, init and the doctor.                                        *)
(* The fields a world has, whatever the settings' models are called.       *)
WorldShape(w) ==
  /\ w \in [user : {w.user}, project : {w.project}, config : {w.config}, oauth : {w.oauth},
            saved : {w.saved}, anthropic : {w.anthropic}, xai : {w.xai}]
  /\ w.anthropic \in Keys /\ w.xai \in Keys

IgnoreLine == {original[i] : i \in DOMAIN original}
              \cup {Comment, IgnoreEntries[1], IgnoreEntries[2], "theirs"}
IgnoreFile == [is : {"absent", "file", "unreadable"}, lines : Seq(IgnoreLine)]
RepoFiles == [dir : FileOrDir, json : FileOrDir, md : FileOrDir, ignore : IgnoreFile]

OnboardTypeOK ==
  /\ WorldShape(world)
  /\ repo \in RepoFiles
  /\ lines \in Seq(IgnoreLine) /\ original \in Seq(IgnoreLine)
  /\ added \in Nat /\ unseen \in BOOLEAN

(* An assessment is of one world, and of a model whose alias is resolved.  *)
Right(a) ==
  /\ a.model # Unset /\ resolve_model_alias(a.model) = a.model
  /\ a.auth = assess_auth(a.of, a.model)
  /\ a.of.anthropic \in Keys /\ a.of.xai \in Keys
Assessed ==
  IF stage = "start" THEN verdict = Unset /\ assessment.model = Unset ELSE Right(assessment)

(* How far init has come.                                                  *)
InitProgress ==
  /\ stage \in {"write_json", "read_ignore", "write_ignore", "write_md"} => repo.dir = "dir"
  /\ stage \in {"read_ignore", "write_ignore", "write_md"} => repo.json # "absent"
  /\ stage = "write_md" => /\ repo.ignore.is = "file"
                           /\ \A x \in {IgnoreEntries[1], IgnoreEntries[2]} : Has(repo.ignore.lines, x)

(* What init may have made of the lines it started from.                   *)
Kept(text, n) ==
  /\ IsPrefix(original, text)
  /\ Times(text, "theirs") = Times(original, "theirs") + n
  /\ \A x \in {Comment, IgnoreEntries[1], IgnoreEntries[2]} : Times(text, x) \in {1, Times(original, x)}
LinesKept ==
  ~unseen => Kept(repo.ignore.lines, added) /\ (stage = "write_ignore" => lines = repo.ignore.lines)

OnboardInv ==
  /\ OnboardTypeOK /\ Assessed /\ InitProgress /\ LinesKept
  /\ ReadyAfterInit /\ AdviceForNextRun /\ HintsFit /\ GuidanceComplete

LEMMA EntryNames ==
  /\ IgnoreEntries[1] = "settings.local" /\ IgnoreEntries[2] = "sessions"
  /\ DOMAIN IgnoreEntries = 1..2 /\ Comment = "comment"
BY DEF IgnoreEntries, Comment

(* Occurrences in a text, and one line more.                               *)
LEMMA TimesFinite ==
  ASSUME NEW L, NEW text \in Seq(L), NEW x
  PROVE  /\ IsFiniteSet({i \in DOMAIN text : text[i] = x}) /\ Times(text, x) \in Nat
         /\ ~Has(text, x) => Times(text, x) = 0
<1>1. DOMAIN text = 1..Len(text) /\ Len(text) \in Nat
  OBVIOUS
<1>2. IsFiniteSet({i \in DOMAIN text : text[i] = x})
  BY <1>1, FS_Interval, FS_Subset, 1 \in Int, Len(text) \in Int
<1>3. ~Has(text, x) => {i \in DOMAIN text : text[i] = x} = {}
  BY DEF Has
<1> QED BY <1>2, <1>3, FS_CardinalityType, FS_EmptySet DEF Times

LEMMA TimesAppend ==
  ASSUME NEW L, NEW text \in Seq(L), NEW y \in L, NEW x
  PROVE  Times(Append(text, y), x) = IF y = x THEN Times(text, x) + 1 ELSE Times(text, x)
<1> DEFINE A == {i \in DOMAIN text : text[i] = x}
           B == {i \in DOMAIN Append(text, y) : Append(text, y)[i] = x}
<1>1. /\ DOMAIN Append(text, y) = 1..(Len(text) + 1) /\ DOMAIN text = 1..Len(text) /\ Len(text) \in Nat
      /\ \A i \in 1..Len(text) : Append(text, y)[i] = text[i]
      /\ Append(text, y)[Len(text) + 1] = y
  OBVIOUS
<1>2. IsFiniteSet(A) /\ Cardinality(A) = Times(text, x) /\ Cardinality(B) = Times(Append(text, y), x)
  BY TimesFinite DEF Times
<1>3. B = IF y = x THEN A \cup {Len(text) + 1} ELSE A
  BY <1>1
<1>4. Len(text) + 1 \notin A
  BY <1>1
<1> HIDE DEF A, B
<1> QED BY <1>2, <1>3, <1>4, FS_AddElement

LEMMA PrefixAppend ==
  ASSUME NEW L, NEW text \in Seq(L), NEW t \in Seq(L), IsPrefix(text, t), NEW y \in L
  PROVE  IsPrefix(text, Append(t, y))
<1>1. Len(text) \in Nat /\ Len(t) \in Nat /\ Len(Append(t, y)) = Len(t) + 1
      /\ \A i \in 1..Len(t) : Append(t, y)[i] = t[i]
  OBVIOUS
<1>2. Len(text) <= Len(t) /\ SubSeq(text, 1, Len(text)) = SubSeq(t, 1, Len(text))
  BY DEF IsPrefix
<1>3. SubSeq(Append(t, y), 1, Len(text)) = SubSeq(t, 1, Len(text))
  BY <1>1, <1>2
<1> QED BY <1>1, <1>2, <1>3 DEF IsPrefix

LEMMA KeptSelf ==
  ASSUME original \in Seq(IgnoreLine)
  PROVE  Kept(original, 0)
<1>1. IsPrefix(original, original)
  BY DEF IsPrefix
<1>2. Times(original, "theirs") \in Nat
  BY TimesFinite
<1> QED BY <1>1, <1>2 DEF Kept

LEMMA KeptTheirs ==
  ASSUME original \in Seq(IgnoreLine), NEW text \in Seq(IgnoreLine), NEW n \in Nat, Kept(text, n)
  PROVE  Append(text, "theirs") \in Seq(IgnoreLine) /\ Kept(Append(text, "theirs"), n + 1)
         /\ \A x : Has(text, x) => Has(Append(text, "theirs"), x)
<1>1. "theirs" \in IgnoreLine
  BY DEF IgnoreLine
<1>2. Append(text, "theirs") \in Seq(IgnoreLine) /\ DOMAIN text = 1..Len(text) /\ Len(text) \in Nat
      /\ DOMAIN Append(text, "theirs") = 1..(Len(text) + 1)
      /\ \A i \in 1..Len(text) : Append(text, "theirs")[i] = text[i]
  BY <1>1
<1>3. IsPrefix(original, Append(text, "theirs"))
  BY <1>1, PrefixAppend DEF Kept
<1>4. Times(Append(text, "theirs"), "theirs") = Times(original, "theirs") + (n + 1)
  <2>1. Times(original, "theirs") \in Nat
    BY TimesFinite
  <2> QED BY <1>1, <2>1, TimesAppend DEF Kept
<1>5. ASSUME NEW x \in {Comment, IgnoreEntries[1], IgnoreEntries[2]}
      PROVE  Times(Append(text, "theirs"), x) \in {1, Times(original, x)}
  <2>1. x # "theirs"
    BY EntryNames
  <2> QED BY <1>1, <2>1, TimesAppend DEF Kept
<1>6. \A x : Has(text, x) => Has(Append(text, "theirs"), x)
  BY <1>2 DEF Has
<1> QED BY <1>2, <1>3, <1>4, <1>5, <1>6 DEF Kept

LEMMA KeptLine ==
  ASSUME original \in Seq(IgnoreLine), NEW text \in Seq(IgnoreLine), NEW n,
         NEW x \in {Comment, IgnoreEntries[1], IgnoreEntries[2]}
  PROVE  /\ with_line(text, x) \in Seq(IgnoreLine) /\ Has(with_line(text, x), x)
         /\ Kept(text, n) => Kept(with_line(text, x), n)
         /\ \A y : Has(text, y) => Has(with_line(text, x), y)
<1>1. CASE Has(text, x)
  BY <1>1 DEF with_line
<1>2. CASE ~Has(text, x)
  <2>0. with_line(text, x) = Append(text, x)
    BY <1>2 DEF with_line
  <2>1. x \in IgnoreLine /\ x # "theirs"
    BY EntryNames DEF IgnoreLine
  <2>2. Append(text, x) \in Seq(IgnoreLine) /\ DOMAIN text = 1..Len(text) /\ Len(text) \in Nat
        /\ DOMAIN Append(text, x) = 1..(Len(text) + 1) /\ Append(text, x)[Len(text) + 1] = x
        /\ \A i \in 1..Len(text) : Append(text, x)[i] = text[i]
    BY <2>1
  <2>3. Has(Append(text, x), x) /\ \A y : Has(text, y) => Has(Append(text, x), y)
    BY <2>2 DEF Has
  <2>4. ASSUME Kept(text, n)
        PROVE  Kept(Append(text, x), n)
    <3>1. IsPrefix(original, Append(text, x))
      BY <2>1, <2>4, PrefixAppend DEF Kept
    <3>2. Times(Append(text, x), "theirs") = Times(text, "theirs")
      BY <2>1, TimesAppend
    <3>3. ASSUME NEW y \in {Comment, IgnoreEntries[1], IgnoreEntries[2]}
          PROVE  Times(Append(text, x), y) \in {1, Times(original, y)}
      <4>1. CASE y = x
        <5>1. Times(text, x) = 0
          BY <1>2, TimesFinite
        <5> QED BY <2>1, <4>1, <5>1, TimesAppend
      <4>2. CASE y # x
        BY <2>1, <2>4, <4>2, TimesAppend DEF Kept
      <4> QED BY <4>1, <4>2
    <3> QED BY <2>4, <3>1, <3>2, <3>3 DEF Kept
  <2> QED BY <2>0, <2>2, <2>3, <2>4
<1> QED BY <1>1, <1>2

LEMMA KeptEntries ==
  ASSUME original \in Seq(IgnoreLine), NEW text \in Seq(IgnoreLine), NEW n
  PROVE  /\ with_entries(text) \in Seq(IgnoreLine)
         /\ Kept(text, n) => Kept(with_entries(text), n)
         /\ \A x \in {IgnoreEntries[1], IgnoreEntries[2]} : Has(with_entries(text), x)
<1> DEFINE s1 == with_line(text, Comment)
           s2 == with_line(s1, IgnoreEntries[1])
<1>1. s1 \in Seq(IgnoreLine) /\ (Kept(text, n) => Kept(s1, n))
  BY KeptLine
<1> HIDE DEF s1
<1>2. s2 \in Seq(IgnoreLine) /\ (Kept(s1, n) => Kept(s2, n)) /\ Has(s2, IgnoreEntries[1])
  BY <1>1, KeptLine
<1> HIDE DEF s2
<1>3. LET s3 == with_line(s2, IgnoreEntries[2]) IN
      /\ s3 \in Seq(IgnoreLine) /\ (Kept(s2, n) => Kept(s3, n)) /\ Has(s3, IgnoreEntries[2])
      /\ \A x : Has(s2, x) => Has(s3, x)
  BY <1>2, KeptLine
<1> QED BY <1>1, <1>2, <1>3 DEF with_entries, s1, s2

(* An assessment that was just made.                                       *)
LEMMA AliasResolved ==
  ASSUME NEW m
  PROVE  /\ resolve_model_alias(resolve_model_alias(m)) = resolve_model_alias(m)
         /\ m # Unset => resolve_model_alias(m) # Unset
<1>1. CASE m = "opus"
  BY <1>1 DEF resolve_model_alias, Unset
<1>2. CASE m = "grok"
  BY <1>2 DEF resolve_model_alias, Unset
<1>3. CASE m \notin {"opus", "grok"}
  <2>1. resolve_model_alias(m) = m
    BY <1>3 DEF resolve_model_alias
  <2> QED BY <2>1
<1> QED BY <1>1, <1>2, <1>3

LEMMA JustAssessed ==
  ASSUME NEW w, WorldShape(w), NEW r, NEW q
  PROVE  /\ Right(collect_assessment(w, r, q))
         /\ collect_assessment(w, r, q).repo_ready = assess_repo_init(r)
         /\ q # Unset => collect_assessment(w, r, q).model = resolve_model_alias(q)
<1> DEFINE c == IF w.config = "broken" THEN Unset ELSE configured_model(w)
           wanted == IF q # Unset THEN q ELSE c
           named == IF wanted = Unset THEN DEFAULT_MODEL ELSE wanted
           m == resolve_model_alias(named)
<1>1. collect_assessment(w, r, q) =
        [model |-> m, auth |-> assess_auth(w, m), repo_ready |-> assess_repo_init(r), of |-> w]
  BY DEF collect_assessment
<1>2. named # Unset /\ (q # Unset => named = q)
  BY DEF DEFAULT_MODEL, Unset
<1> HIDE DEF named
<1>3. m # Unset /\ resolve_model_alias(m) = m
  BY <1>2, AliasResolved
<1> HIDE DEF m
<1>4. w.anthropic \in Keys /\ w.xai \in Keys
  BY DEF WorldShape
<1> QED BY <1>1, <1>2, <1>3, <1>4 DEF Right, m

(* What the wizard says of an assessment is what the bootstrap finds.      *)
LEMMA AdviceHolds ==
  ASSUME Assessed
  PROVE  ReadyMeansUsable /\ UsableIsSaid
<1> SUFFICES ASSUME assessment.model # Unset
             PROVE  ReadyMeansUsable /\ UsableIsSaid
  BY DEF ReadyMeansUsable, UsableIsSaid
<1> DEFINE w == assessment.of
           m == assessment.model
<1>1. /\ resolve_model_alias(m) = m /\ assessment.auth = assess_auth(w, m)
      /\ w.anthropic \in Keys /\ w.xai \in Keys /\ m # Unset
  BY DEF Assessed, Right
<1>2. doctor_active_model_auth_check(w, m, FALSE) = "ok" <=>
        IF detect_provider_kind(w, m) = "openyak"
        THEN read_env_non_empty(w.anthropic) \/ w.saved = "ready"
        ELSE read_env_non_empty(w.xai)
  BY <1>1 DEF doctor_active_model_auth_check, startup_auth
<1>3. CASE detect_provider_kind(w, m) = "openyak"
  <2>1. assessment.auth = assess_openyak_auth(w)
    BY <1>1, <1>3 DEF assess_auth
  <2>2. assessment.auth.summary = "ready" => env_var_present(w.anthropic) \/ w.saved = "ready"
    <3>1. CASE ~env_var_present(w.anthropic) /\ w.saved # "ready"
      BY <2>1, <3>1 DEF assess_openyak_auth, Auth
    <3> QED BY <3>1
  <2>3. ASSUME w.oauth = "complete", w.config = "ok", env_var_present(w.anthropic) \/ w.saved = "ready"
        PROVE  assessment.auth.summary = "ready"
    <3>1. CASE env_var_present(w.anthropic)
      BY <2>1, <3>1 DEF assess_openyak_auth, Auth
    <3>2. CASE ~env_var_present(w.anthropic) /\ w.saved = "ready"
      BY <2>1, <2>3, <3>2 DEF assess_openyak_auth, Auth, configured_oauth_config, Unset
    <3> QED BY <2>3, <3>1, <3>2
  <2>4. ReadyMeansUsable
    BY <1>2, <1>3, <2>2 DEF ReadyMeansUsable, env_var_present, read_env_non_empty, Unset
  <2>5. UsableIsSaid
    BY <1>1, <1>2, <1>3, <2>3 DEF UsableIsSaid, env_var_present, read_env_non_empty, Unset, Keys
  <2> QED BY <2>4, <2>5
<1>4. CASE detect_provider_kind(w, m) # "openyak"
  <2>1. assessment.auth.summary = "ready" <=> env_var_present(w.xai)
    BY <1>1, <1>4 DEF assess_auth, assess_env_auth, Auth
  <2> QED
    BY <1>1, <1>2, <1>4, <2>1
       DEF ReadyMeansUsable, UsableIsSaid, env_var_present, read_env_non_empty, Unset, Keys
<1> QED BY <1>3, <1>4

(* The doctor's view of the daemon.                                        *)
LEMMA CountReady ==
  ASSUME NEW servers \in SeqOf(Servers, 2)
  PROVE  /\ Count(servers, "degraded") \in Nat /\ Count(servers, "auth_required") \in Nat
         /\ (Count(servers, "degraded") = 0 /\ Count(servers, "auth_required") = 0) =>
              Count(servers, "ready") = Len(servers)
<1>1. PICK m \in 0..2 : servers \in [1..m -> Servers]
  BY DEF SeqOf
<1>2. m \in Nat /\ m \in Int /\ 1 \in Int /\ DOMAIN servers = 1..m /\ Len(servers) = m
  BY <1>1
<1>3. \A q : IsFiniteSet({i \in DOMAIN servers : inspect_mcp_server(servers[i]) = q})
  BY <1>2, FS_Interval, FS_Subset
<1>4. \A i \in 1..m : inspect_mcp_server(servers[i]) \in {"ready", "auth_required", "degraded"}
  BY DEF inspect_mcp_server
<1>5. ASSUME Count(servers, "degraded") = 0, Count(servers, "auth_required") = 0
      PROVE  Count(servers, "ready") = m
  <2>1. \A i \in 1..m : inspect_mcp_server(servers[i]) \notin {"degraded", "auth_required"}
    <3>1. {i \in DOMAIN servers : inspect_mcp_server(servers[i]) = "degraded"} = {}
      BY <1>3, <1>5, FS_EmptySet DEF Count
    <3>2. {i \in DOMAIN servers : inspect_mcp_server(servers[i]) = "auth_required"} = {}
      BY <1>3, <1>5, FS_EmptySet DEF Count
    <3> QED BY <1>2, <3>1, <3>2
  <2>2. {i \in DOMAIN servers : inspect_mcp_server(servers[i]) = "ready"} = 1..m
    BY <1>2, <1>4, <2>1
  <2>3. Cardinality(1..m) = m
    BY <1>2, FS_Interval
  <2> QED BY <2>2, <2>3 DEF Count
<1> QED BY <1>2, <1>3, <1>5, FS_CardinalityType DEF Count

LEMMA CapabilityOf ==
  ASSUME NEW servers \in SeqOf(Servers, 2), NEW config \in {"ok", "broken"}
  PROVE  LET c == mcp_capability(servers, config) IN
         /\ c.status \in {"degraded", "auth_required"} =>
              c.actions # {} /\ c.actions \subseteq {"repair mcp", "mcp auth", "repair settings"}
         /\ c.status = "ready" => c.ready = Len(servers) /\ c.actions = {}
<1> DEFINE d == Count(servers, "degraded")
           a == Count(servers, "auth_required")
           c == mcp_capability(servers, config)
<1>1. d \in Nat /\ a \in Nat /\ (d = 0 /\ a = 0 => Count(servers, "ready") = Len(servers))
  BY CountReady
<1>2. CASE config = "broken"
  <2>1. mcp_capability(servers, config) = [status |-> "degraded", ready |-> 0, actions |-> {"repair settings"}]
    BY <1>2 DEF mcp_capability
  <2>2. c.status = "degraded" /\ c.actions = {"repair settings"}
    <3> DEFINE some == {"repair settings"}
    <3>1. c = [status |-> "degraded", ready |-> 0, actions |-> some]
      BY <2>1
    <3> HIDE DEF some, c
    <3>2. c.status = "degraded" /\ c.actions = some
      BY <3>1
    <3> QED BY <3>2 DEF some
  <2> HIDE DEF c
  <2> QED BY <2>2 DEF c
<1>3. CASE config # "broken" /\ servers = <<>>
  <2>1. mcp_capability(servers, config) = [status |-> "disabled", ready |-> 0, actions |-> {}]
    BY <1>3 DEF mcp_capability
  <2> QED BY <2>1
<1>4. CASE config # "broken" /\ servers # <<>>
  <2>1. mcp_capability(servers, config) =
          [status |-> IF d > 0 THEN "degraded" ELSE IF a > 0 THEN "auth_required" ELSE "ready",
           ready |-> Count(servers, "ready"), actions |-> capability_actions(d, a)]
    BY <1>4 DEF mcp_capability
  <2> HIDE DEF d, a
  <2>2. /\ capability_actions(d, a) \subseteq {"repair mcp", "mcp auth"}
        /\ d > 0 \/ a > 0 => capability_actions(d, a) # {}
        /\ ~(d > 0) /\ ~(a > 0) => capability_actions(d, a) = {}
    BY DEF capability_actions
  <2>3. ~(d > 0) /\ ~(a > 0) => d = 0 /\ a = 0
    BY <1>1
  <2>4. /\ c.status = IF d > 0 THEN "degraded" ELSE IF a > 0 THEN "auth_required" ELSE "ready"
        /\ c.ready = Count(servers, "ready") /\ c.actions = capability_actions(d, a)
    BY <2>1
  <2> HIDE DEF c
  <2>5. c.status \in {"degraded", "auth_required"} => d > 0 \/ a > 0
    BY <2>4
  <2>6. c.status = "ready" => ~(d > 0) /\ ~(a > 0)
    BY <2>4
  <2> QED BY <1>1, <2>2, <2>3, <2>4, <2>5, <2>6 DEF c
<1> QED BY <1>2, <1>3, <1>4

LEMMA DoctorRuns ==
  ASSUME run_doctor
  PROVE  HintsFit'
<1>1. PICK status \in Statuses, bundle_state \in {"missing", "present", "invalid"},
           servers \in SeqOf(Servers, 2), config \in {"ok", "broken"}, path \in BOOLEAN,
           runs \in BOOLEAN, authenticated \in BOOLEAN :
        LET c == mcp_capability(servers, config)
            gh == inspect_github_cli(path, runs, authenticated)
        IN daemon' = [status |-> status, install |-> bundle_state, hint |-> doctor_local_daemon_hint(status, bundle_state, c),
                      check |-> doctor_local_daemon_check(status, bundle_state, c),
                      recovery |-> thread_server_operator_lifecycle(status, status \notin {"running", "not_running"}),
                      capability |-> c, servers |-> servers, config |-> config, gh |-> gh,
                      gh_check |-> doctor_github_cli_check(gh), gh_usable |-> github_cli_ready(gh)]
  BY DEF run_doctor
<1> DEFINE c == mcp_capability(servers, config)
           hint == doctor_local_daemon_hint(status, bundle_state, c)
           check == doctor_local_daemon_check(status, bundle_state, c)
<1>2. /\ c.status \in {"degraded", "auth_required"} =>
              c.actions # {} /\ c.actions \subseteq {"repair mcp", "mcp auth", "repair settings"}
      /\ c.status = "ready" => c.ready = Len(servers) /\ c.actions = {}
  BY CapabilityOf
<1> HIDE DEF c
<1>3. /\ daemon'.hint = hint /\ daemon'.check = check /\ daemon'.capability = c /\ daemon'.servers = servers
      /\ daemon'.recovery = thread_server_operator_lifecycle(status, status \notin {"running", "not_running"})
      /\ daemon'.gh_usable <=> daemon'.gh_check = "ok"
  <2>1. \A gh : github_cli_ready(gh) <=> doctor_github_cli_check(gh) = "ok"
    BY DEF github_cli_ready, doctor_github_cli_check
  <2> HIDE DEF hint, check
  <2> QED BY <1>1, <2>1 DEF c, hint, check
<1>4. check # "ok" <=> hint \cap Repairs # {}
  <2>1. CASE status = "running"
    <3>1. check # "ok" <=> capabilities_are_degraded(c) \/ bundle_state = "invalid"
      BY <2>1 DEF doctor_local_daemon_check
    <3>2. hint = {"stop"} \cup (IF bundle_state = "invalid" THEN {"replace bundle"} ELSE {})
                 \cup (IF capabilities_are_degraded(c) THEN c.actions ELSE {}) \cup {"status"}
      BY <2>1 DEF doctor_local_daemon_hint, recommended_actions
    <3> HIDE DEF hint, check
    <3>3. capabilities_are_degraded(c) => c.actions # {} /\ c.actions \subseteq Repairs
      BY <1>2 DEF capabilities_are_degraded, Repairs
    <3> QED BY <3>1, <3>2, <3>3 DEF Repairs
  <2>2. CASE status = "not_running"
    <3>1. check # "ok" <=> bundle_state = "invalid"
      BY <2>2 DEF doctor_local_daemon_check
    <3>2. hint \subseteq {"start or recover", "install", "activate", "readme", "status"}
                         \cup (IF bundle_state = "invalid" THEN {"replace bundle"} ELSE {})
          /\ (bundle_state = "invalid" => "replace bundle" \in hint)
      BY <2>2 DEF doctor_local_daemon_hint, recommended_actions
    <3> HIDE DEF hint, check
    <3> QED BY <3>1, <3>2 DEF Repairs
  <2>3. CASE status = "stale_registration"
    <3>1. check # "ok"
      BY <2>3 DEF doctor_local_daemon_check
    <3>2. "recover" \in hint
      BY <2>3 DEF doctor_local_daemon_hint, recommended_actions
    <3> QED BY <3>1, <3>2 DEF Repairs
  <2>4. CASE status = "invalid_registration"
    <3>1. check # "ok"
      BY <2>4 DEF doctor_local_daemon_check
    <3>2. "rewrite discovery" \in hint
      BY <2>4 DEF doctor_local_daemon_hint, recommended_actions
    <3> QED BY <3>1, <3>2 DEF Repairs
  <2> QED BY <2>1, <2>2, <2>3, <2>4 DEF Statuses
<1>5. check = "error" => daemon'.recovery = "manual_repair_required"
  <2>1. check = "error" => status = "invalid_registration"
    BY DEF doctor_local_daemon_check, Statuses
  <2>2. status = "invalid_registration" =>
          thread_server_operator_lifecycle(status, status \notin {"running", "not_running"}) = "manual_repair_required"
    BY DEF thread_server_operator_lifecycle
  <2> HIDE DEF check
  <2> QED BY <1>3, <2>1, <2>2
<1> HIDE DEF hint, check
<1> QED BY <1>2, <1>3, <1>4, <1>5 DEF HintsFit

(* The guidance file.                                                      *)
LEMMA Described ==
  ASSUME markers = {} \/ describe
  PROVE  /\ markers = {} => GuidanceComplete
         /\ describe => GuidanceComplete'
<1> DEFINE Guided(found) ==
      LET d == detect_repo(found)
          line(l) == IF l \in {"TypeScript", "JavaScript"} THEN "package" ELSE l
      IN /\ \A l \in detected_languages(d) :
              line(l) \in verification_lines(found, d) \/ (l = "TypeScript" /\ "package.json" \notin found)
         /\ framework_notes(found) \subseteq detected_frameworks(found)
         /\ detected_frameworks(found) # {} => framework_notes(found) # {} /\ detected_languages(d) # {}
<1>1. ASSUME NEW found, "package.json" \notin found => found \cap InPackage = {}
      PROVE  Guided(found)
  <2> DEFINE d == detect_repo(found)
  <2>1. /\ d.package = ("package.json" \in found)
        /\ d.typescript = (found \cap {"tsconfig.json", "typescript"} # {})
    BY DEF detect_repo
  <2> HIDE DEF d
  <2>2. /\ "TypeScript" \in detected_languages(d) <=> d.typescript
        /\ "JavaScript" \in detected_languages(d) <=> ~d.typescript /\ d.package
        /\ detected_languages(d) \subseteq {"Rust", "Python", "TypeScript", "JavaScript"}
        /\ ("Rust" \in detected_languages(d)) <=> d.rust
        /\ ("Python" \in detected_languages(d)) <=> d.python
    BY DEF detected_languages
  <2>3. /\ d.rust => "Rust" \in verification_lines(found, d)
        /\ d.python => "Python" \in verification_lines(found, d)
        /\ d.package => "package" \in verification_lines(found, d)
    BY DEF verification_lines
  <2>4. \A l \in detected_languages(d) :
          (IF l \in {"TypeScript", "JavaScript"} THEN "package" ELSE l) \in verification_lines(found, d)
            \/ (l = "TypeScript" /\ "package.json" \notin found)
    BY <2>1, <2>2, <2>3
  <2>5. framework_notes(found) \subseteq detected_frameworks(found)
    BY DEF framework_notes
  <2>6. detected_frameworks(found) # {} => framework_notes(found) # {}
    BY DEF framework_notes, detected_frameworks
  <2>7. detected_frameworks(found) # {} => detected_languages(d) # {}
    <3>1. detected_frameworks(found) # {} => "package.json" \in found
      BY <1>1 DEF detected_frameworks, InPackage
    <3> QED BY <2>1, <2>2, <3>1
  <2> QED BY <2>4, <2>5, <2>6, <2>7 DEF d
<1>2. Guided({})
  BY <1>1
<1>3. describe => Guided(markers')
  BY <1>1 DEF describe
<1>4. (GuidanceComplete <=> Guided(markers)) /\ (GuidanceComplete' <=> Guided(markers'))
  BY DEF GuidanceComplete
<1> HIDE DEF Guided
<1> QED BY <1>2, <1>3, <1>4

(* The wizard.                                                             *)
LEMMA OnboardParts ==
  ASSUME OnboardInv
  PROVE  /\ OnboardTypeOK /\ Assessed /\ InitProgress /\ LinesKept
         /\ ReadyAfterInit /\ AdviceForNextRun /\ HintsFit /\ GuidanceComplete
BY DEF OnboardInv

LEMMA WorldUser ==
  ASSUME NEW w, WorldShape(w), NEW v, NEW u, u = [w EXCEPT !.user = v]
  PROVE  WorldShape(u) /\ u.user = v /\ u.project = w.project
<1>1. w \in [user : {w.user}, project : {w.project}, config : {w.config}, oauth : {w.oauth},
             saved : {w.saved}, anthropic : {w.anthropic}, xai : {w.xai}]
      /\ w.anthropic \in Keys /\ w.xai \in Keys
  BY DEF WorldShape
<1>2. /\ u \in [user : {v}, project : {w.project}, config : {w.config}, oauth : {w.oauth},
             saved : {w.saved}, anthropic : {w.anthropic}, xai : {w.xai}]
      /\ u.user = v /\ u.project = w.project /\ u.config = w.config /\ u.oauth = w.oauth
      /\ u.saved = w.saved /\ u.anthropic = w.anthropic /\ u.xai = w.xai
  BY <1>1
<1> QED BY <1>1, <1>2 DEF WorldShape

LEMMA WorldSaved ==
  ASSUME NEW w, WorldShape(w), NEW v, NEW u, u = [w EXCEPT !.saved = v]
  PROVE  WorldShape(u) /\ u.user = w.user /\ u.project = w.project
<1>1. w \in [user : {w.user}, project : {w.project}, config : {w.config}, oauth : {w.oauth},
             saved : {w.saved}, anthropic : {w.anthropic}, xai : {w.xai}]
      /\ w.anthropic \in Keys /\ w.xai \in Keys
  BY DEF WorldShape
<1>2. /\ u \in [user : {w.user}, project : {w.project}, config : {w.config}, oauth : {w.oauth},
             saved : {v}, anthropic : {w.anthropic}, xai : {w.xai}]
      /\ u.saved = v /\ u.user = w.user /\ u.project = w.project /\ u.config = w.config
      /\ u.oauth = w.oauth /\ u.anthropic = w.anthropic /\ u.xai = w.xai
  BY <1>1
<1> QED BY <1>1, <1>2 DEF WorldShape

LEMMA WorldOauth ==
  ASSUME NEW w, WorldShape(w), NEW v, NEW u, u = [w EXCEPT !.oauth = v]
  PROVE  WorldShape(u) /\ u.user = w.user /\ u.project = w.project
<1>1. w \in [user : {w.user}, project : {w.project}, config : {w.config}, oauth : {w.oauth},
             saved : {w.saved}, anthropic : {w.anthropic}, xai : {w.xai}]
      /\ w.anthropic \in Keys /\ w.xai \in Keys
  BY DEF WorldShape
<1>2. /\ u \in [user : {w.user}, project : {w.project}, config : {w.config}, oauth : {v},
             saved : {w.saved}, anthropic : {w.anthropic}, xai : {w.xai}]
      /\ u.oauth = v /\ u.user = w.user /\ u.project = w.project /\ u.config = w.config
      /\ u.saved = w.saved /\ u.anthropic = w.anthropic /\ u.xai = w.xai
  BY <1>1
<1> QED BY <1>1, <1>2 DEF WorldShape

(* A step that leaves the workspace alone, and comes behind the wizard's   *)
(* init or leaves it.                                                      *)
LEMMA WizardStays ==
  ASSUME OnboardInv, UNCHANGED <<repo, lines, original, added, unseen, daemon, markers>>,
         stage' \in {stage, "init", "ensure_dir", "model", "auth", "doctor", "stopped"}, stage' # "start",
         WorldShape(world)', Right(assessment)',
         verdict' = "initialised" =>
           verdict = "initialised" /\ (assessment'.repo_ready <=> assessment.repo_ready),
         AdviceForNextRun'
  PROVE  OnboardInv'
<1>1. OnboardTypeOK'
  BY OnboardParts DEF OnboardTypeOK, RepoFiles, IgnoreFile, IgnoreLine
<1>2. Assessed'
  BY DEF Assessed
<1>3. InitProgress'
  BY OnboardParts DEF InitProgress, Has
<1>4. LinesKept'
  BY OnboardParts DEF LinesKept, Kept
<1>5. ReadyAfterInit'
  BY OnboardParts DEF ReadyAfterInit
<1>6. HintsFit' /\ GuidanceComplete'
  BY OnboardParts DEF HintsFit, GuidanceComplete
<1> QED BY <1>1, <1>2, <1>3, <1>4, <1>5, <1>6 DEF OnboardInv

LEMMA WizardStarts ==
  ASSUME OnboardInv, run_onboard
  PROVE  OnboardInv'
<1>1. PICK requested \in {Unset, "opus", "grok", "other"}, interactive \in BOOLEAN :
        /\ override' = IF requested = Unset THEN Unset ELSE resolve_model_alias(requested)
        /\ assessment' = collect_assessment(world, repo, override')
        /\ IF ~interactive THEN stop("refused")
           ELSE stage' = (IF assessment'.repo_ready THEN "model" ELSE "init") /\ UNCHANGED verdict
  BY DEF run_onboard
<1>2. stage = "start" /\ UNCHANGED <<world, repo, lines, original, added, unseen, daemon, markers>>
  BY DEF run_onboard, at, unchangedElse
<1>3. verdict = Unset /\ WorldShape(world)
  BY <1>2, OnboardParts DEF Assessed, OnboardTypeOK
<1>4. /\ stage' \in {"model", "init", "stopped"} /\ verdict' \notin {"initialised", "persisted"}
      /\ world' = world
  BY <1>1, <1>2, <1>3 DEF stop, Unset
<1>5. Right(assessment)'
  BY <1>1, <1>3, <1>4, JustAssessed DEF Right
<1>6. WorldShape(world)' /\ AdviceForNextRun'
  BY <1>3, <1>4 DEF AdviceForNextRun, WorldShape
<1> QED BY <1>2, <1>4, <1>5, <1>6, WizardStays

LEMMA InitAsked ==
  ASSUME OnboardInv, prompt_repo_init
  PROVE  OnboardInv'
<1>1. /\ stage' \in {"ensure_dir", "model", "stopped"} /\ verdict' \in {verdict, "cancelled"}
      /\ stage = "init"
      /\ UNCHANGED <<world, repo, assessment, lines, original, added, unseen, daemon, markers>>
  BY DEF prompt_repo_init, at, stop, unchangedElse
<1>2. WorldShape(world)' /\ AdviceForNextRun'
  BY <1>1, OnboardParts DEF AdviceForNextRun, WorldShape, OnboardTypeOK, configured_model
<1>3. Right(assessment)'
  BY <1>1, OnboardParts DEF Assessed, Right
<1> QED BY <1>1, <1>2, <1>3, WizardStays

(* A step of init itself.                                                  *)
LEMMA InitGoesOn ==
  ASSUME OnboardInv, UNCHANGED <<world, original, added, unseen, daemon, markers>>, stage # "start",
         stage' # "start", repo' \in RepoFiles, lines' \in Seq(IgnoreLine), Right(assessment)',
         InitProgress', LinesKept', ReadyAfterInit',
         verdict' = "persisted" => verdict = "persisted" /\ assessment' = assessment
  PROVE  OnboardInv'
<1>1. OnboardTypeOK'
  BY OnboardParts DEF OnboardTypeOK, RepoFiles, IgnoreFile, IgnoreLine, WorldShape
<1>2. Assessed'
  BY DEF Assessed
<1>3. AdviceForNextRun'
  BY OnboardParts DEF AdviceForNextRun, configured_model
<1>4. HintsFit' /\ GuidanceComplete'
  BY OnboardParts DEF HintsFit, GuidanceComplete
<1> QED BY <1>1, <1>2, <1>3, <1>4 DEF OnboardInv

LEMMA RepoParts ==
  ASSUME NEW r \in RepoFiles
  PROVE  /\ r.dir \in FileOrDir /\ r.json \in FileOrDir /\ r.md \in FileOrDir /\ r.ignore \in IgnoreFile
         /\ r.ignore.lines \in Seq(IgnoreLine)
BY DEF RepoFiles, IgnoreFile

LEMMA RepoDir ==
  ASSUME NEW r \in RepoFiles, NEW k \in FileOrDir, NEW q, q = [r EXCEPT !.dir = k]
  PROVE  /\ q \in RepoFiles /\ q.dir = k
         /\ q.json = r.json /\ q.md = r.md /\ q.ignore = r.ignore
BY DEF RepoFiles

LEMMA RepoJson ==
  ASSUME NEW r \in RepoFiles, NEW k \in FileOrDir, NEW q, q = [r EXCEPT !.json = k]
  PROVE  /\ q \in RepoFiles /\ q.json = k
         /\ q.dir = r.dir /\ q.md = r.md /\ q.ignore = r.ignore
BY DEF RepoFiles

LEMMA RepoMd ==
  ASSUME NEW r \in RepoFiles, NEW k \in FileOrDir, NEW q, q = [r EXCEPT !.md = k]
  PROVE  /\ q \in RepoFiles /\ q.md = k
         /\ q.dir = r.dir /\ q.json = r.json /\ q.ignore = r.ignore
BY DEF RepoFiles

LEMMA RepoIgnore ==
  ASSUME NEW r \in RepoFiles, NEW k \in IgnoreFile, NEW q, q = [r EXCEPT !.ignore = k]
  PROVE  /\ q \in RepoFiles /\ q.ignore = k
         /\ q.dir = r.dir /\ q.json = r.json /\ q.md = r.md
BY DEF RepoFiles

LEMMA NotInitialised ==
  ASSUME OnboardInv, stage \in {"ensure_dir", "write_json", "read_ignore", "write_ignore", "write_md"}
  PROVE  /\ Right(assessment) /\ original \in Seq(IgnoreLine) /\ lines \in Seq(IgnoreLine)
         /\ repo \in RepoFiles /\ repo.ignore \in IgnoreFile /\ repo.ignore.lines \in Seq(IgnoreLine)
BY OnboardParts, RepoParts DEF Assessed, OnboardTypeOK

LEMMA InitDirAndJson ==
  ASSUME OnboardInv, ensure_dir \/ write_json
  PROVE  OnboardInv'
<1>1. CASE ensure_dir /\ stage' = "stopped"
  <2>1. /\ UNCHANGED <<world, repo, assessment, lines, original, added, unseen, daemon, markers>>
        /\ verdict' = "error" /\ stage = "ensure_dir"
    BY <1>1 DEF ensure_dir, at, stop, unchangedElse
  <2>2. WorldShape(world)' /\ Right(assessment)' /\ AdviceForNextRun'
    BY <2>1, OnboardParts DEF Assessed, Right, AdviceForNextRun, WorldShape, OnboardTypeOK
  <2> QED BY <1>1, <2>1, <2>2, WizardStays
<1>2. ASSUME NEW r \in RepoFiles, repo' = r, r.ignore = repo.ignore,
             (r.json = "dir" <=> repo.json = "dir"), r.md = repo.md,
             stage' \in {"write_json", "read_ignore"}, r.dir = "dir",
             stage' = "read_ignore" => r.json # "absent",
             stage \in {"ensure_dir", "write_json"},
             UNCHANGED <<world, assessment, lines, verdict, original, added, unseen, daemon, markers>>
      PROVE  OnboardInv'
  <2>1. repo' \in RepoFiles /\ lines' \in Seq(IgnoreLine) /\ Right(assessment)'
    BY <1>2, NotInitialised DEF Right
  <2>2. InitProgress'
    BY <1>2 DEF InitProgress
  <2>3. LinesKept'
    BY <1>2, OnboardParts DEF LinesKept, Kept
  <2>4. ReadyAfterInit'
    BY <1>2, OnboardParts DEF ReadyAfterInit
  <2> QED BY <1>2, <2>1, <2>2, <2>3, <2>4, InitGoesOn
<1>3. "dir" \in FileOrDir /\ "file" \in FileOrDir /\ \A k \in FileOrDir : if_missing(k) \in {"file", "dir"}
      /\ \A j \in FileOrDir : if_missing(j) \in FileOrDir /\ (if_missing(j) = "dir" <=> j = "dir")
  BY DEF FileOrDir, if_missing
<1>4. CASE ensure_dir /\ stage' # "stopped"
  <2>1. /\ stage' = "write_json" /\ stage = "ensure_dir" /\ repo' = [repo EXCEPT !.dir = "dir"]
        /\ UNCHANGED <<world, assessment, lines, verdict, original, added, unseen, daemon, markers>>
    BY <1>4 DEF ensure_dir, at, stop, unchangedElse
  <2>2. repo' \in RepoFiles /\ repo'.ignore = repo.ignore /\ repo'.json = repo.json
        /\ repo'.md = repo.md /\ repo'.dir = "dir"
    BY <1>3, <2>1, NotInitialised, RepoDir
  <2> QED BY <1>2, <2>1, <2>2
<1>5. CASE write_json
  <2>1. /\ stage' = "read_ignore" /\ stage = "write_json" /\ repo' = [repo EXCEPT !.json = if_missing(repo.json)]
        /\ UNCHANGED <<world, assessment, lines, verdict, original, added, unseen, daemon, markers>>
    BY <1>5 DEF write_json, at, unchangedElse
  <2>2. repo.json \in FileOrDir /\ repo.dir = "dir"
    BY <2>1, NotInitialised, OnboardParts DEF InitProgress, RepoFiles
  <2>3. repo' \in RepoFiles /\ repo'.ignore = repo.ignore /\ repo'.json = if_missing(repo.json)
        /\ repo'.md = repo.md /\ repo'.dir = "dir"
    BY <1>3, <2>1, <2>2, NotInitialised, RepoJson
  <2> QED BY <1>2, <1>3, <2>1, <2>2, <2>3
<1> QED BY <1>1, <1>4, <1>5

LEMMA InitIgnore ==
  ASSUME OnboardInv, read_ignore \/ write_ignore
  PROVE  OnboardInv'
<1>1. CASE read_ignore /\ repo.ignore.is = "unreadable"
  <2>1. /\ UNCHANGED <<world, repo, assessment, lines, original, added, unseen, daemon, markers>>
        /\ verdict' = "error" /\ stage' = "stopped" /\ stage = "read_ignore"
    BY <1>1 DEF read_ignore, at, stop, unchangedElse
  <2>2. WorldShape(world)' /\ Right(assessment)' /\ AdviceForNextRun'
    BY <2>1, OnboardParts DEF Assessed, Right, AdviceForNextRun, WorldShape, OnboardTypeOK
  <2> QED BY <2>1, <2>2, WizardStays
<1>2. CASE read_ignore /\ repo.ignore.is # "unreadable"
  <2>1. /\ UNCHANGED <<world, repo, assessment, verdict, original, added, unseen, daemon, markers>>
        /\ stage = "read_ignore" /\ lines' = repo.ignore.lines
        /\ stage' = IF repo.ignore.is = "file" /\ with_entries(repo.ignore.lines) = repo.ignore.lines
                    THEN "write_md" ELSE "write_ignore"
    BY <1>2 DEF read_ignore, at, unchangedElse
  <2>2. InitProgress'
    <3>1. with_entries(repo.ignore.lines) = repo.ignore.lines =>
            \A x \in {IgnoreEntries[1], IgnoreEntries[2]} : Has(repo.ignore.lines, x)
      BY <2>1, NotInitialised, KeptEntries
    <3> QED BY <2>1, <3>1, OnboardParts DEF InitProgress
  <2>3. LinesKept'
    BY <2>1, OnboardParts DEF LinesKept, Kept
  <2>4. ReadyAfterInit' /\ Right(assessment)'
    BY <2>1, OnboardParts, NotInitialised DEF ReadyAfterInit, Right
  <2> QED BY <2>1, <2>2, <2>3, <2>4, NotInitialised, InitGoesOn
<1>3. CASE write_ignore
  <2> DEFINE g == [is |-> "file", lines |-> with_entries(lines)]
  <2>1. /\ stage' = "write_md" /\ stage = "write_ignore" /\ repo' = [repo EXCEPT !.ignore = g]
        /\ UNCHANGED <<world, assessment, lines, verdict, original, added, unseen, daemon, markers>>
    BY <1>3 DEF write_ignore, at, unchangedElse
  <2>2. /\ with_entries(lines) \in Seq(IgnoreLine)
        /\ Kept(lines, added) => Kept(with_entries(lines), added)
        /\ \A x \in {IgnoreEntries[1], IgnoreEntries[2]} : Has(with_entries(lines), x)
    BY <2>1, NotInitialised, KeptEntries
  <2>3. g \in IgnoreFile /\ g.is = "file" /\ g.lines = with_entries(lines)
    BY <2>2 DEF IgnoreFile
  <2> HIDE DEF g
  <2>5. repo' \in RepoFiles /\ repo'.ignore = g /\ repo'.json = repo.json
        /\ repo'.md = repo.md /\ repo'.dir = repo.dir
    BY <2>1, <2>3, NotInitialised, RepoIgnore
  <2>6. InitProgress'
    BY <2>1, <2>2, <2>3, <2>5, OnboardParts DEF InitProgress
  <2>7. LinesKept'
    BY <2>1, <2>2, <2>3, <2>5, OnboardParts DEF LinesKept, Kept
  <2>8. ReadyAfterInit' /\ Right(assessment)'
    BY <2>1, <2>5, OnboardParts, NotInitialised DEF ReadyAfterInit, Right
  <2> QED BY <2>1, <2>5, <2>6, <2>7, <2>8, NotInitialised, InitGoesOn
<1> QED BY <1>1, <1>2, <1>3

LEMMA InitEnds ==
  ASSUME OnboardInv, write_md
  PROVE  OnboardInv'
<1>1. /\ stage' = "model" /\ stage = "write_md" /\ repo' = [repo EXCEPT !.md = if_missing(repo.md)]
      /\ assessment' = collect_assessment(world, repo', override) /\ verdict' = "initialised"
      /\ UNCHANGED <<world, lines, original, added, unseen, daemon, markers>>
  BY DEF write_md, at, unchangedElse
<1>2. repo.md \in FileOrDir /\ repo.json \in FileOrDir /\ "dir" \in FileOrDir
  BY <1>1, NotInitialised DEF RepoFiles, FileOrDir
<1>3. if_missing(repo.md) \in FileOrDir /\ if_missing(repo.md) \in {"file", "dir"}
  BY <1>2 DEF FileOrDir, if_missing
<1>4. repo' \in RepoFiles /\ repo'.ignore = repo.ignore /\ repo'.json = repo.json
      /\ repo'.md = if_missing(repo.md) /\ repo'.dir = repo.dir
  BY <1>1, <1>2, <1>3, NotInitialised, RepoMd
<1>5. Right(assessment)' /\ (assessment'.repo_ready <=> assess_repo_init(repo'))
  <2>1. WorldShape(world)
    BY OnboardParts DEF OnboardTypeOK
  <2> QED BY <1>1, <2>1, JustAssessed DEF Right
<1>6. ReadyAfterInit'
  <2>1. /\ repo.dir = "dir" /\ repo.json # "absent" /\ repo.ignore.is = "file"
        /\ \A x \in {IgnoreEntries[1], IgnoreEntries[2]} : Has(repo.ignore.lines, x)
    BY <1>1, OnboardParts DEF InitProgress
  <2>2. repo'.json # "dir" /\ repo'.md # "dir" => assess_repo_init(repo')
    BY <1>2, <1>3, <1>4, <2>1, EntryNames DEF assess_repo_init, FileOrDir
  <2> QED BY <1>5, <2>2 DEF ReadyAfterInit
<1>7. InitProgress'
  BY <1>1 DEF InitProgress
<1>8. LinesKept'
  BY <1>1, <1>4, OnboardParts DEF LinesKept, Kept
<1> QED BY <1>1, <1>4, <1>5, <1>6, <1>7, <1>8, NotInitialised, InitGoesOn

LEMMA ModelAsked ==
  ASSUME OnboardInv, prompt_model
  PROVE  OnboardInv'
<1>1. PICK line \in ModelLines, custom \in {"", "q", "grok", "other"} :
        LET choice == model_choice(line, custom, assessment.model)
        IN CASE choice = "skip" -> stage' = "auth" /\ UNCHANGED <<world, override, assessment, verdict>>
             [] choice = "cancel" -> stop("cancelled") /\ UNCHANGED <<world, override, assessment>>
             [] OTHER ->
                  IF world.user = "unparsable" THEN stop("error") /\ UNCHANGED <<world, override, assessment>>
                  ELSE /\ stage' = "auth" /\ verdict' = "persisted"
                       /\ world' = [world EXCEPT !.user = choice] /\ override' = choice
                       /\ assessment' = collect_assessment(world', repo, choice)
  BY DEF prompt_model
<1>2. stage = "model" /\ UNCHANGED <<repo, lines, original, added, unseen, daemon, markers>>
  BY DEF prompt_model, at, unchangedElse
<1> DEFINE choice == model_choice(line, custom, assessment.model)
<1>3. Right(assessment) /\ assessment.model # Unset /\ WorldShape(world)
  BY <1>2, OnboardParts DEF Assessed, Right, OnboardTypeOK
<1>4. choice # Unset
  BY <1>3 DEF model_choice, ModelLines, resolve_model_alias, Unset
<1> HIDE DEF choice
<1>5. CASE UNCHANGED <<world, assessment>> /\ stage' \in {"auth", "stopped"} /\ verdict' \in {verdict, "cancelled", "error"}
  <2>1. WorldShape(world)' /\ Right(assessment)' /\ AdviceForNextRun'
    BY <1>3, <1>5, OnboardParts DEF Right, AdviceForNextRun, WorldShape, configured_model
  <2> QED BY <1>2, <1>5, <2>1, WizardStays
<1>6. CASE /\ stage' = "auth" /\ verdict' = "persisted"
           /\ world' = [world EXCEPT !.user = choice]
           /\ assessment' = collect_assessment(world', repo, choice)
  <2>1. WorldShape(world') /\ world'.user = choice /\ world'.project = world.project
    <3>1. \A u : u = [world EXCEPT !.user = choice] =>
            WorldShape(u) /\ u.user = choice /\ u.project = world.project
      BY <1>3, WorldUser
    <3> QED BY <1>6, <3>1
  <2>2. Right(assessment') /\ assessment'.model = resolve_model_alias(choice)
    <3>1. \A w, q : WorldShape(w) /\ q # Unset =>
            /\ Right(collect_assessment(w, repo, q))
            /\ collect_assessment(w, repo, q).model = resolve_model_alias(q)
      BY JustAssessed
    <3> QED BY <1>4, <1>6, <2>1, <3>1
  <2>3. AdviceForNextRun'
    BY <2>1, <2>2 DEF AdviceForNextRun, configured_model
  <2>4. WorldShape(world)' /\ Right(assessment)'
    BY <2>1, <2>2 DEF WorldShape, Right
  <2> QED BY <1>2, <1>6, <2>3, <2>4, WizardStays
<1> QED
  BY <1>1, <1>5, <1>6 DEF choice, stop

LEMMA LoginAsked ==
  ASSUME OnboardInv, prompt_login
  PROVE  OnboardInv'
<1>1. stage = "auth" /\ UNCHANGED <<repo, lines, original, added, unseen, daemon, markers>>
  BY DEF prompt_login, at, unchangedElse
<1>2. Right(assessment) /\ WorldShape(world)
  BY <1>1, OnboardParts DEF Assessed, OnboardTypeOK
<1>3. CASE UNCHANGED <<world, assessment>> /\ stage' \in {"doctor", "stopped"} /\ verdict' \in {verdict, "cancelled", "error"}
  <2>1. WorldShape(world)' /\ Right(assessment)' /\ AdviceForNextRun'
    BY <1>2, <1>3, OnboardParts DEF Right, AdviceForNextRun, WorldShape, configured_model
  <2> QED BY <1>1, <1>3, <2>1, WizardStays
<1>4. CASE /\ stage' = "doctor" /\ verdict' = "logged in" /\ world' = [world EXCEPT !.saved = "ready"]
           /\ assessment' = collect_assessment(world', repo, override)
  <2>1. WorldShape(world')
    BY <1>2, <1>4, WorldSaved
  <2>2. Right(assessment')
    <3>1. \A w, q : WorldShape(w) => Right(collect_assessment(w, repo, q))
      BY JustAssessed
    <3> QED BY <1>4, <2>1, <3>1
  <2>3. WorldShape(world)' /\ Right(assessment)' /\ AdviceForNextRun'
    BY <1>4, <2>1, <2>2 DEF Right, AdviceForNextRun, WorldShape
  <2> QED BY <1>1, <1>4, <2>3, WizardStays
<1> QED
  <2>1. CASE assessment.auth.provider # "openyak" \/ ~assessment.auth.login
    BY <1>3, <2>1 DEF prompt_login
  <2>2. CASE ~(assessment.auth.provider # "openyak" \/ ~assessment.auth.login)
    <3>1. PICK line \in Lines, works \in BOOLEAN :
            CASE read_choice(line) = "skip" -> stage' = "doctor" /\ UNCHANGED <<world, assessment, verdict>>
              [] read_choice(line) = "cancel" -> stop("cancelled") /\ UNCHANGED <<world, assessment>>
              [] OTHER ->
                   IF works /\ world.config = "ok" /\ world.oauth = "complete"
                   THEN /\ stage' = "doctor" /\ verdict' = "logged in" /\ world' = [world EXCEPT !.saved = "ready"]
                        /\ assessment' = collect_assessment(world', repo, override)
                   ELSE stop("error") /\ UNCHANGED <<world, assessment>>
      BY <2>2 DEF prompt_login
    <3> QED BY <1>3, <1>4, <3>1 DEF stop
  <2> QED BY <2>1, <2>2

LEMMA DoctorAsked ==
  ASSUME OnboardInv, prompt_doctor
  PROVE  OnboardInv'
<1>1. /\ stage = "doctor" /\ UNCHANGED <<repo, assessment, lines, original, added, unseen, daemon, markers>>
      /\ stage' = "stopped" /\ verdict' \notin {"initialised", "persisted"}
      /\ world' = world \/ world' = [world EXCEPT !.saved = "ready"]
  <2>1. \A checks : completion_of(checks) \in {"needs follow-up", "ready with warnings", "ready"}
    BY DEF completion_of
  <2> QED BY <2>1 DEF prompt_doctor, at, stop, unchangedElse
<1>2. Right(assessment) /\ WorldShape(world)
  BY <1>1, OnboardParts DEF Assessed, OnboardTypeOK
<1>3. WorldShape(world')
  BY <1>1, <1>2, WorldSaved
<1>4. WorldShape(world)' /\ Right(assessment)' /\ AdviceForNextRun'
  BY <1>1, <1>2, <1>3 DEF Right, AdviceForNextRun, WorldShape
<1> QED BY <1>1, <1>4, WizardStays

(* What other processes change.                                            *)
LEMMA ChangedElsewhere ==
  ASSUME OnboardInv, elsewhere
  PROVE  OnboardInv'
<1>1. UNCHANGED <<stage, assessment, lines, verdict, original, daemon, markers>>
  BY DEF elsewhere
<1>2. Assessed' /\ HintsFit' /\ GuidanceComplete'
  BY <1>1, OnboardParts DEF Assessed, Right, HintsFit, GuidanceComplete
<1> DEFINE g == [is |-> "file", lines |-> Append(repo.ignore.lines, "theirs")]
<1>3. CASE /\ repo.ignore.is = "file" /\ repo' = [repo EXCEPT !.ignore = g]
           /\ added' = added + 1 /\ unseen' = (unseen \/ stage = "write_ignore") /\ UNCHANGED world
  <2>1. /\ repo \in RepoFiles /\ repo.ignore.lines \in Seq(IgnoreLine) /\ original \in Seq(IgnoreLine)
        /\ added \in Nat /\ unseen \in BOOLEAN
    BY OnboardParts, RepoParts DEF OnboardTypeOK
  <2>2. /\ g.lines \in Seq(IgnoreLine) /\ g.is = "file" /\ g \in IgnoreFile
        /\ Kept(repo.ignore.lines, added) => Kept(g.lines, added + 1)
        /\ \A x : Has(repo.ignore.lines, x) => Has(g.lines, x)
    <3>1. /\ Append(repo.ignore.lines, "theirs") \in Seq(IgnoreLine)
          /\ Kept(repo.ignore.lines, added) => Kept(Append(repo.ignore.lines, "theirs"), added + 1)
      <4>1. \A text \in Seq(IgnoreLine), n \in Nat :
              /\ Append(text, "theirs") \in Seq(IgnoreLine)
              /\ Kept(text, n) => Kept(Append(text, "theirs"), n + 1)
        <5>1. "theirs" \in IgnoreLine
          BY DEF IgnoreLine
        <5> QED BY <2>1, <5>1, KeptTheirs
      <4> QED BY <2>1, <4>1
    <3>2. \A x : Has(repo.ignore.lines, x) => Has(Append(repo.ignore.lines, "theirs"), x)
      <4>1. "theirs" \in IgnoreLine
        BY DEF IgnoreLine
      <4>2. LET text == repo.ignore.lines IN
            /\ DOMAIN text = 1..Len(text) /\ Len(text) \in Nat /\ DOMAIN Append(text, "theirs") = 1..(Len(text) + 1)
            /\ \A i \in 1..Len(text) : Append(text, "theirs")[i] = text[i]
        BY <2>1, <4>1
      <4> QED BY <4>2 DEF Has
    <3> QED BY <3>1, <3>2 DEF IgnoreFile
  <2> HIDE DEF g
  <2>3. repo' \in RepoFiles /\ repo'.ignore = g /\ repo'.dir = repo.dir /\ repo'.json = repo.json
        /\ repo'.md = repo.md
    BY <1>3, <2>1, <2>2, RepoIgnore
  <2>4. OnboardTypeOK'
    BY <1>1, <1>3, <2>1, <2>3, OnboardParts DEF OnboardTypeOK, WorldShape, RepoFiles, IgnoreFile, IgnoreLine
  <2>5. InitProgress'
    BY <1>1, <2>2, <2>3, OnboardParts DEF InitProgress
  <2>6. LinesKept'
    BY <1>1, <1>3, <2>2, <2>3, OnboardParts DEF LinesKept, Kept
  <2>7. ReadyAfterInit' /\ AdviceForNextRun'
    BY <1>1, <1>3, <2>3, OnboardParts DEF ReadyAfterInit, AdviceForNextRun, configured_model
  <2> QED BY <1>2, <2>4, <2>5, <2>6, <2>7 DEF OnboardInv
<1>4. CASE /\ \/ \E v \in {"missing", "expired", "refreshable"} : world' = [world EXCEPT !.saved = v]
              \/ \E v \in {"absent", "partial"} : world' = [world EXCEPT !.oauth = v]
           /\ UNCHANGED <<repo, added, unseen>>
  <2>1. WorldShape(world') /\ world'.user = world.user /\ world'.project = world.project
    <3>1. WorldShape(world)
      BY OnboardParts DEF OnboardTypeOK
    <3>2. \A u, v : u = [world EXCEPT !.saved = v] =>
            WorldShape(u) /\ u.user = world.user /\ u.project = world.project
      BY <3>1, WorldSaved
    <3>3. \A u, v : u = [world EXCEPT !.oauth = v] =>
            WorldShape(u) /\ u.user = world.user /\ u.project = world.project
      BY <3>1, WorldOauth
    <3> QED BY <1>4, <3>2, <3>3
  <2>2. OnboardTypeOK'
    BY <1>1, <1>4, <2>1, OnboardParts DEF OnboardTypeOK, WorldShape, RepoFiles, IgnoreFile, IgnoreLine
  <2>3. InitProgress' /\ LinesKept' /\ ReadyAfterInit'
    BY <1>1, <1>4, OnboardParts DEF InitProgress, LinesKept, Kept, ReadyAfterInit, Has
  <2>4. AdviceForNextRun'
    BY <1>1, <2>1, OnboardParts DEF AdviceForNextRun, configured_model
  <2> QED BY <1>2, <2>2, <2>3, <2>4 DEF OnboardInv
<1> QED BY <1>3, <1>4 DEF elsewhere

LEMMA WizardIdle ==
  ASSUME OnboardInv, UNCHANGED wizardVars
  PROVE  (OnboardTypeOK /\ Assessed /\ InitProgress /\ LinesKept /\ ReadyAfterInit /\ AdviceForNextRun)'
<1>1. UNCHANGED <<world, repo, stage, assessment, lines, verdict, original, added, unseen>>
  BY DEF wizardVars
<1>2. OnboardTypeOK' /\ Assessed'
  BY <1>1, OnboardParts DEF OnboardTypeOK, WorldShape, RepoFiles, IgnoreFile, IgnoreLine, Assessed, Right
<1>3. InitProgress' /\ LinesKept'
  BY <1>1, OnboardParts DEF InitProgress, LinesKept, Kept, Has
<1>4. ReadyAfterInit' /\ AdviceForNextRun'
  BY <1>1, OnboardParts DEF ReadyAfterInit, AdviceForNextRun, configured_model
<1> QED BY <1>2, <1>3, <1>4

LEMMA OnboardMoves ==
  ASSUME OnboardInv, OnboardNext
  PROVE  OnboardInv'
<1>1. CASE run_doctor
  <2>1. UNCHANGED wizardVars /\ markers' = markers
    BY <1>1 DEF run_doctor
  <2>2. GuidanceComplete'
    BY <2>1, OnboardParts DEF GuidanceComplete
  <2> QED BY <1>1, <2>1, <2>2, WizardIdle, DoctorRuns DEF OnboardInv
<1>2. CASE describe
  <2>1. UNCHANGED wizardVars /\ daemon' = daemon
    BY <1>2 DEF describe
  <2>2. HintsFit'
    BY <2>1, OnboardParts DEF HintsFit
  <2> QED BY <1>2, <2>1, <2>2, WizardIdle, Described DEF OnboardInv
<1> QED
  BY <1>1, <1>2, WizardStarts, InitAsked, InitDirAndJson, InitIgnore, InitEnds, ModelAsked, LoginAsked,
     DoctorAsked, ChangedElsewhere DEF OnboardNext

LEMMA OnboardIdle ==
  ASSUME OnboardInv, UNCHANGED onboardVars
  PROVE  OnboardInv'
<1>1. UNCHANGED wizardVars /\ UNCHANGED <<daemon, markers>>
  BY DEF onboardVars, wizardVars
<1>2. HintsFit' /\ GuidanceComplete'
  BY <1>1, OnboardParts DEF HintsFit, GuidanceComplete
<1> QED BY <1>1, <1>2, WizardIdle DEF OnboardInv

LEMMA OnboardStart ==
  ASSUME OnboardInit
  PROVE  OnboardInv
<1>1. PICK begun_at \in OnboardStarts : world = begun_at.world /\ repo = begun_at.repo
  BY DEF OnboardInit
<1>2. /\ stage = "start" /\ assessment = Unassessed /\ lines = <<>> /\ verdict = Unset
      /\ original = repo.ignore.lines /\ added = 0 /\ unseen = FALSE /\ daemon = NotAsked /\ markers = {}
  BY DEF OnboardInit
<1> DEFINE texts == Seq(STRING)
<1> HIDE DEF texts
<1>3. begun_at.world \in Homes /\ begun_at.repo \in [dir : FileOrDir, json : FileOrDir, md : FileOrDir,
                         ignore : [is : {"absent", "file", "unreadable"}, lines : texts]]
      /\ texts = Seq(STRING)
  BY <1>1, OnboardAssumption DEF Workspaces, texts
<1>4. WorldShape(world)
  BY <1>1, <1>3 DEF Homes, WorldShape
<1>5. original \in Seq(STRING)
  BY <1>1, <1>2, <1>3
<1>6. original \in Seq(IgnoreLine)
  BY <1>5 DEF IgnoreLine
<1>7. repo \in RepoFiles
  BY <1>1, <1>2, <1>3, <1>6 DEF RepoFiles, IgnoreFile
<1>8. OnboardTypeOK
  <2>1. lines \in Seq(IgnoreLine) /\ added \in Nat /\ unseen \in BOOLEAN
    <3>1. <<>> \in Seq(IgnoreLine)
      OBVIOUS
    <3> QED BY <1>2, <3>1
  <2> QED BY <1>4, <1>6, <1>7, <2>1 DEF OnboardTypeOK
<1>9. Assessed /\ InitProgress
  BY <1>2 DEF Assessed, Unassessed, InitProgress, Unset
<1>10. LinesKept
  BY <1>2, <1>6, KeptSelf DEF LinesKept
<1>11. ReadyAfterInit /\ AdviceForNextRun /\ HintsFit
  BY <1>2 DEF ReadyAfterInit, AdviceForNextRun, HintsFit, Unset
<1>12. GuidanceComplete
  BY <1>2, Described
<1> QED BY <1>8, <1>9, <1>10, <1>11, <1>12 DEF OnboardInv

LEMMA OnboardHolds ==
  ASSUME OnboardInv
  PROVE  OnboardSound
<1>1. ReadyMeansUsable /\ UsableIsSaid
  BY AdviceHolds, OnboardParts
<1>2. IgnoreKept
  BY OnboardParts DEF IgnoreKept, LinesKept, Kept
<1> QED BY <1>1, <1>2, OnboardParts DEF OnboardSound

(* What setting up promises (MCLocal.SetupSound).  The manifest is written *)
(* behind every file that install_thread_server_bundle_for makes, and      *)
(* inspect_thread_server_install_for looks for it, so that a bundle shown  *)
(* as present is whole, whenever an install was cut off; initialize_repo   *)
(* leaves what assess_repo_init looks for and the lines of .gitignore it   *)
(* found; and an assessment of run_onboard says ready just when the        *)
(* provider can start, whatever other processes change meanwhile.          *)
THEOREM SetupSafe == MCSpec => []SetupSound
<1> DEFINE SetupInv == (part = "install" => InstallInv) /\ (part = "onboard" => OnboardInv)
<1>1. MCInit => SetupInv
  BY InstallStart, OnboardStart DEF MCInit
<1>2. SetupInv /\
      [MCNext]_<<part, vars, filesVars, bashVars, toolsVars, browserVars, agentVars, lspVars,
                 argsVars, editorVars, installVars, onboardVars, configVars>>
        => SetupInv'
  BY InstallMoves, InstallIdle, OnboardMoves, OnboardIdle DEF MCNext
<1>3. SetupInv => SetupSound
  BY InstallHolds, OnboardHolds DEF SetupSound
<1> QED
  BY <1>1, <1>2, <1>3, PTL DEF MCSpec

(***************************************************************************)
(* The command line and the line editor.                                   *)
(***************************************************************************)
(* What the scanner has read up to n: options and their values, and a      *)
(* mode that one of them asks for.                                         *)
OptionAt(i) ==
  \/ argv[i] \in ValueOptions \cup Switches \cup {"-p", "prompt"}
  \/ i > 1 /\ argv[i - 1] \in ValueOptions
ReadTo(n, mode) ==
  /\ \A i \in 1..n : OptionAt(i)
  /\ mode # Nothing =>
       \E i \in 1..n : argv[i] = mode \/ argv[i] = "--dangerously-skip-permissions"
  /\ mode = Nothing =>
       \A i \in 1..n : argv[i] = "--permission-mode" => i > 1 /\ argv[i - 1] \in ValueOptions

(* The words are what is left, behind what was read.                       *)
BehindOptions(words, mode) ==
  \E k \in 1..(Len(argv) + 1) : words = SubSeq(argv, k, Len(argv)) /\ ReadTo(k - 1, mode)

ScanShape(c) ==
  c \in [at : 1..(Len(argv) + 1), model : {c.model}, format : {c.format}, mode : {c.mode},
         version : {c.version}, tools : {c.tools}, profile : {c.profile}]

ArgsInv ==
  /\ argv \in Seq(STRING)
  /\ action.kind = "none" => ScanShape(scan) /\ ReadTo(scan.at - 1, scan.mode)
  /\ action.kind \in {"prompt", "repl"} => BehindOptions(action.words, action.mode)
  /\ action.kind = "running" => BehindOptions(action.words, action.asked) /\ PolicyWithinProfile
  /\ ResumeWordsKept

LEMMA ReadOn ==
  ASSUME argv \in Seq(STRING), NEW place \in 1..Len(argv), NEW mode, ReadTo(place - 1, mode)
  PROVE  /\ argv[place] \in Switches \cup {"-p", "prompt"} => ReadTo(place, mode)
         /\ argv[place] \in ValueOptions \ {"--permission-mode"} /\ place < Len(argv) => ReadTo(place + 1, mode)
         /\ argv[place] = "--permission-mode" /\ place < Len(argv) /\ argv[place + 1] # Nothing =>
              ReadTo(place + 1, argv[place + 1])
         /\ argv[place] = "--dangerously-skip-permissions" => ReadTo(place, "danger-full-access")
<1>1. Len(argv) \in Nat
  OBVIOUS
<1>2. ASSUME argv[place] \in Switches \cup {"-p", "prompt"}
      PROVE  ReadTo(place, mode)
  <2>1. argv[place] # "--permission-mode" /\ OptionAt(place)
    BY <1>2 DEF Switches, OptionAt
  <2>2. \A i \in 1..place : i = place \/ i \in 1..(place - 1)
    BY <1>1
  <2> QED BY <1>1, <2>1, <2>2 DEF ReadTo
<1>3. ASSUME argv[place] \in ValueOptions, place < Len(argv)
      PROVE  \A i \in 1..(place + 1) : OptionAt(i) /\ (i \in {place, place + 1} \/ i \in 1..(place - 1))
  <2>1. OptionAt(place) /\ OptionAt(place + 1)
    BY <1>1, <1>3 DEF OptionAt
  <2> QED BY <1>1, <2>1 DEF ReadTo
<1>4. ASSUME argv[place] \in ValueOptions \ {"--permission-mode"}, place < Len(argv)
      PROVE  ReadTo(place + 1, mode)
  <2>1. (place + 1) - 1 = place /\ place + 1 > 1 /\ argv[place] # "--permission-mode"
    BY <1>1, <1>4
  <2> QED BY <1>1, <1>3, <1>4, <2>1 DEF ReadTo
<1>5. ASSUME argv[place] = "--permission-mode", place < Len(argv), argv[place + 1] # Nothing
      PROVE  ReadTo(place + 1, argv[place + 1])
  <2>1. argv[place] \in ValueOptions
    BY <1>5 DEF ValueOptions
  <2>2. place + 1 \in 1..(place + 1)
    BY <1>1
  <2> QED BY <1>3, <1>5, <2>1, <2>2 DEF ReadTo
<1>6. ASSUME argv[place] = "--dangerously-skip-permissions"
      PROVE  ReadTo(place, "danger-full-access")
  <2>1. OptionAt(place) /\ "danger-full-access" # Nothing
    BY <1>6 DEF Switches, OptionAt, Nothing
  <2>2. \A i \in 1..place : i = place \/ i \in 1..(place - 1)
    BY <1>1
  <2> QED BY <1>1, <1>6, <2>1, <2>2 DEF ReadTo
<1> QED BY <1>2, <1>4, <1>5, <1>6

LEMMA OptionTaken ==
  ASSUME NEW c, ScanShape(c), NEW v, NEW d,
         d \in {[c EXCEPT !.model = v], [c EXCEPT !.format = v], [c EXCEPT !.version = v],
                [c EXCEPT !.tools = v], [c EXCEPT !.profile = v]}
  PROVE  ScanShape(d) /\ d.mode = c.mode
<1> DEFINE places == 1..(Len(argv) + 1)
<1>0. c \in [at : places, model : {c.model}, format : {c.format}, mode : {c.mode},
             version : {c.version}, tools : {c.tools}, profile : {c.profile}]
  BY DEF ScanShape
<1> HIDE DEF places
<1>1. ASSUME d \in [at : places, model : {d.model}, format : {d.format}, mode : {d.mode},
                    version : {d.version}, tools : {d.tools}, profile : {d.profile}]
      PROVE  ScanShape(d)
  BY <1>1 DEF ScanShape, places
<1>2. CASE d = [c EXCEPT !.model = v]
  <2>1. d \in [at : places, model : {v}, format : {c.format}, mode : {c.mode},
               version : {c.version}, tools : {c.tools}, profile : {c.profile}]
    BY <1>0, <1>2
  <2> QED BY <1>1, <2>1
<1>3. CASE d = [c EXCEPT !.format = v]
  <2>1. d \in [at : places, model : {c.model}, format : {v}, mode : {c.mode},
               version : {c.version}, tools : {c.tools}, profile : {c.profile}]
    BY <1>0, <1>3
  <2> QED BY <1>1, <2>1
<1>4. CASE d = [c EXCEPT !.version = v]
  <2>1. d \in [at : places, model : {c.model}, format : {c.format}, mode : {c.mode},
               version : {v}, tools : {c.tools}, profile : {c.profile}]
    BY <1>0, <1>4
  <2> QED BY <1>1, <2>1
<1>5. CASE d = [c EXCEPT !.tools = v]
  <2>1. d \in [at : places, model : {c.model}, format : {c.format}, mode : {c.mode},
               version : {c.version}, tools : {v}, profile : {c.profile}]
    BY <1>0, <1>5
  <2> QED BY <1>1, <2>1
<1>6. CASE d = [c EXCEPT !.profile = v]
  <2>1. d \in [at : places, model : {c.model}, format : {c.format}, mode : {c.mode},
               version : {c.version}, tools : {c.tools}, profile : {v}]
    BY <1>0, <1>6
  <2> QED BY <1>1, <2>1
<1> QED BY <1>2, <1>3, <1>4, <1>5, <1>6

LEMMA ModeTaken ==
  ASSUME NEW c, ScanShape(c), NEW v, NEW d, d = [c EXCEPT !.mode = v]
  PROVE  ScanShape(d) /\ d.mode = v
<1>1. d \in [at : 1..(Len(argv) + 1), model : {c.model}, format : {c.format}, mode : {v},
             version : {c.version}, tools : {c.tools}, profile : {c.profile}]
  BY DEF ScanShape
<1> QED BY <1>1 DEF ScanShape

LEMMA OptionsTaken ==
  ASSUME ScanShape(scan), NEW v
  PROVE  /\ ScanShape([scan EXCEPT !.model = v]) /\ [scan EXCEPT !.model = v].mode = scan.mode
         /\ ScanShape([scan EXCEPT !.format = v]) /\ [scan EXCEPT !.format = v].mode = scan.mode
         /\ ScanShape([scan EXCEPT !.version = v]) /\ [scan EXCEPT !.version = v].mode = scan.mode
         /\ ScanShape([scan EXCEPT !.tools = v]) /\ [scan EXCEPT !.tools = v].mode = scan.mode
         /\ ScanShape([scan EXCEPT !.profile = v]) /\ [scan EXCEPT !.profile = v].mode = scan.mode
<1>1. \A d : d \in {[scan EXCEPT !.model = v], [scan EXCEPT !.format = v], [scan EXCEPT !.version = v],
                   [scan EXCEPT !.tools = v], [scan EXCEPT !.profile = v]} =>
              ScanShape(d) /\ d.mode = scan.mode
  BY OptionTaken
<1> QED BY <1>1, Zenon

LEMMA PlaceTaken ==
  ASSUME NEW c, ScanShape(c), NEW place \in 1..(Len(argv) + 1), NEW d, d = [c EXCEPT !.at = place]
  PROVE  ScanShape(d) /\ d.at = place /\ d.mode = c.mode
<1>1. d \in [at : 1..(Len(argv) + 1), model : {c.model}, format : {c.format}, mode : {c.mode},
             version : {c.version}, tools : {c.tools}, profile : {c.profile}] /\ d.at = place
  BY DEF ScanShape
<1> QED BY <1>1 DEF ScanShape

LEMMA ScanAt ==
  ASSUME ArgsInv, action.kind = "none"
  PROVE  /\ argv \in Seq(STRING) /\ Len(argv) \in Nat
         /\ ScanShape(scan) /\ scan.at \in 1..(Len(argv) + 1) /\ ReadTo(scan.at - 1, scan.mode)
BY DEF ArgsInv, ScanShape

(* The scan goes on, or ends with an error.                                *)
LEMMA ScanGoesOn ==
  ASSUME ArgsInv, argv' = argv, action' = action, action.kind = "none",
         ScanShape(scan'), ReadTo(scan'.at - 1, scan'.mode)
  PROVE  ArgsInv'
<1>1. ScanShape(scan)' /\ ReadTo(scan.at - 1, scan.mode)'
  BY DEF ScanShape, ReadTo, OptionAt
<1>2. ResumeWordsKept'
  BY DEF ResumeWordsKept
<1> QED BY <1>1, <1>2 DEF ArgsInv

LEMMA ScanEnds ==
  ASSUME ArgsInv, argv' = argv, action'.kind \notin {"none", "prompt", "repl", "running", "resume"}
  PROVE  ArgsInv'
<1>1. ResumeWordsKept'
  BY DEF ResumeWordsKept
<1> QED BY <1>1 DEF ArgsInv

LEMMA ValueRead ==
  ASSUME ArgsInv, scan_value_option
  PROVE  ArgsInv'
<1> DEFINE value == argv[scan.at + 1]
           picked == takes_value(Here, value)
<1>1. CASE Failed
  <2>1. action'.kind = "error" /\ argv' = argv
    BY <1>1 DEF Failed, scan_value_option
  <2> QED BY <2>1, ScanEnds
<1>2. CASE ~Failed
  <2>1. /\ scan' = [picked EXCEPT !.at = scan.at + 2] /\ action' = action /\ argv' = argv
        /\ Left # 0 /\ accepts(Here, value) /\ action.kind = "none" /\ scan.at <= Len(argv)
        /\ Here \in ValueOptions
    BY <1>2 DEF scan_value_option, Failed, Scanning
  <2>2. /\ argv \in Seq(STRING) /\ Len(argv) \in Nat /\ ScanShape(scan) /\ scan.at \in 1..Len(argv)
        /\ ReadTo(scan.at - 1, scan.mode)
    BY <2>1, ScanAt
  <2>3. scan.at < Len(argv) /\ scan.at + 2 \in 1..(Len(argv) + 1) /\ (scan.at + 2) - 1 = scan.at + 1
    BY <2>1, <2>2 DEF Left
  <2>4. ScanShape(picked) /\ picked.mode = IF Here = "--permission-mode" THEN value ELSE scan.mode
    <3> HIDE DEF value
    <3>1. CASE Here = "--permission-mode"
      <4>1. picked = [scan EXCEPT !.mode = value]
        BY <3>1 DEF takes_value
      <4> QED BY <2>2, <3>1, <4>1, ModeTaken
    <3>2. CASE Here = "--output-format"
      <4>1. picked = [scan EXCEPT !.format = value]
        BY <3>2 DEF takes_value
      <4> QED BY <2>2, <3>2, <4>1, OptionsTaken
    <3>3. CASE Here = "--allowedTools"
      <4>1. picked = [scan EXCEPT !.tools = @ \cup {value}]
        BY <3>3 DEF takes_value
      <4> QED BY <2>2, <3>3, <4>1, OptionsTaken
    <3>4. CASE Here = "--tool-profile"
      <4>1. picked = [scan EXCEPT !.profile = value]
        BY <3>4 DEF takes_value
      <4> QED BY <2>2, <3>4, <4>1, OptionsTaken
    <3>5. CASE Here = "--model"
      <4>1. picked = [scan EXCEPT !.model = value]
        BY <3>5 DEF takes_value
      <4> QED BY <2>2, <3>5, <4>1, OptionsTaken
    <3> QED BY <2>1, <3>1, <3>2, <3>3, <3>4, <3>5 DEF ValueOptions
  <2>5. ReadTo(scan.at + 1, picked.mode)
    <3>1. CASE Here = "--permission-mode"
      <4>1. value # Nothing
        BY <2>1, <3>1 DEF accepts, PermissionModes, Nothing
      <4>2. ReadTo(scan.at + 1, value)
        BY <2>2, <2>3, <3>1, <4>1, ReadOn DEF Here
      <4> QED BY <2>4, <3>1, <4>2
    <3>2. CASE Here # "--permission-mode"
      <4>1. ReadTo(scan.at + 1, scan.mode)
        BY <2>1, <2>2, <2>3, <3>2, ReadOn DEF Here
      <4> QED BY <2>4, <3>2, <4>1
    <3> QED BY <3>1, <3>2
  <2> HIDE DEF picked, value
  <2>6. ScanShape(scan') /\ scan'.at = scan.at + 2 /\ scan'.mode = picked.mode
    BY <2>1, <2>3, <2>4, PlaceTaken
  <2> QED BY <2>1, <2>3, <2>5, <2>6, ScanGoesOn
<1> QED BY <1>1, <1>2

LEMMA SwitchRead ==
  ASSUME ArgsInv, scan_switch
  PROVE  ArgsInv'
<1> DEFINE picked == switches(Here)
<1>1. /\ scan' = [picked EXCEPT !.at = scan.at + 1] /\ action' = action /\ argv' = argv
      /\ action.kind = "none" /\ scan.at <= Len(argv) /\ Here \in Switches
  BY DEF scan_switch, Scanning
<1>2. /\ argv \in Seq(STRING) /\ Len(argv) \in Nat /\ ScanShape(scan) /\ scan.at \in 1..Len(argv)
      /\ ReadTo(scan.at - 1, scan.mode)
  BY <1>1, ScanAt
<1>3. scan.at + 1 \in 1..(Len(argv) + 1) /\ (scan.at + 1) - 1 = scan.at
  BY <1>2
<1>4. /\ ScanShape(picked)
      /\ picked.mode = IF Here = "--dangerously-skip-permissions" THEN "danger-full-access" ELSE scan.mode
  <2>1. CASE Here = "--version"
    <3>1. picked = [scan EXCEPT !.version = TRUE]
      BY <2>1 DEF switches
    <3> QED BY <1>2, <2>1, <3>1, OptionsTaken
  <2>2. CASE Here = "--print"
    <3>1. picked = [scan EXCEPT !.format = "text"]
      BY <2>2 DEF switches
    <3> QED BY <1>2, <2>2, <3>1, OptionsTaken
  <2>3. CASE Here = "--dangerously-skip-permissions"
    <3>1. picked = [scan EXCEPT !.mode = "danger-full-access"]
      BY <2>3 DEF switches
    <3> QED BY <1>2, <2>3, <3>1, ModeTaken
  <2> QED BY <1>1, <2>1, <2>2, <2>3 DEF Switches
<1>5. ReadTo(scan.at, picked.mode)
  BY <1>1, <1>2, <1>4, ReadOn DEF Here
<1> HIDE DEF picked
<1>6. ScanShape(scan') /\ scan'.at = scan.at + 1 /\ scan'.mode = picked.mode
  BY <1>1, <1>3, <1>4, PlaceTaken
<1> QED BY <1>1, <1>3, <1>5, <1>6, ScanGoesOn

(* The words behind --resume, cut where a command starts.                  *)
CommandStarts(words) == {i \in DOMAIN words : starts_command(words, i)}
Ends(words, i, e) ==
  (e + 1 \in CommandStarts(words) \/ e = Len(words)) /\ \A j \in (i + 1)..e : j \notin CommandStarts(words)

LEMMA CommandEnds ==
  ASSUME NEW words \in Seq(STRING), NEW i \in CommandStarts(words)
  PROVE  /\ i \in 1..Len(words)
         /\ \E e \in i..Len(words) : Ends(words, i, e)
<1>1. Len(words) \in Nat /\ i \in 1..Len(words)
  BY DEF CommandStarts
<1> DEFINE E == {e \in i..Len(words) : e + 1 \in CommandStarts(words) \/ e = Len(words)}
<1>2. E \in SUBSET Nat /\ Len(words) \in E
  BY <1>1
<1>3. PICK e \in E : \A y \in E : e <= y
  BY <1>2, LeastOf
<1>5. e \in i..Len(words) /\ (e + 1 \in CommandStarts(words) \/ e = Len(words)) /\ e \in Int /\ i \in Int
  BY <1>1
<1>4. \A j \in (i + 1)..e : j \notin CommandStarts(words)
  <2> SUFFICES ASSUME NEW j \in (i + 1)..e, j \in CommandStarts(words) PROVE FALSE
    OBVIOUS
  <2>1. j \in Int /\ j - 1 \in i..Len(words) /\ (j - 1) + 1 = j /\ j - 1 < e
    BY <1>1, <1>5
  <2>2. j - 1 \in E
    BY <2>1
  <2> HIDE DEF E
  <2>3. e <= j - 1
    BY <1>3, <2>2
  <2> QED BY <1>5, <2>1, <2>3
<1> QED BY <1>4, <1>5, <1>1 DEF Ends

EndOf(words, i) == CHOOSE e \in i..Len(words) : Ends(words, i, e)

LEMMA CommandsCut ==
  ASSUME NEW words \in Seq(STRING)
  PROVE  /\ \A c \in group_resume_commands(words) :
              /\ c.from \in CommandStarts(words) /\ c.to = EndOf(words, c.from)
         /\ \A i \in CommandStarts(words) :
              \E c \in group_resume_commands(words) : c.from = i /\ c.to = EndOf(words, i)
         /\ \A i \in CommandStarts(words) :
              i \in 1..Len(words) /\ EndOf(words, i) \in i..Len(words) /\ Ends(words, i, EndOf(words, i))
<1>1. group_resume_commands(words) = {[from |-> i, to |-> EndOf(words, i)] : i \in CommandStarts(words)}
  BY DEF group_resume_commands, CommandStarts, EndOf, Ends
<1>2. \A i \in CommandStarts(words) :
        i \in 1..Len(words) /\ EndOf(words, i) \in i..Len(words) /\ Ends(words, i, EndOf(words, i))
  BY CommandEnds DEF EndOf
<1>3. \A c \in group_resume_commands(words) : c.from \in CommandStarts(words) /\ c.to = EndOf(words, c.from)
  BY <1>1
<1>4. ASSUME NEW i \in CommandStarts(words)
      PROVE  \E c \in group_resume_commands(words) : c.from = i /\ c.to = EndOf(words, i)
  <2> DEFINE c == [from |-> i, to |-> EndOf(words, i)]
  <2>1. c \in group_resume_commands(words) /\ c.from = i /\ c.to = EndOf(words, i)
    BY <1>1
  <2> QED BY <2>1
<1> QED BY <1>2, <1>3, <1>4

LEMMA WordsCovered ==
  ASSUME NEW words \in Seq(STRING), words # <<>> => words[1] \in Slash
  PROVE  UNION {c.from..c.to : c \in group_resume_commands(words)} = DOMAIN words
<1> DEFINE n == Len(words)
           pieces == group_resume_commands(words)
<1>1. n \in Nat /\ DOMAIN words = 1..n /\ (n > 0 => words # <<>>)
  OBVIOUS
<1>2. /\ \A c \in pieces : c.from \in CommandStarts(words) /\ c.to = EndOf(words, c.from)
      /\ \A i \in CommandStarts(words) : \E c \in pieces : c.from = i /\ c.to = EndOf(words, i)
      /\ \A i \in CommandStarts(words) :
           i \in 1..n /\ EndOf(words, i) \in i..n /\ Ends(words, i, EndOf(words, i))
  BY CommandsCut
<1> HIDE DEF pieces
<1>3. \A c \in pieces : c.from..c.to \subseteq 1..n
  BY <1>1, <1>2
<1>4. ASSUME NEW k \in 1..n
      PROVE  \E c \in pieces : k \in c.from..c.to
  <2>1. 1 \in CommandStarts(words)
    <3>1. {j \in 1..(1 - 1) : words[j] \in Slash \ {"/path"}} = {}
      OBVIOUS
    <3>2. 1 \in DOMAIN words /\ words[1] \in Slash
      BY <1>1, <1>4
    <3> QED BY <3>1, <3>2 DEF CommandStarts, starts_command
  <2> DEFINE D == {d \in Nat : k - d \in CommandStarts(words)}
  <2>2. D \in SUBSET Nat /\ k - 1 \in D
    BY <1>1, <2>1
  <2>3. PICK d \in D : \A y \in D : d <= y
    BY <2>2, LeastOf
  <2> DEFINE m == k - d
  <2>4. m \in CommandStarts(words) /\ m \in 1..n /\ m <= k /\ EndOf(words, m) \in m..n
        /\ Ends(words, m, EndOf(words, m))
    BY <1>1, <1>2, <2>3
  <2>5. k <= EndOf(words, m)
    <3> DEFINE e == EndOf(words, m)
    <3> SUFFICES ASSUME e < k PROVE FALSE
      BY <1>1, <2>4
    <3>1. e + 1 \in CommandStarts(words)
      BY <1>1, <2>4 DEF Ends
    <3>2. k - (e + 1) \in D /\ k - (e + 1) < d
      BY <1>1, <2>3, <2>4, <3>1
    <3> QED BY <2>3, <3>2
  <2>6. PICK c \in pieces : c.from = m /\ c.to = EndOf(words, m)
    BY <1>2, <2>4
  <2> QED BY <1>1, <2>4, <2>5, <2>6
<1> QED BY <1>1, <1>3, <1>4 DEF pieces

LEMMA CommandsApart ==
  ASSUME NEW words \in Seq(STRING)
  PROVE  \A c, d \in group_resume_commands(words) : c = d \/ (c.from..c.to) \cap (d.from..d.to) = {}
<1> SUFFICES ASSUME NEW c \in group_resume_commands(words), NEW d \in group_resume_commands(words), c # d
             PROVE  (c.from..c.to) \cap (d.from..d.to) = {}
  OBVIOUS
<1>1. /\ c.from \in CommandStarts(words) /\ c.to = EndOf(words, c.from)
      /\ d.from \in CommandStarts(words) /\ d.to = EndOf(words, d.from)
      /\ \A i \in CommandStarts(words) :
           i \in 1..Len(words) /\ EndOf(words, i) \in i..Len(words) /\ Ends(words, i, EndOf(words, i))
  BY CommandsCut
<1>2. c.from # d.from
  <2>1. group_resume_commands(words) = {[from |-> i, to |-> EndOf(words, i)] : i \in CommandStarts(words)}
    BY DEF group_resume_commands, CommandStarts, EndOf, Ends
  <2> QED BY <2>1
<1>3. ASSUME NEW i \in CommandStarts(words), NEW j \in CommandStarts(words), i < j
      PROVE  EndOf(words, i) < j
  <2>1. /\ i \in 1..Len(words) /\ j \in 1..Len(words) /\ EndOf(words, i) \in i..Len(words)
        /\ j \notin (i + 1)..EndOf(words, i)
    BY <1>1 DEF Ends
  <2> QED BY <1>3, <2>1
<1>4. c.from \in Int /\ d.from \in Int /\ c.to \in Int /\ d.to \in Int
  BY <1>1
<1>5. c.to < d.from \/ d.to < c.from
  BY <1>1, <1>2, <1>3, <1>4
<1> QED BY <1>4, <1>5

(* A path behind /export is no start: the last command before it is it.    *)
LEMMA PathStays ==
  ASSUME NEW words \in Seq(STRING), NEW i \in CommandStarts(words)
  PROVE  words[i] \in Slash /\ (words[i] = "/path" => i = 1 \/ words[i - 1] # "/export")
<1>1. i \in 1..Len(words) /\ Len(words) \in Nat /\ starts_command(words, i)
  BY DEF CommandStarts
<1> SUFFICES ASSUME words[i] = "/path", i # 1, words[i - 1] = "/export"
             PROVE  FALSE
  BY <1>1 DEF starts_command
<1> DEFINE heads == {j \in 1..(i - 1) : words[j] \in Slash \ {"/path"}}
<1>2. i - 1 \in heads
  BY <1>1 DEF Slash
<1>3. \A j \in heads : (\A k \in heads : k <= j) <=> j = i - 1
  BY <1>1, <1>2
<1>4. (CHOOSE j \in heads : \A k \in heads : k <= j) = i - 1
  BY <1>2, <1>3
<1> QED BY <1>1, <1>2, <1>4 DEF starts_command

LEMMA ResumeRead ==
  ASSUME ArgsInv, NEW words \in Seq(STRING), argv' = argv, action' = parse_resume_args(words)
  PROVE  ArgsInv'
<1>1. CASE words = <<>> \/ (Len(words) > 1 /\ words[2] \notin Slash)
  <2>1. action'.kind = "error"
    BY <1>1 DEF parse_resume_args
  <2> QED BY <2>1, ScanEnds
<1>2. CASE ~(words = <<>> \/ (Len(words) > 1 /\ words[2] \notin Slash))
  <2> DEFINE rest == Tail(words)
             pieces == group_resume_commands(rest)
  <2>1. rest \in Seq(STRING) /\ (rest # <<>> => rest[1] \in Slash)
    BY <1>2
  <2>2. action'.kind = "resume" /\ action'.rest = rest /\ action'.commands = pieces
    <3>1. action' = [kind |-> "resume", session |-> words[1], rest |-> rest, commands |-> pieces]
      BY <1>2 DEF parse_resume_args
    <3> HIDE DEF rest, pieces
    <3> QED BY <3>1
  <2>3. /\ UNION {c.from..c.to : c \in pieces} = DOMAIN rest
        /\ \A c, d \in pieces : c = d \/ (c.from..c.to) \cap (d.from..d.to) = {}
    BY <2>1, WordsCovered, CommandsApart
  <2>4. \A c \in pieces :
         /\ rest[c.from] \in Slash
         /\ rest[c.from] = "/path" => c.from = 1 \/ rest[c.from - 1] # "/export"
    BY <2>1, CommandsCut, PathStays
  <2> HIDE DEF rest, pieces
  <2>5. ResumeWordsKept'
    BY <2>2, <2>3, <2>4 DEF ResumeWordsKept
  <2> QED BY <2>2, <2>5 DEF ArgsInv
<1> QED BY <1>1, <1>2

(* A conversation's words are the end of the command line.                 *)
LEMMA ConversationRead ==
  ASSUME ArgsInv, argv' = argv, action.kind = "none", NEW kind \in {"prompt", "repl"},
         NEW k \in 1..(Len(argv) + 1), NEW words, words = SubSeq(argv, k, Len(argv)),
         ReadTo(k - 1, scan.mode), action' = Conversation(kind, words)
  PROVE  ArgsInv'
<1>1. action'.kind = kind /\ action'.words = words /\ action'.mode = scan.mode
  BY DEF Conversation
<1>2. BehindOptions(words, scan.mode)
  BY DEF BehindOptions
<1>3. BehindOptions(action.words, action.mode)'
  <2>1. BehindOptions(action'.words, action'.mode)
    BY <1>1, <1>2
  <2> QED BY <2>1 DEF BehindOptions, ReadTo, OptionAt
<1>4. ResumeWordsKept'
  BY <1>1 DEF ResumeWordsKept
<1> QED BY <1>1, <1>3, <1>4 DEF ArgsInv

LEMMA PromptRead ==
  ASSUME ArgsInv, scan_prompt
  PROVE  ArgsInv'
<1>1. /\ action.kind = "none" /\ scan.at <= Len(argv) /\ argv[scan.at] = "-p" /\ argv' = argv
      /\ action' = IF Left = 1 /\ argv[scan.at + 1] \in help THEN [kind |-> "help"]
                   ELSE IF Left = 0 \/ ~known_tools(scan.tools) THEN [kind |-> "error"]
                   ELSE Conversation("prompt", From(scan.at + 1))
  BY DEF scan_prompt, Scanning, Here
<1>2. /\ argv \in Seq(STRING) /\ Len(argv) \in Nat /\ scan.at \in 1..Len(argv)
      /\ ReadTo(scan.at - 1, scan.mode)
  BY <1>1, ScanAt
<1>3. ReadTo(scan.at, scan.mode) /\ scan.at + 1 \in 1..(Len(argv) + 1) /\ (scan.at + 1) - 1 = scan.at
  BY <1>1, <1>2, ReadOn
<1>4. CASE action' = Conversation("prompt", From(scan.at + 1))
  BY <1>1, <1>3, <1>4, ConversationRead DEF From
<1>5. CASE action' # Conversation("prompt", From(scan.at + 1))
  <2>1. action'.kind \in {"help", "error"}
    BY <1>1, <1>5
  <2> QED BY <1>1, <2>1, ScanEnds
<1> QED BY <1>4, <1>5

LEMMA ServerRead ==
  ASSUME NEW rest
  PROVE  parse_server_args(rest).kind \in
           {"help", "error", "status", "stop", "recover", "start", "install", "server"}
<1> DEFINE sub == IF rest = <<>> THEN "" ELSE rest[1]
           shown == \/ is_help_args(rest)
                    \/ /\ sub \in {"start", "status", "stop", "recover", "install"}
                       /\ is_help_args(Tail(rest))
<1>1. CASE shown
  <2>1. parse_server_args(rest) = [kind |-> "help"]
    BY <1>1 DEF parse_server_args
  <2> QED BY <2>1
<1>2. CASE ~shown /\ sub \in {"status", "stop", "recover"}
  <2>1. parse_server_args(rest) \in {[kind |-> sub], [kind |-> "error"]}
    BY <1>2 DEF parse_server_args
  <2> HIDE DEF sub
  <2> QED BY <1>2, <2>1
<1>3. CASE ~shown /\ sub = "start"
  <2>1. parse_server_args(rest) \in {[kind |-> sub], [kind |-> "error"]}
    BY <1>3 DEF parse_server_args
  <2> HIDE DEF sub
  <2> QED BY <1>3, <2>1
<1>4. CASE ~shown /\ sub = "install"
  <2>1. parse_server_args(rest) \in {[kind |-> sub], [kind |-> "error"]}
    BY <1>4 DEF parse_server_args
  <2> HIDE DEF sub
  <2> QED BY <1>4, <2>1
<1>5. CASE ~shown /\ sub \notin {"status", "stop", "recover", "start", "install"}
  <2>1. parse_server_args(rest) \in {[kind |-> "server"], [kind |-> "error"]}
    BY <1>5 DEF parse_server_args
  <2> QED BY <2>1
<1> HIDE DEF sub, shown
<1> QED BY <1>1, <1>2, <1>3, <1>4, <1>5

LEMMA Dispatched ==
  ASSUME ArgsInv, dispatch
  PROVE  ArgsInv'
<1>1. /\ action.kind = "none" /\ argv' = argv
      /\ action' = IF scan.version THEN [kind |-> "version"]
                   ELSE IF ~known_tools(scan.tools) THEN [kind |-> "error"]
                   ELSE IF scan.at > Len(argv) THEN Conversation("repl", <<>>)
                   ELSE first_word(Here, From(scan.at + 1))
  BY DEF dispatch
<1>2. /\ argv \in Seq(STRING) /\ Len(argv) \in Nat /\ scan.at \in 1..(Len(argv) + 1)
      /\ ReadTo(scan.at - 1, scan.mode)
  BY <1>1, ScanAt
<1>3. CASE action'.kind \in {"version", "error", "help", "login", "doctor", "agents", "status", "stop",
                             "recover", "start", "install", "server"}
  BY <1>1, <1>3, ScanEnds
<1>4. CASE scan.at > Len(argv) /\ action' = Conversation("repl", <<>>)
  <2>1. SubSeq(argv, scan.at, Len(argv)) = <<>>
    BY <1>2, <1>4
  <2> QED BY <1>1, <1>2, <1>4, <2>1, ConversationRead
<1>5. CASE scan.at <= Len(argv) /\ action' = first_word(Here, From(scan.at + 1))
  <2> DEFINE rest == From(scan.at + 1)
  <2>1. scan.at \in 1..Len(argv) /\ scan.at + 1 \in 1..(Len(argv) + 1) /\ (scan.at + 1) - 1 = scan.at
        /\ rest = SubSeq(argv, scan.at + 1, Len(argv)) /\ rest \in Seq(STRING)
    BY <1>2, <1>5 DEF From
  <2> HIDE DEF rest
  <2>2. CASE Here \in help
    <3>1. action' = [kind |-> "help"]
      BY <1>5, <2>2 DEF first_word, help, Slash
    <3> QED BY <1>3, <3>1
  <2>3. CASE Here = "--resume"
    <3>1. action' = parse_resume_args(rest)
      BY <1>5, <2>3 DEF first_word, help, Slash, rest
    <3> QED BY <1>1, <2>1, <3>1, ResumeRead
  <2>4. CASE Here = "login"
    <3>1. action'.kind \in {"help", "login"}
      BY <1>5, <2>4 DEF first_word, help, Slash
    <3> QED BY <1>3, <3>1
  <2>5. CASE Here = "doctor"
    <3>1. action'.kind \in {"help", "doctor", "error"}
      BY <1>5, <2>5 DEF first_word, help, Slash
    <3> QED BY <1>3, <3>1
  <2>6. CASE Here = "server"
    <3>1. action' = parse_server_args(rest)
      BY <1>5, <2>6 DEF first_word, help, Slash, rest
    <3> QED BY <1>3, <3>1, ServerRead
  <2>7. CASE Here = "prompt"
    <3>1. action' \in {[kind |-> "error"], [kind |-> "help"], Conversation("prompt", rest)}
      BY <1>5, <2>7 DEF first_word, help, Slash, rest
    <3>2. CASE action' = Conversation("prompt", rest)
      <4>1. ReadTo(scan.at, scan.mode)
        BY <1>2, <2>1, <2>7, ReadOn DEF Here
      <4> QED BY <1>1, <2>1, <3>2, <4>1, ConversationRead
    <3>3. CASE action' \in {[kind |-> "error"], [kind |-> "help"]}
      BY <1>3, <3>3
    <3> QED BY <3>1, <3>2, <3>3
  <2>8. CASE Here \in Slash
    <3>1. action' = parse_direct_slash_cli_action(Here)
      BY <1>5, <2>8 DEF first_word, help, Slash
    <3>2. action'.kind \in {"help", "agents", "error"}
      BY <3>1 DEF parse_direct_slash_cli_action
    <3> QED BY <1>3, <3>2
  <2>9. CASE Here \notin help \cup Slash \cup {"--resume", "login", "doctor", "server", "prompt"}
    <3>1. action' = Conversation("prompt", From(scan.at))
      BY <1>5, <2>9 DEF first_word
    <3> QED BY <1>1, <1>2, <2>1, <3>1, ConversationRead DEF From
  <2> QED BY <2>2, <2>3, <2>4, <2>5, <2>6, <2>7, <2>8, <2>9
<1> QED BY <1>1, <1>2, <1>3, <1>4, <1>5

(* The policy of a conversation: what it may do is what the profile        *)
(* grants, and its words and its mode are those that were read.            *)
LEMMA PolicyResolved ==
  ASSUME ArgsInv, resolve_policy
  PROVE  ArgsInv'
<1>1. argv' = argv /\ action.kind \in {"prompt", "repl"} /\ BehindOptions(action.words, action.mode)
  BY DEF resolve_policy, ArgsInv
<1>2. ASSUME action'.kind = "running", action'.words = action.words, action'.asked = action.mode,
             PolicyWithinProfile'
      PROVE  ArgsInv'
  <2>1. BehindOptions(action'.words, action'.asked)
    BY <1>1, <1>2
  <2>2. BehindOptions(action.words, action.asked)'
    BY <1>1, <2>1 DEF BehindOptions, ReadTo, OptionAt
  <2>3. ResumeWordsKept'
    BY <1>2 DEF ResumeWordsKept
  <2> QED BY <1>1, <1>2, <2>2, <2>3 DEF ArgsInv
<1>3. PICK default \in PermissionModes :
        IF action.profile = Nothing
        THEN action' = [kind |-> "running", tools |-> action.tools, profile |-> Nothing,
                        words |-> action.words, asked |-> action.mode,
                        mode |-> IF action.mode = Nothing THEN default ELSE action.mode]
        ELSE IF action.profile \notin DOMAIN Profiles THEN action' = [kind |-> "error"]
        ELSE LET p == Profiles[action.profile]
                 mode == IF action.mode = Nothing THEN p.mode ELSE action.mode IN
             action' = IF within_ceiling(p, mode, action.tools)
                       THEN [kind |-> "running", mode |-> mode, profile |-> action.profile,
                             words |-> action.words, asked |-> action.mode,
                             tools |-> IF action.tools = {} THEN p.tools ELSE action.tools]
                       ELSE [kind |-> "error"]
  BY DEF resolve_policy
<1>4. CASE action' = [kind |-> "error"]
  <2>1. action'.kind = "error"
    BY <1>4
  <2> QED BY <1>1, <2>1, ScanEnds
<1>5. CASE action.profile = Nothing
  <2>1. /\ action'.kind = "running" /\ action'.words = action.words /\ action'.asked = action.mode
        /\ action'.profile = Nothing
    BY <1>3, <1>5
  <2>2. PolicyWithinProfile'
    BY <2>1 DEF PolicyWithinProfile
  <2> QED BY <1>2, <2>1, <2>2
<1>6. CASE action.profile # Nothing /\ action' # [kind |-> "error"]
  <2> DEFINE p == Profiles[action.profile]
             mode == IF action.mode = Nothing THEN p.mode ELSE action.mode
             tools == IF action.tools = {} THEN p.tools ELSE action.tools
  <2>1. /\ within_ceiling(p, mode, action.tools)
        /\ action' = [kind |-> "running", mode |-> mode, profile |-> action.profile,
                      words |-> action.words, asked |-> action.mode, tools |-> tools]
    BY <1>3, <1>6
  <2>2. /\ Rank(mode) <= Rank(p.mode) /\ tools \subseteq p.tools
        /\ \A t \in p.tools : Rank(ToolNeeds[t]) <= Rank(p.mode)
    BY <2>1 DEF within_ceiling
  <2> HIDE DEF mode, tools
  <2>3. /\ action'.kind = "running" /\ action'.words = action.words /\ action'.asked = action.mode
        /\ action'.mode = mode /\ action'.tools = tools /\ action'.profile = action.profile
    BY <2>1
  <2>4. PolicyWithinProfile'
    BY <2>2, <2>3 DEF PolicyWithinProfile
  <2> QED BY <1>2, <2>3, <2>4
<1> QED BY <1>4, <1>5, <1>6

LEMMA ArgsMoves ==
  ASSUME ArgsInv, ArgsNext
  PROVE  ArgsInv'
BY ValueRead, SwitchRead, PromptRead, Dispatched, PolicyResolved DEF ArgsNext

LEMMA ArgsStart ==
  ASSUME ArgsInit
  PROVE  ArgsInv
<1>1. /\ argv \in Seq(STRING) /\ action.kind = "none" /\ scan.at = 1 /\ scan.mode = Nothing
      /\ ScanShape(scan)
  <2>1. argv \in Seq(STRING) /\ Len(argv) \in Nat
    BY ArgsAssumption DEF ArgsInit
  <2> QED BY <2>1 DEF ArgsInit, ScanShape
<1>2. ReadTo(scan.at - 1, scan.mode)
  BY <1>1 DEF ReadTo
<1>3. ResumeWordsKept
  BY <1>1 DEF ResumeWordsKept
<1> QED BY <1>1, <1>2, <1>3 DEF ArgsInv

LEMMA ArgsIdle ==
  ASSUME ArgsInv, UNCHANGED argsVars
  PROVE  ArgsInv'
BY DEF ArgsInv, argsVars, ScanShape, ReadTo, OptionAt, BehindOptions, PolicyWithinProfile,
       ResumeWordsKept, known_tools

LEMMA EndOfArgs ==
  ASSUME NEW args \in Seq(STRING), NEW k \in 1..(Len(args) + 1)
  PROVE  IsSuffix(SubSeq(args, k, Len(args)), args)
<1> DEFINE words == SubSeq(args, k, Len(args))
           n == Len(args)
           m == n - k + 1
<1>1. n \in Nat /\ m \in 0..n /\ Len(words) = m /\ words \in Seq(STRING)
      /\ \A i \in 1..m : words[i] = args[k + i - 1]
  OBVIOUS
<1>2. /\ Reverse(words) \in Seq(STRING) /\ Len(Reverse(words)) = m
      /\ \A i \in 1..m : Reverse(words)[i] = words[m - i + 1]
      /\ Reverse(args) \in Seq(STRING) /\ Len(Reverse(args)) = n
      /\ \A i \in 1..n : Reverse(args)[i] = args[n - i + 1]
  <2> HIDE DEF words
  <2>1. /\ \A i \in 1..m : (m - i) + 1 \in 1..m /\ words[(m - i) + 1] \in STRING
        /\ \A i \in 1..n : (n - i) + 1 \in 1..n /\ args[(n - i) + 1] \in STRING
    BY <1>1
  <2>2. Reverse(words) \in [1..m -> STRING] /\ Reverse(args) \in [1..n -> STRING]
    BY <1>1, <2>1 DEF Reverse
  <2> QED BY <1>1, <2>1, <2>2 DEF Reverse
<1> HIDE DEF words
<1>3. \A i \in 1..m : Reverse(words)[i] = Reverse(args)[i]
  <2> TAKE i \in 1..m
  <2>1. m - i + 1 \in 1..m /\ k + (m - i + 1) - 1 = n - i + 1 /\ i \in 1..n
    BY <1>1
  <2> QED BY <1>1, <1>2, <2>1
<1>4. SubSeq(Reverse(words), 1, m) = SubSeq(Reverse(args), 1, m)
  BY <1>1, <1>2, <1>3
<1> QED BY <1>1, <1>2, <1>4 DEF IsSuffix, IsPrefix, words

LEMMA ArgsHolds ==
  ASSUME ArgsInv
  PROVE  PolicyWithinProfile /\ ArgumentsKept /\ ResumeWordsKept
<1>1. PolicyWithinProfile /\ ResumeWordsKept
  BY DEF ArgsInv, PolicyWithinProfile
<1>2. ASSUME action.kind = "running"
      PROVE  ArgumentsKept
  <2>1. argv \in Seq(STRING) /\ Len(argv) \in Nat /\ BehindOptions(action.words, action.asked)
    BY <1>2 DEF ArgsInv
  <2>2. PICK k \in 1..(Len(argv) + 1) :
          action.words = SubSeq(argv, k, Len(argv)) /\ ReadTo(k - 1, action.asked)
    BY <2>1 DEF BehindOptions
  <2> DEFINE options == SubSeq(argv, 1, Len(argv) - Len(action.words))
  <2>3. Len(argv) - Len(action.words) = k - 1
    BY <2>1, <2>2
  <2>4. k - 1 \in 0..Len(argv) /\ DOMAIN options = 1..(k - 1) /\ Len(options) = k - 1
        /\ \A i \in 1..(k - 1) : options[i] = argv[i]
    BY <2>1, <2>3
  <2>5. IsSuffix(action.words, argv)
    BY <2>1, <2>2, EndOfArgs
  <2> HIDE DEF options
  <2>6. \A i \in 1..(k - 1) : i > 1 => i - 1 \in 1..(k - 1)
    BY <2>4
  <2>7. \A i \in DOMAIN options :
            \/ options[i] \in ValueOptions \cup Switches \cup {"-p", "prompt"}
            \/ i > 1 /\ options[i - 1] \in ValueOptions
    BY <2>2, <2>4, <2>6 DEF ReadTo, OptionAt
  <2>8. action.asked # Nothing => Contains(options, action.asked)
                                   \/ Contains(options, "--dangerously-skip-permissions")
    BY <2>2, <2>4 DEF ReadTo, Contains
  <2>9. action.asked = Nothing =>
          \A i \in DOMAIN options : options[i] = "--permission-mode" =>
            i > 1 /\ options[i - 1] \in ValueOptions
    BY <2>2, <2>4, <2>6 DEF ReadTo
  <2> QED BY <2>5, <2>7, <2>8, <2>9 DEF ArgumentsKept, options
<1> QED BY <1>1, <1>2 DEF ArgumentsKept

(* The line editor.                                                        *)
LEMMA LeastPlace ==
  ASSUME NEW S \in SUBSET Nat, S # {}
  PROVE  Min(S) \in S /\ \A y \in S : Min(S) <= y
<1>1. \E x \in S : \A y \in S : x <= y
  BY LeastOf
<1> QED BY <1>1 DEF Min

LEMMA GreatestPlace ==
  ASSUME NEW n \in Nat, NEW S \in SUBSET (0..n), S # {}
  PROVE  Max(S) \in S /\ \A y \in S : y <= Max(S)
<1> DEFINE D == {d \in Nat : n - d \in S}
<1>1. D \in SUBSET Nat /\ D # {}
  <2>1. PICK x \in S : TRUE
    OBVIOUS
  <2>2. n - x \in Nat /\ n - (n - x) = x
    OBVIOUS
  <2> QED BY <2>1, <2>2
<1>2. PICK d \in D : \A y \in D : d <= y
  BY <1>1, LeastOf
<1>3. d \in Nat /\ n - d \in S
  OBVIOUS
<1> HIDE DEF D
<1>4. \A y \in S : y <= n - d
  <2> TAKE y \in S
  <2>1. n - y \in D
    BY DEF D
  <2> QED BY <1>2, <1>3, <2>1
<1>5. \E x \in S : \A y \in S : x >= y
  BY <1>3, <1>4
<1> QED BY <1>5 DEF Max

(* A text, its pieces, and two put together.                               *)
LEMMA StrOf ==
  ASSUME NEW t \in Strs
  PROVE  /\ t \in Seq(Bytes) /\ Len(t) \in Nat /\ DOMAIN t = 1..Len(t)
         /\ \A i \in 1..Len(t) : t[i] \in Bytes
         /\ \A i \in 1..Len(t) : t[i] = Rest => i > 1 /\ t[i - 1] = Wide
         /\ \A i \in 1..Len(t) : t[i] = Wide => i < Len(t) /\ t[i + 1] = Rest
<1>1. t \in Seq(Bytes) /\ Utf8(t)
  BY DEF Strs
<1>2. Len(t) \in Nat /\ DOMAIN t = 1..Len(t) /\ \A i \in 1..Len(t) : t[i] \in Bytes
  BY <1>1
<1> QED BY <1>1, <1>2 DEF Utf8

LEMMA StrIs ==
  ASSUME NEW t \in Seq(Bytes),
         \A i \in 1..Len(t) : t[i] = Rest => i > 1 /\ t[i - 1] = Wide,
         \A i \in 1..Len(t) : t[i] = Wide => i < Len(t) /\ t[i + 1] = Rest
  PROVE  t \in Strs
<1>1. DOMAIN t = 1..Len(t)
  OBVIOUS
<1> QED BY <1>1 DEF Strs, Utf8

LEMMA ByteNames ==
  /\ Wide # Rest /\ NL # Rest /\ NL # Wide /\ ":" # Rest /\ ":" # Wide
  /\ Wide \in Bytes /\ Rest \in Bytes /\ NL \in Bytes /\ ":" \in Bytes /\ Typed \subseteq Bytes
BY DEF Wide, Rest, NL, Bytes

LEMMA FewBytes ==
  /\ <<>> \in Strs /\ Len(<<>>) = 0
  /\ \A ch \in Bytes \ {Wide, Rest} : <<ch>> \in Strs /\ Len(<<ch>>) = 1 /\ <<ch>>[1] = ch
  /\ \A ch \in Typed : bytes(ch) \in Strs
<1>1. <<>> \in Strs /\ Len(<<>>) = 0
  <2>1. <<>> \in Seq(Bytes) /\ Len(<<>>) = 0 /\ \A i \in 1..0 : FALSE
    OBVIOUS
  <2> QED BY <2>1, StrIs
<1>2. ASSUME NEW ch \in Bytes \ {Wide, Rest}
      PROVE  <<ch>> \in Strs /\ Len(<<ch>>) = 1 /\ <<ch>>[1] = ch
  <2>1. <<ch>> \in Seq(Bytes) /\ Len(<<ch>>) = 1 /\ <<ch>>[1] = ch
    OBVIOUS
  <2>2. \A i \in 1..1 : i = 1
    OBVIOUS
  <2>3. <<ch>> \in Strs
    BY <2>1, <2>2, StrIs
  <2> QED BY <2>1, <2>3
<1>3. ASSUME NEW ch \in Typed
      PROVE  bytes(ch) \in Strs
  <2>1. CASE ch = Wide
    <3>1. <<Wide, Rest>> \in Seq(Bytes) /\ Len(<<Wide, Rest>>) = 2 /\ <<Wide, Rest>>[1] = Wide
          /\ <<Wide, Rest>>[2] = Rest
      BY ByteNames
    <3>2. \A i \in 1..2 : i = 1 \/ i = 2
      OBVIOUS
    <3>3. <<Wide, Rest>> \in Strs
      BY <3>1, <3>2, ByteNames, StrIs
    <3> QED BY <2>1, <3>3 DEF bytes
  <2>2. CASE ch # Wide
    <3>1. ch \in Bytes \ {Wide, Rest}
      BY <2>2, ByteNames, EditorAssumption
    <3> QED BY <1>2, <2>2, <3>1 DEF bytes
  <2> QED BY <2>1, <2>2
<1> QED BY <1>1, <1>2, <1>3

LEMMA Borders ==
  ASSUME NEW t \in Strs
  PROVE  /\ is_char_boundary(t, 0) /\ is_char_boundary(t, Len(t))
         /\ \A p \in 1..Len(t) : t[p] # Wide => is_char_boundary(t, p)
         /\ \A p \in 1..Len(t) : t[p] # Rest => is_char_boundary(t, p - 1)
<1>1. Len(t) \in Nat /\ \A i \in 1..Len(t) : t[i] = Rest => i > 1 /\ t[i - 1] = Wide
  BY StrOf
<1>2. \A p \in 1..Len(t) : t[p] # Wide => is_char_boundary(t, p)
  <2> TAKE p \in 1..Len(t)
  <2>1. p + 1 \in 1..Len(t) => (t[p + 1] = Rest => t[p] = Wide)
    BY <1>1
  <2> QED BY <1>1, <2>1 DEF is_char_boundary
<1>3. is_char_boundary(t, 0)
  BY <1>1 DEF is_char_boundary
<1>4. \A p \in 1..Len(t) : t[p] # Rest => is_char_boundary(t, p - 1)
  BY <1>1 DEF is_char_boundary
<1>5. is_char_boundary(t, Len(t))
  BY <1>1 DEF is_char_boundary
<1> QED BY <1>2, <1>3, <1>4, <1>5

LEMMA Piece ==
  ASSUME NEW t \in Strs, NEW a, NEW b, is_char_boundary(t, a), is_char_boundary(t, b), a <= b
  PROVE  /\ slice(t, a, b) \in Strs /\ Len(slice(t, a, b)) = b - a
         /\ \A i \in 1..(b - a) : slice(t, a, b)[i] = t[a + i]
<1>1. /\ Len(t) \in Nat /\ a \in 0..Len(t) /\ b \in 0..Len(t)
      /\ (a < Len(t) => t[a + 1] # Rest) /\ (b < Len(t) => t[b + 1] # Rest)
      /\ t \in Seq(Bytes)
      /\ \A i \in 1..Len(t) : t[i] = Rest => i > 1 /\ t[i - 1] = Wide
      /\ \A i \in 1..Len(t) : t[i] = Wide => i < Len(t) /\ t[i + 1] = Rest
  BY StrOf DEF is_char_boundary
<1> DEFINE u == slice(t, a, b)
<1>2. u \in Seq(Bytes) /\ Len(u) = b - a /\ \A i \in 1..(b - a) : u[i] = t[a + i]
  <2>1. SubSeq(t, a + 1, b) \in Seq(Bytes) /\ Len(SubSeq(t, a + 1, b)) = b - a
        /\ \A i \in 1..(b - a) : SubSeq(t, a + 1, b)[i] = t[(a + 1) + i - 1]
    BY <1>1
  <2>2. \A i \in 1..(b - a) : (a + 1) + i - 1 = a + i
    BY <1>1
  <2> QED BY <2>1, <2>2 DEF slice
<1> HIDE DEF u
<1>3. \A i \in 1..Len(u) : u[i] = Rest => i > 1 /\ u[i - 1] = Wide
  <2> SUFFICES ASSUME NEW i \in 1..(b - a), u[i] = Rest PROVE i > 1 /\ u[i - 1] = Wide
    BY <1>2
  <2>1. a + i \in 1..Len(t) /\ t[a + i] = Rest
    BY <1>1, <1>2
  <2>2. t[(a + i) - 1] = Wide /\ i # 1
    BY <1>1, <2>1
  <2>3. i - 1 \in 1..(b - a) /\ a + (i - 1) = (a + i) - 1 /\ i > 1
    BY <1>1, <2>2
  <2> QED BY <1>2, <2>2, <2>3
<1>4. \A i \in 1..Len(u) : u[i] = Wide => i < Len(u) /\ u[i + 1] = Rest
  <2> SUFFICES ASSUME NEW i \in 1..(b - a), u[i] = Wide PROVE i < b - a /\ u[i + 1] = Rest
    BY <1>2
  <2>1. a + i \in 1..Len(t) /\ t[a + i] = Wide
    BY <1>1, <1>2
  <2>0. \A k \in 1..Len(t) : t[k] = Wide => k < Len(t) /\ t[k + 1] = Rest
    BY <1>1
  <2>2. a + i < Len(t) /\ t[(a + i) + 1] = Rest
    BY <2>0, <2>1
  <2>3. a + i # b
    BY <1>1, <2>2
  <2>4. i + 1 \in 1..(b - a) /\ a + (i + 1) = (a + i) + 1 /\ i < b - a
    BY <1>1, <2>3
  <2> QED BY <1>2, <2>2, <2>4
<1> QED BY <1>2, <1>3, <1>4, StrIs DEF u

LEMMA Joined ==
  ASSUME NEW u \in Strs, NEW v \in Strs
  PROVE  /\ u \o v \in Strs /\ Len(u \o v) = Len(u) + Len(v)
         /\ \A i \in 1..Len(u) : (u \o v)[i] = u[i]
         /\ \A i \in 1..Len(v) : (u \o v)[Len(u) + i] = v[i]
         /\ \A p \in 0..Len(u) : is_char_boundary(u, p) => is_char_boundary(u \o v, p)
<1> DEFINE w == u \o v
<1>1. /\ u \in Seq(Bytes) /\ Len(u) \in Nat
      /\ \A i \in 1..Len(u) : u[i] = Rest => i > 1 /\ u[i - 1] = Wide
      /\ \A i \in 1..Len(u) : u[i] = Wide => i < Len(u) /\ u[i + 1] = Rest
  BY StrOf
<1>2. /\ v \in Seq(Bytes) /\ Len(v) \in Nat
      /\ \A i \in 1..Len(v) : v[i] = Rest => i > 1 /\ v[i - 1] = Wide
      /\ \A i \in 1..Len(v) : v[i] = Wide => i < Len(v) /\ v[i + 1] = Rest
  BY StrOf
<1>3. /\ w \in Seq(Bytes) /\ Len(w) = Len(u) + Len(v)
      /\ \A i \in 1..Len(u) : w[i] = u[i]
      /\ \A i \in 1..(Len(u) + Len(v)) : i > Len(u) => w[i] = v[i - Len(u)]
  BY <1>1, <1>2
<1> HIDE DEF w
<1>4. \A i \in 1..Len(v) : w[Len(u) + i] = v[i]
  <2> TAKE i \in 1..Len(v)
  <2>1. Len(u) + i \in 1..(Len(u) + Len(v)) /\ Len(u) + i > Len(u) /\ (Len(u) + i) - Len(u) = i
    BY <1>1, <1>2
  <2> QED BY <1>3, <2>1
<1>5. \A i \in 1..Len(w) : w[i] = Rest => i > 1 /\ w[i - 1] = Wide
  <2> SUFFICES ASSUME NEW i \in 1..(Len(u) + Len(v)), w[i] = Rest PROVE i > 1 /\ w[i - 1] = Wide
    BY <1>3
  <2>1. CASE i <= Len(u)
    <3>1. i \in 1..Len(u) /\ u[i] = Rest
      BY <1>1, <1>2, <1>3, <2>1
    <3>2. i > 1 /\ i - 1 \in 1..Len(u) /\ u[i - 1] = Wide
      BY <1>1, <3>1
    <3> QED BY <1>3, <3>2
  <2>2. CASE i > Len(u)
    <3> DEFINE j == i - Len(u)
    <3>1. j \in 1..Len(v) /\ v[j] = Rest
      BY <1>1, <1>2, <1>3, <2>2
    <3>2. j > 1 /\ j - 1 \in 1..Len(v) /\ v[j - 1] = Wide
      BY <1>2, <3>1
    <3>3. Len(u) + (j - 1) = i - 1 /\ i > 1
      BY <1>1, <1>2, <3>2
    <3>4. w[Len(u) + (j - 1)] = v[j - 1]
      BY <1>4, <3>2
    <3> HIDE DEF j
    <3> QED BY <3>2, <3>3, <3>4
  <2> QED BY <1>1, <1>2, <2>1, <2>2
<1>6. \A i \in 1..Len(w) : w[i] = Wide => i < Len(w) /\ w[i + 1] = Rest
  <2> SUFFICES ASSUME NEW i \in 1..(Len(u) + Len(v)), w[i] = Wide
               PROVE  i < Len(u) + Len(v) /\ w[i + 1] = Rest
    BY <1>3
  <2>1. CASE i <= Len(u)
    <3>1. i \in 1..Len(u) /\ u[i] = Wide
      BY <1>1, <1>2, <1>3, <2>1
    <3>2. i < Len(u) /\ i + 1 \in 1..Len(u) /\ u[i + 1] = Rest
      BY <1>1, <3>1
    <3> QED BY <1>1, <1>2, <1>3, <3>2
  <2>2. CASE i > Len(u)
    <3> DEFINE j == i - Len(u)
    <3>1. j \in 1..Len(v) /\ v[j] = Wide
      BY <1>1, <1>2, <1>3, <2>2
    <3>2. j < Len(v) /\ j + 1 \in 1..Len(v) /\ v[j + 1] = Rest
      BY <1>2, <3>1
    <3>3. Len(u) + (j + 1) = i + 1 /\ i < Len(u) + Len(v)
      BY <1>1, <1>2, <3>2
    <3>4. w[Len(u) + (j + 1)] = v[j + 1]
      BY <1>4, <3>2
    <3> HIDE DEF j
    <3> QED BY <3>2, <3>3, <3>4
  <2> QED BY <1>1, <1>2, <2>1, <2>2
<1>7. \A p \in 0..Len(u) : is_char_boundary(u, p) => is_char_boundary(w, p)
  <2> SUFFICES ASSUME NEW p \in 0..Len(u), is_char_boundary(u, p), p < Len(w)
               PROVE  p \in 0..Len(w) /\ w[p + 1] # Rest
    BY <1>1, <1>2, <1>3 DEF is_char_boundary
  <2>1. CASE p < Len(u)
    <3>1. p + 1 \in 1..Len(u) /\ u[p + 1] # Rest
      BY <1>1, <2>1 DEF is_char_boundary
    <3> QED BY <1>1, <1>2, <1>3, <3>1
  <2>2. CASE p = Len(u)
    <3>1. 1 \in 1..Len(v) /\ w[Len(u) + 1] = v[1] /\ v[1] # Rest
      BY <1>1, <1>2, <1>3, <1>4, <2>2
    <3> QED BY <1>1, <1>2, <1>3, <2>2, <3>1
  <2> QED BY <1>1, <2>1, <2>2
<1>8. w \in Strs
  BY <1>3, <1>5, <1>6, StrIs
<1> QED BY <1>3, <1>4, <1>7, <1>8 DEF w

LEMMA Drained ==
  ASSUME NEW t \in Strs, NEW a, NEW b, is_char_boundary(t, a), is_char_boundary(t, b), a <= b
  PROVE  /\ drained(t, a, b) \in Strs /\ is_char_boundary(drained(t, a, b), a)
         /\ Len(drained(t, a, b)) = Len(t) - (b - a)
         /\ \A i \in 1..a : drained(t, a, b)[i] = t[i]
<1>1. Len(t) \in Nat /\ a \in 0..Len(t) /\ b \in 0..Len(t)
  BY StrOf DEF is_char_boundary
<1> DEFINE u == slice(t, 0, a)
           v == slice(t, b, Len(t))
<1>2. u \in Strs /\ Len(u) = a /\ \A i \in 1..a : u[i] = t[i]
  <2>1. is_char_boundary(t, 0) /\ 0 <= a
    BY <1>1, Borders
  <2>2. u \in Strs /\ Len(u) = a - 0 /\ \A i \in 1..(a - 0) : u[i] = t[0 + i]
    BY <2>1, Piece
  <2> HIDE DEF u
  <2> QED BY <1>1, <2>2
<1>3. v \in Strs /\ Len(v) = Len(t) - b
  BY <1>1, Borders, Piece
<1>4. drained(t, a, b) = u \o v
  BY DEF drained
<1> HIDE DEF u, v
<1>5. is_char_boundary(u, a) /\ a \in 0..Len(u)
  BY <1>1, <1>2, Borders
<1>6. /\ u \o v \in Strs /\ Len(u \o v) = Len(u) + Len(v)
      /\ \A i \in 1..Len(u) : (u \o v)[i] = u[i]
      /\ is_char_boundary(u \o v, a)
  BY <1>2, <1>3, <1>5, Joined
<1> QED BY <1>1, <1>2, <1>3, <1>4, <1>6

LEMMA Inserted ==
  ASSUME NEW t \in Strs, NEW p, is_char_boundary(t, p), NEW u \in Strs
  PROVE  /\ inserted(t, p, u) \in Strs /\ Len(inserted(t, p, u)) = Len(t) + Len(u)
         /\ is_char_boundary(inserted(t, p, u), p)
         /\ is_char_boundary(inserted(t, p, u), p + Len(u))
         /\ \A i \in 1..p : inserted(t, p, u)[i] = t[i]
         /\ \A i \in 1..Len(u) : inserted(t, p, u)[p + i] = u[i]
<1>1. Len(t) \in Nat /\ p \in 0..Len(t) /\ Len(u) \in Nat
  BY StrOf DEF is_char_boundary
<1> DEFINE x == slice(t, 0, p)
           y == slice(t, p, Len(t))
<1>2. x \in Strs /\ Len(x) = p /\ \A i \in 1..p : x[i] = t[i]
  <2>1. is_char_boundary(t, 0) /\ 0 <= p
    BY <1>1, Borders
  <2>2. x \in Strs /\ Len(x) = p - 0 /\ \A i \in 1..(p - 0) : x[i] = t[0 + i]
    BY <2>1, Piece
  <2> HIDE DEF x
  <2> QED BY <1>1, <2>2
<1>3. y \in Strs /\ Len(y) = Len(t) - p
  BY <1>1, Borders, Piece
<1>4. inserted(t, p, u) = (x \o u) \o y
  BY DEF inserted
<1> HIDE DEF x, y
<1> DEFINE w == x \o u
<1>5. /\ w \in Strs /\ Len(w) = p + Len(u)
      /\ \A i \in 1..p : w[i] = t[i]
      /\ \A i \in 1..Len(u) : w[p + i] = u[i]
      /\ is_char_boundary(w, p) /\ is_char_boundary(w, p + Len(u))
  <2>1. /\ w \in Strs /\ Len(w) = Len(x) + Len(u)
        /\ \A i \in 1..Len(x) : w[i] = x[i]
        /\ \A i \in 1..Len(u) : w[Len(x) + i] = u[i]
        /\ \A k \in 0..Len(x) : is_char_boundary(x, k) => is_char_boundary(w, k)
    BY <1>2, Joined
  <2>2. is_char_boundary(x, Len(x)) /\ Len(x) \in 0..Len(x)
    BY <1>1, <1>2, Borders
  <2> HIDE DEF w
  <2>3. is_char_boundary(w, Len(w))
    BY <2>1, Borders
  <2> QED BY <1>2, <2>1, <2>2, <2>3
<1> HIDE DEF w
<1>6. /\ w \o y \in Strs /\ Len(w \o y) = Len(w) + Len(y)
      /\ \A i \in 1..Len(w) : (w \o y)[i] = w[i]
      /\ \A k \in 0..Len(w) : is_char_boundary(w, k) => is_char_boundary(w \o y, k)
  BY <1>3, <1>5, Joined
<1>7. p \in 0..Len(w) /\ p + Len(u) \in 0..Len(w) /\ 1..p \subseteq 1..Len(w)
      /\ \A i \in 1..Len(u) : p + i \in 1..Len(w)
  BY <1>1, <1>5
<1>8. inserted(t, p, u) = w \o y
  BY <1>4 DEF w
<1>9. w \o y \in Strs /\ Len(w \o y) = Len(t) + Len(u)
      /\ is_char_boundary(w \o y, p) /\ is_char_boundary(w \o y, p + Len(u))
  BY <1>1, <1>3, <1>5, <1>6, <1>7
<1>10. \A i \in 1..p : (w \o y)[i] = t[i]
  BY <1>5, <1>6, <1>7
<1>11. \A i \in 1..Len(u) : (w \o y)[p + i] = u[i]
  BY <1>5, <1>6, <1>7
<1> QED BY <1>8, <1>9, <1>10, <1>11

(* The places beside a cursor, and the lines of a text.                    *)
LEMMA BoundaryIs ==
  ASSUME NEW t \in Strs, NEW p, is_char_boundary(t, p)
  PROVE  p \in 0..Len(t) /\ Len(t) \in Nat /\ p \in Nat
BY StrOf DEF is_char_boundary

LEMMA PreviousBoundary ==
  ASSUME NEW t \in Strs, NEW p, is_char_boundary(t, p)
  PROVE  /\ is_char_boundary(t, previous_boundary(t, p)) /\ previous_boundary(t, p) <= p
         /\ p > 1 /\ t[1] # Wide => previous_boundary(t, p) > 0
<1>1. Len(t) \in Nat /\ p \in 0..Len(t)
  BY BoundaryIs
<1>2. CASE p = 0
  BY <1>2, Borders DEF previous_boundary
<1>3. CASE p # 0 /\ t[p] = Rest
  <2>1. p \in 1..Len(t) /\ previous_boundary(t, p) = p - 2
    BY <1>1, <1>3 DEF previous_boundary
  <2>2. p > 1 /\ t[p - 1] = Wide /\ p - 1 \in 1..Len(t)
    BY <1>1, <1>3, <2>1, StrOf
  <2>3. is_char_boundary(t, (p - 1) - 1)
    BY <2>2, Borders, ByteNames
  <2>4. (p - 1) - 1 = p - 2 /\ p - 2 <= p /\ (p - 1 # 1 => p - 2 > 0)
    BY <2>1, <2>2
  <2> QED BY <2>1, <2>2, <2>3, <2>4
<1>4. CASE p # 0 /\ t[p] # Rest
  <2>1. p \in 1..Len(t) /\ previous_boundary(t, p) = p - 1
    BY <1>1, <1>4 DEF previous_boundary
  <2> QED BY <1>4, <2>1, Borders
<1> QED BY <1>2, <1>3, <1>4

LEMMA NextBoundary ==
  ASSUME NEW t \in Strs, NEW p, is_char_boundary(t, p)
  PROVE  is_char_boundary(t, next_boundary(t, p)) /\ p <= next_boundary(t, p)
<1>1. Len(t) \in Nat /\ p \in 0..Len(t)
  BY BoundaryIs
<1>2. CASE p >= Len(t)
  BY <1>1, <1>2, Borders DEF next_boundary
<1>3. CASE p < Len(t) /\ t[p + 1] = Wide
  <2>1. p + 1 \in 1..Len(t) /\ next_boundary(t, p) = p + 2
    BY <1>1, <1>3 DEF next_boundary
  <2>2. p + 1 < Len(t) /\ t[(p + 1) + 1] = Rest
    BY <1>3, <2>1, StrOf
  <2>3. p + 2 \in 1..Len(t) /\ (p + 1) + 1 = p + 2
    BY <1>1, <2>2
  <2>4. is_char_boundary(t, p + 2)
    BY <2>2, <2>3, Borders, ByteNames
  <2> QED BY <1>1, <2>1, <2>4
<1>4. CASE p < Len(t) /\ t[p + 1] # Wide
  <2>1. p + 1 \in 1..Len(t) /\ next_boundary(t, p) = p + 1
    BY <1>1, <1>4 DEF next_boundary
  <2> QED BY <1>1, <1>4, <2>1, Borders
<1> QED BY <1>1, <1>2, <1>3, <1>4

LEMMA LineStart ==
  ASSUME NEW t \in Strs, NEW p \in 0..Len(t)
  PROVE  /\ is_char_boundary(t, line_start(t, p)) /\ line_start(t, p) \in 0..p
         /\ line_start(t, p) > 0 => t[line_start(t, p)] = NL
<1>1. Len(t) \in Nat /\ DOMAIN t = 1..Len(t)
  BY StrOf
<1> DEFINE S == {i \in Newlines(t) : i <= p} \cup {0}
<1>2. S \in SUBSET (0..p) /\ S # {} /\ p \in Nat /\ \A i \in S : i > 0 => t[i] = NL /\ i \in 1..Len(t)
  BY <1>1 DEF Newlines
<1>3. line_start(t, p) = Max(S)
  BY DEF line_start
<1> HIDE DEF S
<1>4. Max(S) \in S
  BY <1>2, GreatestPlace
<1> DEFINE m == Max(S)
<1>5. m \in 0..p /\ (m > 0 => t[m] = NL /\ m \in 1..Len(t))
  BY <1>2, <1>4
<1> HIDE DEF m
<1>6. is_char_boundary(t, m)
  <2>1. CASE m = 0
    BY <2>1, Borders
  <2>2. CASE m > 0
    BY <1>5, <2>2, Borders, ByteNames
  <2> QED BY <1>2, <1>5, <2>1, <2>2
<1> QED BY <1>3, <1>5, <1>6 DEF m

LEMMA LineEnd ==
  ASSUME NEW t \in Strs, NEW p \in 0..Len(t)
  PROVE  /\ is_char_boundary(t, line_end(t, p)) /\ line_end(t, p) \in p..Len(t)
         /\ line_end(t, p) < Len(t) => t[line_end(t, p) + 1] = NL
<1>1. Len(t) \in Nat /\ DOMAIN t = 1..Len(t)
  BY StrOf
<1> DEFINE S == {i - 1 : i \in {j \in Newlines(t) : j > p}} \cup {Len(t)}
<1>2. /\ S \in SUBSET Nat /\ S # {}
      /\ \A e \in S : e \in p..Len(t) /\ (e = Len(t) \/ (e + 1 \in 1..Len(t) /\ t[e + 1] = NL))
  <2>1. ASSUME NEW e \in S
        PROVE  e \in Nat /\ e \in p..Len(t) /\ (e = Len(t) \/ (e + 1 \in 1..Len(t) /\ t[e + 1] = NL))
    <3>1. CASE e = Len(t)
      BY <1>1, <3>1
    <3>2. CASE e # Len(t)
      <4>1. PICK i \in Newlines(t) : i > p /\ e = i - 1
        BY <3>2
      <4>2. i \in 1..Len(t) /\ t[i] = NL /\ e + 1 = i
        BY <1>1, <4>1 DEF Newlines
      <4> QED BY <1>1, <4>1, <4>2
    <3> QED BY <3>1, <3>2
  <2> QED BY <2>1
<1>3. line_end(t, p) = Min(S)
  BY DEF line_end
<1> HIDE DEF S
<1> DEFINE m == Min(S)
<1>4. m \in p..Len(t) /\ (m = Len(t) \/ (m + 1 \in 1..Len(t) /\ t[m + 1] = NL))
  BY <1>2, LeastPlace
<1> HIDE DEF m
<1>5. is_char_boundary(t, m)
  <2>1. CASE m = Len(t)
    BY <2>1, Borders
  <2>2. CASE m # Len(t)
    <3>0. m + 1 \in 1..Len(t) /\ t[m + 1] = NL
      BY <1>4, <2>2
    <3>1. m \in Int /\ m + 1 \in 1..Len(t) /\ t[m + 1] = NL
      <4>1. p \in Int /\ Len(t) \in Int
        BY <1>1
      <4> QED BY <1>4, <3>0, <4>1
    <3>2. t[m + 1] # Rest /\ (m + 1) - 1 = m
      BY <3>1, ByteNames
    <3> QED BY <3>1, <3>2, Borders
  <2> QED BY <2>1, <2>2
<1> QED BY <1>1, <1>3, <1>4, <1>5 DEF m

LEMMA InColumn ==
  ASSUME NEW t \in Strs, NEW a \in Nat, NEW b, is_char_boundary(t, b), NEW column
  PROVE  is_char_boundary(t, byte_index_for_char_column(t, a, b, column))
<1> DEFINE S == {p \in a..b : is_char_boundary(t, p) /\ Column(t, a, p) = column} \cup {b}
<1>1. S \in SUBSET Nat /\ S # {} /\ \A p \in S : is_char_boundary(t, p)
  BY BoundaryIs
<1> HIDE DEF S
<1>2. Min(S) \in S
  BY <1>1, LeastPlace
<1>3. byte_index_for_char_column(t, a, b, column) = Min(S)
  BY DEF byte_index_for_char_column, S
<1> QED BY <1>1, <1>2, <1>3

LEMMA MovedVertical ==
  ASSUME NEW t \in Strs, NEW p, is_char_boundary(t, p), NEW delta \in {1, -1}
  PROVE  is_char_boundary(t, move_vertical(t, p, delta))
<1>1. p \in 0..Len(t) /\ Len(t) \in Nat
  BY BoundaryIs
<1> DEFINE start == line_start(t, p)
           column == Column(t, start, p)
           end == line_end(t, p)
           up == line_start(t, start - 1)
<1>2. /\ start \in 0..p /\ (start > 0 => t[start] = NL)
      /\ end \in p..Len(t) /\ is_char_boundary(t, end)
  BY <1>1, LineStart, LineEnd
<1>3. move_vertical(t, p, delta) =
        IF delta < 0
        THEN IF start = 0 THEN p ELSE byte_index_for_char_column(t, up, start - 1, column)
        ELSE IF end = Len(t) THEN p
        ELSE byte_index_for_char_column(t, end + 1, line_end(t, end + 1), column)
  BY DEF move_vertical
<1> HIDE DEF start, end, column
<1>4. ASSUME start # 0
      PROVE  is_char_boundary(t, byte_index_for_char_column(t, up, start - 1, column))
  <2>1. start - 1 \in 0..Len(t) /\ start \in 1..Len(t) /\ t[start] # Rest
    BY <1>1, <1>2, <1>4, ByteNames
  <2>2. up \in Nat /\ is_char_boundary(t, start - 1)
    BY <2>1, LineStart, Borders
  <2> QED BY <2>2, InColumn
<1>5. ASSUME end # Len(t)
      PROVE  is_char_boundary(t, byte_index_for_char_column(t, end + 1, line_end(t, end + 1), column))
  <2>1. end + 1 \in 0..Len(t) /\ end + 1 \in Nat
    BY <1>1, <1>2, <1>5
  <2>2. is_char_boundary(t, line_end(t, end + 1))
    BY <2>1, LineEnd
  <2> QED BY <2>1, <2>2, InColumn
<1> HIDE DEF up
<1> QED BY <1>3, <1>4, <1>5

LEMMA LineRange ==
  ASSUME NEW t \in Strs, NEW p, is_char_boundary(t, p)
  PROVE  LET r == current_line_delete_range(t, p) IN
         /\ is_char_boundary(t, r.start) /\ is_char_boundary(t, r.end) /\ is_char_boundary(t, r.from)
         /\ r.from <= r.end /\ r.start <= r.end
<1>1. p \in 0..Len(t) /\ Len(t) \in Nat
  BY BoundaryIs
<1> DEFINE start == line_start(t, p)
           core == line_end(t, p)
           end == IF core < Len(t) THEN core + 1 ELSE core
           from == IF end = Len(t) /\ start > 0 THEN start - 1 ELSE start
<1>2. /\ is_char_boundary(t, start) /\ start \in 0..p /\ (start > 0 => t[start] = NL)
      /\ is_char_boundary(t, core) /\ core \in p..Len(t) /\ (core < Len(t) => t[core + 1] = NL)
  BY <1>1, LineStart, LineEnd
<1>3. current_line_delete_range(t, p) = [start |-> start, end |-> end, from |-> from]
  BY DEF current_line_delete_range
<1> HIDE DEF start, core
<1>4. is_char_boundary(t, end) /\ start <= end /\ end \in 0..Len(t)
  <2>1. CASE core < Len(t)
    <3>1. core + 1 \in 1..Len(t) /\ t[core + 1] # Wide
      BY <1>1, <1>2, <2>1, ByteNames
    <3> QED BY <1>1, <1>2, <2>1, <3>1, Borders
  <2>2. CASE ~(core < Len(t))
    BY <1>1, <1>2, <2>2
  <2> QED BY <2>1, <2>2
<1> HIDE DEF end
<1>5. is_char_boundary(t, from) /\ from <= start
  <2>1. CASE end = Len(t) /\ start > 0
    <3>1. start \in 1..Len(t) /\ t[start] # Rest
      BY <1>1, <1>2, <2>1, ByteNames
    <3> QED BY <1>2, <2>1, <3>1, Borders
  <2>2. CASE ~(end = Len(t) /\ start > 0)
    BY <1>2, <2>2
  <2> QED BY <2>1, <2>2
<1> HIDE DEF from
<1>6. from \in Int /\ start \in Int /\ end \in Int
  BY <1>1, <1>2, <1>4, <1>5, BoundaryIs
<1> QED BY <1>2, <1>3, <1>4, <1>5, <1>6

(* The session behind each kind of edit.                                   *)
EditSession ==
  [text : Strs, cursor : Nat, mode : {"Plain", "Insert", "Normal", "Visual", "Command"},
   pending : {"none", "d", "y"}, anchor : Int, command : Strs, command_cursor : Nat,
   history_index : {NoIndex} \cup DOMAIN History, backup : Strs \cup {NoText}]
CommandLine(c, q) == Len(c) > 0 /\ c[1] = ":" /\ q > 0 /\ is_char_boundary(c, q)
Fits(e, d) ==
  /\ e \in EditSession
  /\ is_char_boundary(e.text, e.cursor)
  /\ e.mode = "Command" => CommandLine(e.command, e.command_cursor)
  /\ e.history_index # NoIndex => e.backup = d /\ e.backup \in Strs
Anchored(e) == e.mode = "Visual" => is_char_boundary(e.text, e.anchor)
Keeps(x, e, t) == x.text = t /\ x.mode = e.mode /\ x.anchor = e.anchor
Same(x, e) == Keeps(x, e, e.text)

LEMMA TextWritten ==
  ASSUME NEW e, NEW d, Fits(e, d), NEW t \in Strs, NEW p, is_char_boundary(t, p)
  PROVE  LET x == [e EXCEPT !.text = t, !.cursor = p]
         IN  Fits(x, d) /\ Keeps(x, e, t)
<1> DEFINE x == [e EXCEPT !.text = t, !.cursor = p]
<1>1. p \in Nat /\ e \in EditSession
  BY BoundaryIs DEF Fits
<1>2. /\ x \in EditSession /\ x.text = t /\ x.cursor = p /\ x.mode = e.mode /\ x.anchor = e.anchor
      /\ x.command = e.command /\ x.command_cursor = e.command_cursor
      /\ x.history_index = e.history_index /\ x.backup = e.backup
  BY <1>1 DEF EditSession
<1> HIDE DEF x
<1>3. Fits(x, d)
  BY <1>2 DEF Fits
<1> QED BY <1>2, <1>3 DEF x, Keeps

LEMMA CursorMoved ==
  ASSUME NEW e, NEW d, Fits(e, d), NEW p, is_char_boundary(e.text, p)
  PROVE  LET x == [e EXCEPT !.cursor = p] IN Fits(x, d) /\ Same(x, e)
<1> DEFINE x == [e EXCEPT !.cursor = p]
<1>1. p \in Nat /\ e \in EditSession
  <2>1. e.text \in Strs
    BY DEF Fits, EditSession
  <2> QED BY <2>1, BoundaryIs DEF Fits
<1>2. /\ x \in EditSession /\ x.text = e.text /\ x.cursor = p /\ x.mode = e.mode /\ x.anchor = e.anchor
      /\ x.command = e.command /\ x.command_cursor = e.command_cursor
      /\ x.history_index = e.history_index /\ x.backup = e.backup
  BY <1>1 DEF EditSession
<1> HIDE DEF x
<1>3. Fits(x, d)
  BY <1>2 DEF Fits
<1> QED BY <1>2, <1>3 DEF x, Same, Keeps

LEMMA CommandWritten ==
  ASSUME NEW e, NEW d, Fits(e, d), e.mode = "Command", NEW c \in Strs, NEW q, CommandLine(c, q)
  PROVE  LET x == [e EXCEPT !.command = c, !.command_cursor = q] IN Fits(x, d) /\ Same(x, e)
<1> DEFINE x == [e EXCEPT !.command = c, !.command_cursor = q]
<1>1. q \in Nat /\ e \in EditSession
  BY BoundaryIs DEF Fits, CommandLine
<1>2. /\ x \in EditSession /\ x.text = e.text /\ x.cursor = e.cursor /\ x.mode = e.mode /\ x.anchor = e.anchor
      /\ x.command = c /\ x.command_cursor = q
      /\ x.history_index = e.history_index /\ x.backup = e.backup
  BY <1>1 DEF EditSession
<1> HIDE DEF x
<1>3. Fits(x, d)
  BY <1>2 DEF Fits
<1> QED BY <1>2, <1>3 DEF x, Same, Keeps

LEMMA CommandCursor ==
  ASSUME NEW e, NEW d, Fits(e, d), e.mode = "Command", NEW q, CommandLine(e.command, q)
  PROVE  LET x == [e EXCEPT !.command_cursor = q] IN Fits(x, d) /\ Same(x, e)
<1> DEFINE x == [e EXCEPT !.command_cursor = q]
<1>1. q \in Nat /\ e \in EditSession
  <2>1. e.command \in Strs
    BY DEF Fits, EditSession
  <2> QED BY <2>1, BoundaryIs DEF Fits, CommandLine
<1>2. /\ x \in EditSession /\ x.text = e.text /\ x.cursor = e.cursor /\ x.mode = e.mode /\ x.anchor = e.anchor
      /\ x.command = e.command /\ x.command_cursor = q
      /\ x.history_index = e.history_index /\ x.backup = e.backup
  BY <1>1 DEF EditSession
<1> HIDE DEF x
<1>3. Fits(x, d)
  BY <1>2 DEF Fits
<1> QED BY <1>2, <1>3 DEF x, Same, Keeps

LEMMA CommandText ==
  ASSUME NEW e, NEW d, Fits(e, d), e.mode = "Command", NEW c \in Strs, CommandLine(c, e.command_cursor)
  PROVE  LET x == [e EXCEPT !.command = c] IN Fits(x, d) /\ Same(x, e)
<1> DEFINE x == [e EXCEPT !.command = c]
<1>1. e \in EditSession
  BY DEF Fits
<1>2. /\ x \in EditSession /\ x.text = e.text /\ x.cursor = e.cursor /\ x.mode = e.mode /\ x.anchor = e.anchor
      /\ x.command = c /\ x.command_cursor = e.command_cursor
      /\ x.history_index = e.history_index /\ x.backup = e.backup
  BY <1>1 DEF EditSession
<1> HIDE DEF x
<1>3. Fits(x, d)
  BY <1>2 DEF Fits
<1> QED BY <1>2, <1>3 DEF x, Same, Keeps

LEMMA PendingSet ==
  ASSUME NEW e, NEW d, Fits(e, d), NEW k \in {"none", "d", "y"}
  PROVE  LET x == [e EXCEPT !.pending = k] IN Fits(x, d) /\ Same(x, e) /\ x.cursor = e.cursor
<1> DEFINE x == [e EXCEPT !.pending = k]
<1>1. e \in EditSession
  BY DEF Fits
<1>2. /\ x \in EditSession /\ x.text = e.text /\ x.cursor = e.cursor /\ x.mode = e.mode /\ x.anchor = e.anchor
      /\ x.command = e.command /\ x.command_cursor = e.command_cursor
      /\ x.history_index = e.history_index /\ x.backup = e.backup
  BY <1>1 DEF EditSession
<1> HIDE DEF x
<1>3. Fits(x, d)
  BY <1>2 DEF Fits
<1> QED BY <1>2, <1>3 DEF x, Same, Keeps

(* A mode other than the command line is entered.                          *)
LEMMA Enters ==
  ASSUME NEW e, NEW d, Fits(e, d), NEW mode \in {"Plain", "Insert", "Normal", "Visual"}
  PROVE  LET x == enters(e, mode)
         IN  Fits(x, d) /\ x.text = e.text /\ x.mode = mode
<1> DEFINE x == enters(e, mode)
<1>1. e \in EditSession /\ NoAnchor \in Int
  BY DEF Fits, NoAnchor
<1>2. /\ x \in EditSession /\ x.text = e.text /\ x.cursor = e.cursor /\ x.mode = mode
      /\ x.history_index = e.history_index /\ x.backup = e.backup
  BY <1>1 DEF EditSession, enters
<1> HIDE DEF x
<1>3. Fits(x, d)
  BY <1>2 DEF Fits
<1> QED BY <1>2, <1>3 DEF x

LEMMA EntersVisual ==
  ASSUME NEW e, NEW d, Fits(e, d)
  PROVE  Fits(enter_visual_mode(e), d) /\ Anchored(enter_visual_mode(e))
<1> DEFINE y == enters(e, "Visual")
           x == enter_visual_mode(e)
<1>1. Fits(y, d) /\ y.text = e.text /\ y.mode = "Visual" /\ y.cursor = e.cursor
  <2>1. e \in EditSession
    BY DEF Fits
  <2>2. y.cursor = e.cursor
    BY <2>1 DEF EditSession, enters
  <2> QED BY <2>2, Enters
<1>2. y \in EditSession /\ e.cursor \in Nat
  BY <1>1 DEF Fits, EditSession
<1>3. x = [y EXCEPT !.anchor = e.cursor]
  BY DEF enter_visual_mode
<1> HIDE DEF x, y
<1>4. /\ x \in EditSession /\ x.text = y.text /\ x.cursor = y.cursor /\ x.mode = y.mode
      /\ x.anchor = y.cursor /\ x.command = y.command /\ x.command_cursor = y.command_cursor
      /\ x.history_index = y.history_index /\ x.backup = y.backup
  BY <1>1, <1>2, <1>3 DEF EditSession
<1> QED BY <1>1, <1>4 DEF x, Fits, Anchored

LEMMA EntersCommand ==
  ASSUME NEW e, NEW d, Fits(e, d)
  PROVE  Fits(enter_command_mode(e), d) /\ Anchored(enter_command_mode(e))
<1> DEFINE y == enters(e, "Command")
           x == enter_command_mode(e)
<1>1. e \in EditSession /\ <<":">> \in Strs /\ CommandLine(<<":">>, 1) /\ NoAnchor \in Int
  <2>1. ":" \in Bytes \ {Wide, Rest}
    BY ByteNames
  <2>2. <<":">> \in Strs /\ Len(<<":">>) = 1 /\ <<":">>[1] = ":"
    BY <2>1, FewBytes
  <2>3. is_char_boundary(<<":">>, 1)
    BY <2>2, Borders
  <2> QED BY <2>2, <2>3 DEF Fits, CommandLine, NoAnchor
<1>2. /\ y \in EditSession /\ y.text = e.text /\ y.cursor = e.cursor /\ y.mode = "Command"
      /\ y.history_index = e.history_index /\ y.backup = e.backup
  BY <1>1 DEF EditSession, enters
<1>3. x = [y EXCEPT !.command = <<":">>, !.command_cursor = 1]
  BY DEF enter_command_mode
<1> HIDE DEF x, y
<1>4. /\ x \in EditSession /\ x.text = y.text /\ x.cursor = y.cursor /\ x.mode = "Command"
      /\ x.command = <<":">> /\ x.command_cursor = 1
      /\ x.history_index = y.history_index /\ x.backup = y.backup
  BY <1>1, <1>2, <1>3 DEF EditSession
<1> QED BY <1>1, <1>2, <1>4 DEF x, Fits, Anchored

LEMMA ExitsCommand ==
  ASSUME NEW e, NEW d, Fits(e, d)
  PROVE  Fits(exit_command_mode(e), d) /\ Anchored(exit_command_mode(e))
<1> DEFINE y == enters(e, "Normal")
           x == exit_command_mode(e)
<1>1. Fits(y, d) /\ y.mode = "Normal" /\ y \in EditSession /\ <<>> \in Strs
  BY Enters, FewBytes DEF Fits
<1>2. x = [y EXCEPT !.command = <<>>, !.command_cursor = 0]
  BY DEF exit_command_mode
<1> HIDE DEF x, y
<1>3. /\ x \in EditSession /\ x.text = y.text /\ x.cursor = y.cursor /\ x.mode = y.mode
      /\ x.history_index = y.history_index /\ x.backup = y.backup
  BY <1>1, <1>2 DEF EditSession
<1> QED BY <1>1, <1>3 DEF x, Fits, Anchored

Completing(c, t) ==
  /\ c \in [prefix : Strs, matches : SUBSET DOMAIN Completions, shown : DOMAIN Completions]
  /\ c.shown \in c.matches
  /\ \A i \in c.matches : IsPrefixOf(c.prefix, Completions[i])
  /\ \E i \in c.matches : t = Completions[i]

EditorInv ==
  /\ Fits(s, draft)
  /\ yank_buffer \in Strs
  /\ ~ cut => outcome # "panic" /\ Anchored(s)
  /\ completion # NoCompletion =>
       /\ Completing(completion, s.text)
       /\ ~ cut /\ s.mode = "Visual" => is_char_boundary(completion.prefix, s.anchor)

LEMMA EditorHolds == EditorInv => EditorSound
<1> SUFFICES ASSUME EditorInv PROVE EditorSound
  OBVIOUS
<1>1. NeverPanics
  <2>1. s.mode = "Command" => s.command \in Strs /\ Len(s.command) > 0 /\ s.command # <<>>
    <3>1. s.mode = "Command" => s.command \in Strs /\ Len(s.command) > 0
      BY DEF EditorInv, Fits, EditSession, CommandLine
    <3>2. Len(<<>>) = 0
      OBVIOUS
    <3> QED BY <3>1, <3>2
  <2> QED BY <2>1 DEF EditorInv, Fits, CommandLine, NeverPanics
<1>2. DraftKept
  BY DEF EditorInv, Fits, DraftKept
<1>3. CompletionExtends
  <2> SUFFICES ASSUME completion # NoCompletion
               PROVE  /\ s.text \in {Completions[i] : i \in completion.matches}
                      /\ IsPrefixOf(completion.prefix, s.text)
    BY DEF CompletionExtends
  <2>1. Completing(completion, s.text)
    BY DEF EditorInv
  <2> QED BY <2>1 DEF Completing
<1> QED BY <1>1, <1>2, <1>3 DEF EditorSound

LEMMA Drawn ==
  ASSUME NEW e, NEW d, Fits(e, d), Anchored(e)
  PROVE  ~ render_panics(e)
<1>1. CASE e.mode = "Command"
  BY <1>1 DEF Fits, CommandLine, render_panics, active_text
<1>2. CASE e.mode # "Command"
  BY <1>2 DEF Fits, Anchored, render_panics, active_text
<1> QED BY <1>1, <1>2

LEMMA Edited ==
  ASSUME EditorInv, NEW e, edits(e), Fits(e, draft'), ~ cut' => Anchored(e), yank_buffer' \in Strs,
         completion' # NoCompletion =>
           /\ Completing(completion', e.text)
           /\ ~ cut' /\ e.mode = "Visual" => is_char_boundary(completion'.prefix, e.anchor)
  PROVE  EditorInv'
<1>1. s' = e /\ outcome' = IF render_panics(e) THEN "panic" ELSE "editing"
  BY DEF edits
<1>2. ~ cut' => outcome' # "panic"
  <2>1. ~ cut' => ~ render_panics(e)
    BY Drawn
  <2> QED BY <1>1, <2>1
<1>3. Fits(s', draft')
  BY <1>1
<1>4. ~ cut' => Anchored(s')
  BY <1>1
<1>5. completion' # NoCompletion =>
        /\ Completing(completion', s'.text)
        /\ ~ cut' /\ s'.mode = "Visual" => is_char_boundary(completion'.prefix, s'.anchor)
  BY <1>1
<1> QED BY <1>2, <1>3, <1>4, <1>5
        DEF EditorInv, Anchored, Fits, EditSession, CommandLine, is_char_boundary, Strs, Bytes, Utf8,
            Completing, IsPrefixOf, NoCompletion, NoIndex, NoText

LEMMA Pressed ==
  ASSUME EditorInv, NEW e, presses(e), Fits(e, draft'), ~ cut' => Anchored(e), yank_buffer' \in Strs
  PROVE  EditorInv'
<1>1. edits(e) /\ completion' = NoCompletion
  BY DEF presses
<1> QED BY <1>1, Edited

(* What the actions start from.                                            *)
LEMMA Before ==
  ASSUME EditorInv
  PROVE  /\ Fits(s, draft) /\ s.text \in Strs /\ s.command \in Strs /\ yank_buffer \in Strs
         /\ is_char_boundary(s.text, s.cursor) /\ s.cursor \in Nat
         /\ s.mode \in {"Plain", "Insert", "Normal", "Visual", "Command"}
         /\ s.mode = "Command" => CommandLine(s.command, s.command_cursor)
         /\ ~ cut => Anchored(s)
BY DEF EditorInv, Fits, EditSession

LEMMA Moved ==
  ASSUME NEW e, NEW d, Fits(e, d), NEW p, is_char_boundary(e.text, p), NEW q,
         e.mode = "Command" => is_char_boundary(e.command, q)
  PROVE  Fits(moved(e, p, q), d) /\ Same(moved(e, p, q), e)
<1>1. CASE e.mode = "Command"
  <2>1. e.command \in Strs /\ Len(e.command) > 0 /\ e.command[1] = ":"
    BY <1>1 DEF Fits, EditSession, CommandLine
  <2>2. is_char_boundary(e.command, 1)
    <3>1. 1 \in 1..Len(e.command)
      BY <2>1, StrOf
    <3> QED BY <2>1, <3>1, Borders, ByteNames
  <2> DEFINE k == IF q = 0 THEN 1 ELSE q
  <2>3. CommandLine(e.command, k)
    BY <1>1, <2>1, <2>2, BoundaryIs DEF CommandLine
  <2>4. moved(e, p, q) = [e EXCEPT !.command_cursor = k]
    BY <1>1 DEF moved
  <2> HIDE DEF k
  <2> QED BY <1>1, <2>3, <2>4, CommandCursor
<1>2. CASE e.mode # "Command"
  <2>1. moved(e, p, q) = [e EXCEPT !.cursor = p]
    BY <1>2 DEF moved
  <2> QED BY <2>1, CursorMoved
<1> QED BY <1>1, <1>2

LEMMA Movements ==
  ASSUME NEW e, NEW d, Fits(e, d)
  PROVE  /\ Fits(move_left(e), d) /\ Same(move_left(e), e)
         /\ Fits(move_right(e), d) /\ Same(move_right(e), e)
         /\ Fits(move_line_start(e), d) /\ Same(move_line_start(e), e)
         /\ Fits(move_line_end(e), d) /\ Same(move_line_end(e), e)
<1>1. /\ e.text \in Strs /\ e.command \in Strs /\ is_char_boundary(e.text, e.cursor)
      /\ e.mode = "Command" => is_char_boundary(e.command, e.command_cursor)
      /\ e.cursor \in 0..Len(e.text)
  <2>1. e.text \in Strs /\ e.command \in Strs /\ is_char_boundary(e.text, e.cursor)
    BY DEF Fits, EditSession
  <2> QED BY <2>1, BoundaryIs DEF Fits, CommandLine
<1>2. Fits(move_left(e), d) /\ Same(move_left(e), e)
  <2>1. is_char_boundary(e.text, previous_boundary(e.text, e.cursor))
    BY <1>1, PreviousBoundary
  <2>2. e.mode = "Command" => is_char_boundary(e.command, previous_boundary(e.command, e.command_cursor))
    BY <1>1, PreviousBoundary
  <2> QED BY <2>1, <2>2, Moved DEF move_left
<1>3. Fits(move_right(e), d) /\ Same(move_right(e), e)
  <2>1. is_char_boundary(e.text, next_boundary(e.text, e.cursor))
    BY <1>1, NextBoundary
  <2>2. e.mode = "Command" => is_char_boundary(e.command, next_boundary(e.command, e.command_cursor))
    BY <1>1, NextBoundary
  <2> QED BY <2>1, <2>2, Moved DEF move_right
<1>4. Fits(move_line_start(e), d) /\ Same(move_line_start(e), e)
  <2>1. is_char_boundary(e.text, line_start(e.text, e.cursor)) /\ is_char_boundary(e.command, 0)
    BY <1>1, LineStart, Borders
  <2> QED BY <2>1, Moved DEF move_line_start
<1>5. Fits(move_line_end(e), d) /\ Same(move_line_end(e), e)
  <2>1. is_char_boundary(e.text, line_end(e.text, e.cursor)) /\ is_char_boundary(e.command, Len(e.command))
    BY <1>1, LineEnd, Borders
  <2> QED BY <2>1, Moved DEF move_line_end
<1> QED BY <1>2, <1>3, <1>4, <1>5

LEMMA AnchorStays ==
  ASSUME NEW e, NEW x, Same(x, e), Anchored(e)
  PROVE  Anchored(x)
BY DEF Same, Keeps, Anchored

LEMMA ArrowStep ==
  ASSUME EditorInv, arrow
  PROVE  EditorInv'
<1>1. PICK e \in {move_left(s), move_right(s), move_line_start(s), move_line_end(s)} : presses(e)
  BY DEF arrow
<1>2. yank_buffer' = yank_buffer /\ draft' = draft /\ cut' = cut
  BY DEF arrow
<1>3. Fits(e, draft) /\ Same(e, s)
  BY Before, Movements
<1> QED BY <1>1, <1>2, <1>3, Before, AnchorStays, Pressed

LEMMA CommandInserted ==
  ASSUME NEW c \in Strs, NEW q, CommandLine(c, q), NEW u \in Strs
  PROVE  inserted(c, q, u) \in Strs /\ CommandLine(inserted(c, q, u), q + Len(u))
<1> DEFINE w == inserted(c, q, u)
<1>1. is_char_boundary(c, q) /\ q > 0 /\ Len(c) > 0 /\ c[1] = ":"
  BY DEF CommandLine
<1>2. /\ w \in Strs /\ Len(w) = Len(c) + Len(u) /\ is_char_boundary(w, q + Len(u))
      /\ \A i \in 1..q : w[i] = c[i]
  <2>1. is_char_boundary(c, q)
    BY <1>1
  <2>2. w \in Strs /\ Len(w) = Len(c) + Len(u) /\ is_char_boundary(w, q + Len(u))
    BY <2>1, Inserted
  <2>3. \A i \in 1..q : w[i] = c[i]
    BY <2>1, Inserted
  <2> QED BY <2>2, <2>3
<1> HIDE DEF w
<1>3. 1 \in 1..q /\ Len(u) \in Nat /\ q \in Nat /\ Len(c) \in Nat
  BY <1>1, BoundaryIs, StrOf
<1>4. CommandLine(w, q + Len(u))
  BY <1>1, <1>2, <1>3 DEF CommandLine
<1> QED BY <1>2, <1>4 DEF w

LEMMA InsertStep ==
  ASSUME EditorInv, NEW u \in Strs, insert_active_text(u)
  PROVE  EditorInv'
<1>1. /\ InText(s) /\ yank_buffer' = yank_buffer /\ draft' = draft /\ cut' = cut
  BY DEF insert_active_text
<1>2. CASE s.mode = "Command"
  <2> DEFINE c == inserted(s.command, s.command_cursor, u)
             q == s.command_cursor + Len(u)
             e == [s EXCEPT !.command = c, !.command_cursor = q]
  <2>1. presses(e)
    BY <1>2 DEF insert_active_text
  <2> HIDE DEF e
  <2>2. s.command \in Strs /\ CommandLine(s.command, s.command_cursor)
    BY <1>2, Before
  <2>3. c \in Strs /\ CommandLine(c, q)
    <3> QED BY <2>2, CommandInserted
  <2> HIDE DEF c, q
  <2>4. Fits(e, draft) /\ Same(e, s)
    BY <1>2, <2>3, Before, CommandWritten DEF e
  <2> QED BY <1>1, <2>1, <2>4, Before, AnchorStays, Pressed
<1>3. CASE s.mode # "Command"
  <2> DEFINE t == inserted(s.text, s.cursor, u)
             p == s.cursor + Len(u)
             e == [s EXCEPT !.text = t, !.cursor = p]
  <2>1. presses(e)
    BY <1>3 DEF insert_active_text
  <2>2. t \in Strs /\ is_char_boundary(t, p)
    BY Before, Inserted
  <2> HIDE DEF t, p
  <2>3. Fits(e, draft) /\ Keeps(e, s, t)
    BY <2>2, Before, TextWritten
  <2> HIDE DEF e
  <2>4. Anchored(e)
    BY <1>1, <2>3 DEF Anchored, InText, Keeps
  <2> QED BY <1>1, <2>1, <2>3, <2>4, Before, Pressed
<1> QED BY <1>2, <1>3

LEMMA CommandDrained ==
  ASSUME NEW c \in Strs, c[1] = ":", NEW a, NEW b, a > 0, is_char_boundary(c, a), is_char_boundary(c, b), a <= b
  PROVE  drained(c, a, b) \in Strs /\ CommandLine(drained(c, a, b), a)
<1> DEFINE w == drained(c, a, b)
<1>1. w \in Strs /\ is_char_boundary(w, a)
  BY Drained
<1>2. \A i \in 1..a : w[i] = c[i]
  BY Drained
<1> HIDE DEF w
<1>3. a \in 0..Len(w) /\ Len(w) \in Nat
  BY <1>1, BoundaryIs
<1>4. Len(w) > 0 /\ w[1] = ":"
  <2>1. 1 \in 1..a
    BY <1>3
  <2> QED BY <1>2, <1>3, <2>1
<1> QED BY <1>1, <1>4 DEF w, CommandLine

LEMMA BackspaceStep ==
  ASSUME EditorInv, handle_backspace
  PROVE  EditorInv'
<1>1. yank_buffer' = yank_buffer /\ draft' = draft /\ cut' = cut
  BY DEF handle_backspace
<1>2. CASE s.mode \in {"Normal", "Visual"}
  <2>1. presses(move_left(s))
    BY <1>2 DEF handle_backspace
  <2>2. Fits(move_left(s), draft) /\ Same(move_left(s), s)
    BY Before, Movements
  <2> QED BY <1>1, <2>1, <2>2, Before, AnchorStays, Pressed
<1>3. CASE s.mode = "Command" /\ s.command_cursor <= 1
  <2>0. s.command_cursor \in Nat
    BY <1>3, Before, BoundaryIs DEF CommandLine
  <2>1. presses(exit_command_mode(s))
    BY <1>3, <2>0 DEF handle_backspace
  <2>2. Fits(exit_command_mode(s), draft) /\ Anchored(exit_command_mode(s))
    BY Before, ExitsCommand
  <2> QED BY <1>1, <2>1, <2>2, Before, Pressed
<1>4. CASE s.mode = "Command" /\ ~(s.command_cursor <= 1)
  <2>0. s.command_cursor \in Nat /\ s.command_cursor > 1 /\ CommandLine(s.command, s.command_cursor)
        /\ s.command \in Strs
    <3>1. CommandLine(s.command, s.command_cursor) /\ s.command \in Strs
      BY <1>4, Before
    <3>2. s.command_cursor \in Nat
      BY <3>1, BoundaryIs DEF CommandLine
    <3> QED BY <1>4, <3>1, <3>2
  <2> DEFINE q == previous_boundary(s.command, s.command_cursor)
             c == drained(s.command, q, s.command_cursor)
             e == [s EXCEPT !.command = c, !.command_cursor = q]
  <2>1. presses(e)
    BY <1>4, <2>0 DEF handle_backspace, remove_previous_char
  <2> HIDE DEF e
  <2>2. is_char_boundary(s.command, q) /\ q <= s.command_cursor /\ q > 0 /\ s.command[1] = ":"
    <3>1. is_char_boundary(s.command, s.command_cursor) /\ s.command[1] = ":"
      BY <2>0 DEF CommandLine
    <3>2. s.command[1] # Wide
      BY <3>1, ByteNames
    <3> QED BY <2>0, <3>1, <3>2, PreviousBoundary
  <2>3. c \in Strs /\ CommandLine(c, q)
    <3>1. is_char_boundary(s.command, s.command_cursor)
      BY <2>0 DEF CommandLine
    <3> QED BY <2>0, <2>2, <3>1, CommandDrained
  <2> HIDE DEF c, q
  <2>4. Fits(e, draft) /\ Same(e, s)
    BY <1>4, <2>3, Before, CommandWritten DEF e
  <2> QED BY <1>1, <2>1, <2>4, Before, AnchorStays, Pressed
<1>5. CASE s.mode \in {"Plain", "Insert"}
  <2> DEFINE p == previous_boundary(s.text, s.cursor)
             t == drained(s.text, p, s.cursor)
             e == [s EXCEPT !.text = t, !.cursor = p]
  <2>1. presses(e)
    BY <1>5 DEF handle_backspace, remove_previous_char
  <2>2. is_char_boundary(s.text, p) /\ p <= s.cursor
    BY Before, PreviousBoundary
  <2>3. t \in Strs /\ is_char_boundary(t, p)
    BY <2>2, Before, Drained
  <2> HIDE DEF t, p
  <2>4. Fits(e, draft) /\ Keeps(e, s, t)
    BY <2>3, Before, TextWritten
  <2> HIDE DEF e
  <2>5. Anchored(e)
    BY <1>5, <2>4 DEF Anchored, Keeps
  <2> QED BY <1>1, <2>1, <2>4, <2>5, Before, Pressed
<1> QED BY <1>2, <1>3, <1>4, <1>5, Before

LEMMA DeleteStep ==
  ASSUME EditorInv, delete_char_under_cursor
  PROVE  EditorInv'
<1>1. yank_buffer' = yank_buffer /\ draft' = draft /\ cut' = (cut \/ s.mode = "Visual")
  BY DEF delete_char_under_cursor
<1>2. CASE s.mode = "Command"
  <2>0. CommandLine(s.command, s.command_cursor) /\ s.command \in Strs
    BY <1>2, Before
  <2> DEFINE q == s.command_cursor
             b == next_boundary(s.command, q)
             c == drained(s.command, q, b)
             e == [s EXCEPT !.command = c]
  <2>1. presses(e)
    BY <1>2 DEF delete_char_under_cursor
  <2> HIDE DEF e
  <2>2. is_char_boundary(s.command, q) /\ q > 0 /\ s.command[1] = ":"
    BY <2>0 DEF CommandLine
  <2>3. is_char_boundary(s.command, b) /\ q <= b
    BY <2>0, <2>2, NextBoundary
  <2>4. c \in Strs /\ CommandLine(c, q)
    BY <2>0, <2>2, <2>3, CommandDrained
  <2> HIDE DEF c, b
  <2>5. Fits(e, draft) /\ Same(e, s)
    BY <1>2, <2>4, Before, CommandText DEF e
  <2>6. Anchored(e)
    BY <1>2, <2>5 DEF Same, Keeps, Anchored
  <2> QED BY <1>1, <2>1, <2>5, <2>6, Before, Pressed
<1>3. CASE s.mode # "Command"
  <2> DEFINE b == next_boundary(s.text, s.cursor)
             t == drained(s.text, s.cursor, b)
             e == [s EXCEPT !.text = t, !.cursor = s.cursor]
  <2>1. presses(e)
    <3>1. presses([s EXCEPT !.text = t])
      BY <1>3 DEF delete_char_under_cursor
    <3>2. s \in EditSession
      BY Before DEF Fits
    <3>3. [s EXCEPT !.text = t] = e
      BY <3>2 DEF EditSession
    <3> HIDE DEF e, t, b
    <3> QED BY <3>1, <3>3
  <2>2. is_char_boundary(s.text, b) /\ s.cursor <= b
    BY Before, NextBoundary
  <2>3. t \in Strs /\ is_char_boundary(t, s.cursor)
    BY <2>2, Before, Drained
  <2> HIDE DEF t, b
  <2>4. Fits(e, draft) /\ Keeps(e, s, t)
    BY <2>3, Before, TextWritten
  <2> HIDE DEF e
  <2>5. ~ cut' => Anchored(e)
    BY <1>1, <2>4 DEF Anchored, Keeps
  <2> QED BY <1>1, <2>1, <2>4, <2>5, Before, Pressed
<1> QED BY <1>2, <1>3

LEMMA EscapeStep ==
  ASSUME EditorInv, handle_escape
  PROVE  EditorInv'
<1>1. yank_buffer' = yank_buffer /\ draft' = draft /\ cut' = (cut /\ s.mode # "Visual")
  BY DEF handle_escape
<1>2. CASE s.mode \in {"Plain", "Normal"}
  <2>1. presses(s)
    BY <1>2 DEF handle_escape
  <2>2. Anchored(s)
    BY <1>2 DEF Anchored
  <2> QED BY <1>1, <2>1, <2>2, Before, Pressed
<1>3. CASE s.mode = "Insert"
  <2> DEFINE p == previous_boundary(s.text, s.cursor)
             y == [s EXCEPT !.cursor = p]
             e == enters(y, "Normal")
  <2>1. presses(e)
    BY <1>3 DEF handle_escape
  <2>2. is_char_boundary(s.text, p)
    BY Before, PreviousBoundary
  <2> HIDE DEF p
  <2>3. Fits(y, draft)
    BY <2>2, Before, CursorMoved
  <2> HIDE DEF y
  <2>4. Fits(e, draft) /\ e.mode = "Normal"
    BY <2>3, Enters
  <2> HIDE DEF e
  <2>5. Anchored(e)
    BY <2>4 DEF Anchored
  <2> QED BY <1>1, <2>1, <2>4, <2>5, Before, Pressed
<1>4. CASE s.mode = "Visual"
  <2> DEFINE e == enters(s, "Normal")
  <2>1. presses(e)
    BY <1>4 DEF handle_escape
  <2>2. Fits(e, draft) /\ e.mode = "Normal"
    BY Before, Enters
  <2> HIDE DEF e
  <2>3. Anchored(e)
    BY <2>2 DEF Anchored
  <2> QED BY <1>1, <2>1, <2>2, <2>3, Before, Pressed
<1>5. CASE s.mode = "Command"
  <2>1. presses(exit_command_mode(s))
    BY <1>5 DEF handle_escape
  <2>2. Fits(exit_command_mode(s), draft) /\ Anchored(exit_command_mode(s))
    BY Before, ExitsCommand
  <2> QED BY <1>1, <2>1, <2>2, Before, Pressed
<1> QED BY <1>2, <1>3, <1>4, <1>5, Before

LEMMA Taken ==
  ASSUME EditorInv
  PROVE  Fits(taken, draft) /\ Same(taken, s) /\ taken.cursor = s.cursor
BY Before, PendingSet DEF taken

LEMMA Pasted ==
  ASSUME NEW e, NEW d, Fits(e, d), yank_buffer \in Strs
  PROVE  Fits(paste_after(e), d) /\ paste_after(e).mode = e.mode
<1>1. e.text \in Strs /\ is_char_boundary(e.text, e.cursor) /\ e.cursor \in 0..Len(e.text) /\ Len(e.text) \in Nat
  <2>1. e.text \in Strs /\ is_char_boundary(e.text, e.cursor)
    BY DEF Fits, EditSession
  <2> QED BY <2>1, BoundaryIs
<1> DEFINE end == line_end(e.text, e.cursor)
           p == IF end < Len(e.text) THEN end + 1 ELSE Len(e.text)
           joins == p = Len(e.text) /\ e.text # <<>> /\ e.text[Len(e.text)] # NL
           front == IF joins THEN <<NL>> \o yank_buffer ELSE yank_buffer
           u == IF p < Len(e.text) /\ front[Len(front)] # NL THEN Append(front, NL) ELSE front
           t == inserted(e.text, p, u)
           k == IF u[1] = NL THEN p + 1 ELSE p
           x == [e EXCEPT !.text = t, !.cursor = k]
<1>2. paste_after(e) = IF yank_buffer = <<>> THEN e ELSE x
  BY DEF paste_after
<1> HIDE DEF x
<1>3. is_char_boundary(e.text, p)
  <2>1. end \in e.cursor..Len(e.text) /\ (end < Len(e.text) => e.text[end + 1] = NL)
    BY <1>1, LineEnd
  <2> HIDE DEF end
  <2>2. CASE end < Len(e.text)
    <3>1. end + 1 \in 1..Len(e.text) /\ e.text[end + 1] # Wide
      BY <1>1, <2>1, <2>2, ByteNames
    <3>2. is_char_boundary(e.text, end + 1)
      BY <1>1, <3>1, Borders
    <3> QED BY <2>2, <3>2
  <2>3. CASE ~(end < Len(e.text))
    BY <1>1, <2>3, Borders
  <2> QED BY <2>2, <2>3
<1> HIDE DEF p, end
<1>4. <<NL>> \in Strs
  BY ByteNames, FewBytes
<1>5. front \in Strs
  BY <1>4, Joined
<1> HIDE DEF front
<1>6. u \in Strs
  <2>1. Append(front, NL) = front \o <<NL>>
    BY <1>5, ByteNames, AppendIsConcat, StrOf
  <2>2. front \o <<NL>> \in Strs
    BY <1>4, <1>5, Joined
  <2> QED BY <1>5, <2>1, <2>2
<1>7. yank_buffer # <<>> => Len(u) > 0
  <2>1. yank_buffer # <<>> => Len(yank_buffer) > 0
    BY StrOf, EmptySeq
  <2>2. Len(<<NL>> \o yank_buffer) = Len(<<NL>>) + Len(yank_buffer) /\ Len(<<NL>>) = 1
    BY <1>4, Joined, ByteNames, FewBytes
  <2>3. yank_buffer # <<>> => Len(front) > 0
    BY <2>1, <2>2, StrOf DEF front
  <2>4. Len(Append(front, NL)) = Len(front) + 1
    BY <1>5, StrOf
  <2>5. Len(front) \in Nat
    BY <1>5, StrOf
  <2> QED BY <2>3, <2>4, <2>5
<1> HIDE DEF u
<1>8. yank_buffer # <<>> => t \in Strs /\ is_char_boundary(t, k)
  <2>1. t \in Strs /\ is_char_boundary(t, p) /\ is_char_boundary(t, p + Len(u))
    BY <1>1, <1>3, <1>6, Inserted
  <2>2. \A i \in 1..Len(u) : t[p + i] = u[i]
    <3>1. e.text \in Strs
      BY <1>1
    <3> QED BY <1>3, <1>6, <3>1, Inserted
  <2> HIDE DEF t
  <2>3. ASSUME yank_buffer # <<>>, u[1] = NL
        PROVE  is_char_boundary(t, p + 1)
    <3>1. 1 \in 1..Len(u) /\ Len(u) \in Nat
      BY <1>6, <1>7, <2>3, StrOf
    <3>2. t[p + 1] = NL /\ p + Len(u) \in 0..Len(t) /\ Len(t) \in Nat /\ p \in Nat
      <4>1. p \in 0..Len(t) /\ p + Len(u) \in 0..Len(t) /\ Len(t) \in Nat
        BY <2>1, BoundaryIs
      <4> QED BY <2>2, <2>3, <3>1, <4>1
    <3>3. p + 1 \in 1..Len(t) /\ t[p + 1] # Wide
      BY <3>1, <3>2, ByteNames
    <3> QED BY <2>1, <3>3, Borders
  <2> QED BY <2>1, <2>3
<1> HIDE DEF t, k
<1>9. yank_buffer # <<>> => Fits(x, d) /\ Keeps(x, e, t)
  BY <1>8, TextWritten DEF x
<1> QED BY <1>2, <1>9 DEF Keeps

LEMMA NormalStep ==
  ASSUME EditorInv, handle_normal_char
  PROVE  EditorInv'
<1>1. s.mode = "Normal" /\ draft' = draft /\ cut' = cut
  BY DEF handle_normal_char
<1>2. Fits(taken, draft) /\ taken.mode = "Normal" /\ taken.text = s.text /\ taken.cursor = s.cursor
  BY <1>1, Taken DEF Same, Keeps
<1> DEFINE r == current_line_delete_range(s.text, s.cursor)
<1>3. /\ is_char_boundary(s.text, r.start) /\ is_char_boundary(s.text, r.end) /\ is_char_boundary(s.text, r.from)
      /\ r.from <= r.end /\ r.start <= r.end
  BY Before, LineRange
<1>4. slice(s.text, r.start, r.end) \in Strs
  BY <1>3, Before, Piece
<1>5. CASE completes("d") /\ delete_current_line
  <2> DEFINE t == drained(s.text, r.from, r.end)
             e == [taken EXCEPT !.text = t, !.cursor = r.from]
  <2>1. presses(e) /\ yank_buffer' \in Strs
    <3>1. presses([taken EXCEPT !.text = drained(taken.text, r.from, r.end), !.cursor = r.from])
          /\ yank_buffer' = slice(s.text, r.start, r.end)
      BY <1>5 DEF delete_current_line
    <3> QED BY <1>2, <1>4, <3>1
  <2>2. t \in Strs /\ is_char_boundary(t, r.from)
    BY <1>3, Before, Drained
  <2> HIDE DEF r, t
  <2>3. Fits(e, draft) /\ Keeps(e, taken, t)
    BY <1>2, <2>2, TextWritten
  <2> HIDE DEF e
  <2>4. Anchored(e)
    BY <1>2, <2>3 DEF Anchored, Keeps
  <2> QED BY <1>1, <2>1, <2>3, <2>4, Pressed
<1>6. CASE completes("y") /\ yank_current_line
  <2>1. presses(taken) /\ yank_buffer' \in Strs
    BY <1>4, <1>6 DEF yank_current_line
  <2>2. Anchored(taken)
    BY <1>2 DEF Anchored
  <2> QED BY <1>1, <1>2, <2>1, <2>2, Pressed
<1>7. ASSUME NEW ch \in {"d", "y"}, presses([taken EXCEPT !.pending = ch]), yank_buffer' = yank_buffer
      PROVE  EditorInv'
  <2> DEFINE e == [taken EXCEPT !.pending = ch]
  <2>1. Fits(e, draft) /\ Same(e, taken)
    <3>1. ch \in {"none", "d", "y"}
      OBVIOUS
    <3> QED BY <1>2, <3>1, PendingSet
  <2>2. presses(e)
    BY <1>7
  <2> HIDE DEF e
  <2>3. Anchored(e)
    BY <1>2, <2>1 DEF Anchored, Same, Keeps
  <2> QED BY <1>1, <1>7, <2>1, <2>2, <2>3, Before, Pressed
<1>8. ASSUME NEW e \in {move_left(taken), move_right(taken),
                        [taken EXCEPT !.cursor = move_vertical(s.text, s.cursor, 1)],
                        [taken EXCEPT !.cursor = move_vertical(s.text, s.cursor, -1)],
                        paste_after(taken), enters(s, "Insert"), enter_visual_mode(s),
                        enter_command_mode(s), taken},
             presses(e), yank_buffer' = yank_buffer
      PROVE  EditorInv'
  <2>1. CASE e = move_left(taken) \/ e = move_right(taken)
    <3>1. Fits(e, draft) /\ Same(e, taken)
      BY <1>2, <2>1, Movements
    <3>2. Anchored(e)
      BY <1>2, <3>1 DEF Anchored, Same, Keeps
    <3> QED BY <1>1, <1>8, <3>1, <3>2, Before, Pressed
  <2>2. ASSUME NEW delta \in {1, -1}, e = [taken EXCEPT !.cursor = move_vertical(s.text, s.cursor, delta)]
        PROVE  Fits(e, draft) /\ Anchored(e)
    <3> DEFINE p == move_vertical(s.text, s.cursor, delta)
               x == [taken EXCEPT !.cursor = p]
    <3>1. is_char_boundary(taken.text, p)
      BY <1>2, Before, MovedVertical
    <3> HIDE DEF p
    <3>2. Fits(x, draft) /\ Same(x, taken)
      BY <1>2, <3>1, CursorMoved
    <3>3. e = x
      BY <2>2 DEF p
    <3> HIDE DEF x
    <3> QED BY <1>2, <3>2, <3>3 DEF Anchored, Same, Keeps
  <2>3. CASE \/ e = [taken EXCEPT !.cursor = move_vertical(s.text, s.cursor, 1)]
             \/ e = [taken EXCEPT !.cursor = move_vertical(s.text, s.cursor, -1)]
    <3>1. Fits(e, draft) /\ Anchored(e)
      BY <2>2, <2>3
    <3> QED BY <1>1, <1>8, <3>1, Before, Pressed
  <2>4. CASE e = paste_after(taken)
    <3>1. Fits(e, draft) /\ e.mode = "Normal"
      BY <1>2, <2>4, Before, Pasted
    <3>2. Anchored(e)
      BY <3>1 DEF Anchored
    <3> QED BY <1>1, <1>8, <3>1, <3>2, Before, Pressed
  <2>5. CASE e = enters(s, "Insert")
    <3>1. Fits(e, draft) /\ e.mode = "Insert"
      BY <2>5, Before, Enters
    <3>2. Anchored(e)
      BY <3>1 DEF Anchored
    <3> QED BY <1>1, <1>8, <3>1, <3>2, Before, Pressed
  <2>6. CASE e = enter_visual_mode(s)
    <3>1. Fits(e, draft) /\ Anchored(e)
      BY <2>6, Before, EntersVisual
    <3> QED BY <1>1, <1>8, <3>1, Before, Pressed
  <2>7. CASE e = enter_command_mode(s)
    <3>1. Fits(e, draft) /\ Anchored(e)
      BY <2>7, Before, EntersCommand
    <3> QED BY <1>1, <1>8, <3>1, Before, Pressed
  <2>8. CASE e = taken
    <3>1. Fits(e, draft) /\ Anchored(e)
      BY <1>2, <2>8 DEF Anchored
    <3> QED BY <1>1, <1>8, <3>1, Before, Pressed
  <2> QED BY <1>8, <2>1, <2>3, <2>4, <2>5, <2>6, <2>7, <2>8
<1> QED BY <1>5, <1>6, <1>7, <1>8 DEF handle_normal_char

LEMMA VisualStep ==
  ASSUME EditorInv, handle_visual_char
  PROVE  EditorInv'
<1>1. s.mode = "Visual" /\ yank_buffer' = yank_buffer /\ draft' = draft
  BY DEF handle_visual_char
<1>2. ASSUME NEW e \in {move_left(s), move_right(s)}, presses(e), cut' = cut
      PROVE  EditorInv'
  <2>1. Fits(e, draft) /\ Same(e, s)
    BY Before, Movements
  <2> QED BY <1>1, <1>2, <2>1, Before, AnchorStays, Pressed
<1>3. ASSUME NEW delta \in {1, -1}, presses([s EXCEPT !.cursor = move_vertical(s.text, s.cursor, delta)]),
             cut' = cut
      PROVE  EditorInv'
  <2> DEFINE p == move_vertical(s.text, s.cursor, delta)
             e == [s EXCEPT !.cursor = p]
  <2>1. is_char_boundary(s.text, p)
    BY Before, MovedVertical
  <2>2. presses(e)
    BY <1>3
  <2> HIDE DEF p
  <2>3. Fits(e, draft) /\ Same(e, s)
    BY <2>1, Before, CursorMoved
  <2> HIDE DEF e
  <2> QED BY <1>1, <1>3, <2>2, <2>3, Before, AnchorStays, Pressed
<1>4. ASSUME presses(enters(s, "Normal")), cut' = FALSE
      PROVE  EditorInv'
  <2>1. Fits(enters(s, "Normal"), draft) /\ enters(s, "Normal").mode = "Normal"
    BY Before, Enters
  <2>2. Anchored(enters(s, "Normal"))
    BY <2>1 DEF Anchored
  <2> QED BY <1>1, <1>4, <2>1, <2>2, Before, Pressed
<1> QED BY <1>2, <1>3, <1>4 DEF handle_visual_char

LEMMA Fetched ==
  ASSUME NEW e \in EditSession, NEW d, e.history_index # NoIndex => e.backup = d /\ e.backup \in Strs,
         NEW t \in Strs
  PROVE  LET x == set_text_from_history(e, t) IN Fits(x, d) /\ Anchored(x)
<1> DEFINE x == set_text_from_history(e, t)
           m == IF e.mode \in {"Plain", "Insert"} THEN e.mode ELSE "Normal"
<1>1. Len(t) \in Nat /\ NoAnchor \in Int /\ is_char_boundary(t, Len(t)) /\ m \in {"Plain", "Insert", "Normal"}
  BY StrOf, Borders DEF NoAnchor
<1>2. x = [e EXCEPT !.text = t, !.cursor = Len(t), !.pending = "none", !.anchor = NoAnchor, !.mode = m]
  BY DEF set_text_from_history
<1> HIDE DEF x, m
<1>3. /\ x \in EditSession /\ x.text = t /\ x.cursor = Len(t) /\ x.mode = m
      /\ x.history_index = e.history_index /\ x.backup = e.backup
  BY <1>1, <1>2 DEF EditSession
<1> QED BY <1>1, <1>3 DEF x, Fits, Anchored

LEMMA KnownLines ==
  /\ Len(History) \in Nat /\ DOMAIN History = 1..Len(History) /\ \A i \in 1..Len(History) : History[i] \in Strs
  /\ Len(Completions) \in Nat /\ DOMAIN Completions = 1..Len(Completions)
  /\ \A i \in DOMAIN Completions : Completions[i] \in Strs
<1>1. History \in Seq(Strs) /\ Completions \in Seq(Strs)
  BY EditorAssumption
<1> HIDE DEF Strs
<1> QED BY <1>1

LEMMA HistoryUpStep ==
  ASSUME EditorInv, history_up
  PROVE  EditorInv'
<1> DEFINE first == s.history_index = NoIndex
           i == IF first THEN Len(History) ELSE Max({1, s.history_index - 1})
           b == IF first THEN s.text ELSE s.backup
           y == [s EXCEPT !.history_index = i, !.backup = b]
           e == set_text_from_history(y, History[i])
<1>1. /\ yank_buffer' = yank_buffer /\ draft' = IF first THEN s.text ELSE draft
      /\ History # <<>> /\ presses(e)
  BY DEF history_up
<1> HIDE DEF e
<1>2. s \in EditSession /\ s.text \in Strs /\ (~ first => s.backup = draft /\ s.backup \in Strs)
      /\ (~ first => s.history_index \in 1..Len(History)) /\ Len(History) \in Nat /\ Len(History) > 0
  <2>1. Len(History) > 0
    BY <1>1, KnownLines, EditorAssumption, EmptySeq
  <2> QED BY <2>1, Before, KnownLines DEF EditorInv, Fits, EditSession
<1> HIDE DEF first
<1>3. i \in 1..Len(History)
  <2>1. CASE first
    BY <1>2, <2>1
  <2>2. CASE ~ first
    <3> DEFINE S == {1, s.history_index - 1}
    <3>1. S \in SUBSET (0..Len(History)) /\ S # {}
      BY <1>2, <2>2
    <3>2. 1 \in S
      OBVIOUS
    <3>3. i = Max(S)
      BY <2>2
    <3> HIDE DEF S, i
    <3>4. Max(S) \in S /\ 1 <= Max(S)
      BY <1>2, <3>1, <3>2, GreatestPlace
    <3>5. Max(S) \in 0..Len(History)
      BY <3>1, <3>4
    <3>6. Max(S) \in 1..Len(History)
      BY <1>2, <3>4, <3>5
    <3> QED BY <3>3, <3>6
  <2> QED BY <2>1, <2>2
<1> HIDE DEF i
<1>4. y \in EditSession /\ y.backup = draft' /\ y.backup \in Strs
  <2>1. b \in Strs /\ b = draft' /\ i \in DOMAIN History
    BY <1>1, <1>2, <1>3, KnownLines
  <2> HIDE DEF b
  <2> QED BY <1>2, <2>1 DEF EditSession
<1> HIDE DEF y
<1>5. Fits(e, draft') /\ Anchored(e)
  <2>1. History[i] \in Strs
    BY <1>3, KnownLines
  <2> QED BY <1>4, <2>1, Fetched DEF e
<1> QED BY <1>1, <1>5, Before, Pressed

LEMMA HistoryDownStep ==
  ASSUME EditorInv, history_down
  PROVE  EditorInv'
<1> DEFINE i == s.history_index + 1
           y == [s EXCEPT !.history_index = i]
           z == [s EXCEPT !.history_index = NoIndex, !.backup = NoText]
           t == IF s.backup = NoText THEN <<>> ELSE s.backup
           back == set_text_from_history(z, t)
           mode == IF vim_enabled THEN "Insert" ELSE "Plain"
<1>1. /\ yank_buffer' = yank_buffer /\ draft' = draft
      /\ s.history_index # NoIndex
      /\ presses(IF i <= Len(History) THEN set_text_from_history(y, History[i]) ELSE enters(back, mode))
  BY DEF history_down
<1>2. s \in EditSession /\ s.backup = draft /\ s.backup \in Strs /\ s.history_index \in 1..Len(History)
      /\ Len(History) \in Nat /\ i \in Int
  BY <1>1, Before, KnownLines DEF EditorInv, Fits, EditSession
<1>3. CASE i <= Len(History)
  <2>1. i \in 1..Len(History) /\ i \in DOMAIN History /\ History[i] \in Strs
    BY <1>2, <1>3, KnownLines
  <2> HIDE DEF i
  <2>2. y \in EditSession /\ y.backup = s.backup
    BY <1>2, <2>1 DEF EditSession
  <2> HIDE DEF y
  <2>3. Fits(set_text_from_history(y, History[i]), draft) /\ Anchored(set_text_from_history(y, History[i]))
    BY <1>2, <2>1, <2>2, Fetched
  <2>4. presses(set_text_from_history(y, History[i]))
    BY <1>1, <1>3
  <2> QED BY <1>1, <2>3, <2>4, Before, Pressed
<1>4. CASE ~(i <= Len(History))
  <2>1. z \in EditSession /\ z.history_index = NoIndex
    BY <1>2 DEF EditSession
  <2>2. t \in Strs
    BY <1>2, FewBytes
  <2>3. presses(enters(back, mode))
    BY <1>1, <1>4
  <2> HIDE DEF i, y, z, t
  <2>4. Fits(back, draft)
    BY <2>1, <2>2, Fetched
  <2> HIDE DEF back
  <2>5. mode \in {"Plain", "Insert", "Normal", "Visual"} /\ mode # "Visual"
    OBVIOUS
  <2> HIDE DEF mode
  <2>6. Fits(enters(back, mode), draft) /\ enters(back, mode).mode = mode
    BY <2>4, <2>5, Enters
  <2>7. Anchored(enters(back, mode))
    BY <2>5, <2>6 DEF Anchored
  <2> QED BY <1>1, <2>3, <2>6, <2>7, Before, Pressed
<1> QED BY <1>3, <1>4

(* A line that starts with another one has its boundaries.                 *)
LEMMA Carried ==
  ASSUME NEW p \in Strs, NEW t \in Strs, IsPrefixOf(p, t), NEW k, is_char_boundary(p, k)
  PROVE  is_char_boundary(t, k)
<1>1. k \in 0..Len(p) /\ Len(p) \in Nat /\ Len(t) \in Nat /\ Len(p) <= Len(t)
  BY StrOf, BoundaryIs DEF IsPrefixOf
<1>2. \A i \in 1..Len(p) : p[i] = t[i]
  <2>1. SubSeq(t, 1, Len(p)) = p
    BY DEF IsPrefixOf
  <2>2. t \in Seq(Bytes)
    BY StrOf
  <2>3. \A i \in 1..Len(p) : SubSeq(t, 1, Len(p))[i] = t[i]
    BY <1>1, <2>2
  <2> QED BY <2>1, <2>3
<1>3. CASE k < Len(p)
  <2>1. k + 1 \in 1..Len(p) /\ p[k + 1] # Rest
    BY <1>1, <1>3 DEF is_char_boundary
  <2> QED BY <1>1, <1>2, <2>1 DEF is_char_boundary
<1>4. CASE k = Len(p)
  <2> SUFFICES ASSUME k < Len(t), t[k + 1] = Rest PROVE FALSE
    BY <1>1 DEF is_char_boundary
  <2>1. k + 1 \in 1..Len(t)
    BY <1>1
  <2>2. k + 1 > 1 /\ t[(k + 1) - 1] = Wide
    BY <2>1, StrOf
  <2>3. k \in 1..Len(p) /\ p[k] = Wide
    <3>1. k \in 1..Len(p) /\ (k + 1) - 1 = k
      BY <1>1, <1>4, <2>2
    <3> QED BY <1>2, <2>2, <3>1
  <2> QED BY <1>4, <2>3, StrOf
<1> QED BY <1>1, <1>3, <1>4

LEMMA CompleteStep ==
  ASSUME EditorInv, complete_slash_command
  PROVE  EditorInv'
<1> DEFINE goes_on == s.cursor = Len(s.text) /\ s.text \in {Completions[i] : i \in completion.matches}
           matches == {i \in DOMAIN Completions :
                         IsPrefixOf(s.text, Completions[i]) /\ Completions[i] # s.text}
           following == [completion EXCEPT !.shown = next_match(completion)]
           fresh == [prefix |-> s.text, matches |-> matches, shown |-> Min(matches)]
<1>1. yank_buffer' = yank_buffer /\ draft' = draft /\ cut' = cut
  BY DEF complete_slash_command
<1>2. \/ goes_on /\ edits(completed(Completions[following.shown])) /\ completion' = following
      \/ matches # {} /\ edits(completed(Completions[fresh.shown])) /\ completion' = fresh
      \/ edits(s) /\ completion' = NoCompletion
  BY DEF complete_slash_command
<1>3. ASSUME NEW c, Completing(c, Completions[c.shown]), edits(completed(Completions[c.shown])), completion' = c,
             ~ cut /\ s.mode = "Visual" => is_char_boundary(c.prefix, s.anchor)
      PROVE  EditorInv'
  <2> DEFINE t == Completions[c.shown]
             e == [s EXCEPT !.text = t, !.cursor = Len(t)]
  <2>1. edits(e) /\ e = completed(t)
    BY <1>3 DEF completed
  <2>2. c.prefix \in Strs /\ c.shown \in DOMAIN Completions /\ t \in Strs /\ IsPrefixOf(c.prefix, t)
    BY <1>3, KnownLines DEF Completing
  <2>3. Completing(c, t)
    BY <1>3
  <2> HIDE DEF t
  <2>4. is_char_boundary(t, Len(t))
    BY <2>2, Borders
  <2>5. Fits(e, draft) /\ Keeps(e, s, t)
    BY <2>2, <2>4, Before, TextWritten
  <2> HIDE DEF e
  <2>6. e.text = t /\ e.mode = s.mode /\ e.anchor = s.anchor
    BY <2>5 DEF Keeps
  <2>7. ~ cut => Anchored(e)
    <3>1. ~ cut /\ s.mode = "Visual" => is_char_boundary(t, s.anchor)
      BY <1>3, <2>2, Carried
    <3> QED BY <2>6, <3>1 DEF Anchored
  <2> QED BY <1>1, <1>3, <2>1, <2>3, <2>5, <2>6, <2>7, Before, Edited
<1>4. CASE goes_on /\ edits(completed(Completions[following.shown])) /\ completion' = following
  <2>1. completion # NoCompletion
    <3>1. completion.matches # {}
      BY <1>4
    <3> QED BY <3>1 DEF NoCompletion
  <2>2. Completing(completion, s.text)
        /\ (~ cut /\ s.mode = "Visual" => is_char_boundary(completion.prefix, s.anchor))
    BY <2>1 DEF EditorInv
  <2>3. next_match(completion) \in completion.matches /\ next_match(completion) \in DOMAIN Completions
    <3> DEFINE behind == {i \in completion.matches : i > completion.shown}
               M == IF behind = {} THEN completion.matches ELSE behind
    <3>1. M \in SUBSET Nat /\ M # {} /\ M \subseteq completion.matches
      BY <2>2, KnownLines DEF Completing
    <3>2. next_match(completion) = Min(M)
      BY DEF next_match
    <3> HIDE DEF M
    <3>3. Min(M) \in M
      BY <3>1, LeastPlace
    <3> QED BY <2>2, <3>1, <3>2, <3>3 DEF Completing
  <2>4. /\ following \in [prefix : Strs, matches : SUBSET DOMAIN Completions, shown : DOMAIN Completions]
        /\ following.prefix = completion.prefix /\ following.matches = completion.matches
        /\ following.shown = next_match(completion)
    BY <2>2, <2>3 DEF Completing
  <2>5. completion' = following /\ edits(completed(Completions[following.shown]))
    BY <1>4
  <2> HIDE DEF following
  <2>6. Completing(following, Completions[following.shown])
    BY <2>2, <2>3, <2>4 DEF Completing
  <2> QED BY <1>3, <2>2, <2>4, <2>5, <2>6
<1>5. CASE matches # {} /\ edits(completed(Completions[fresh.shown])) /\ completion' = fresh
  <2>1. Min(matches) \in matches
    <3>1. matches \in SUBSET Nat
      BY KnownLines
    <3> HIDE DEF matches
    <3> QED BY <1>5, <3>1, LeastPlace
  <2>2. matches \in SUBSET DOMAIN Completions /\ \A i \in matches : IsPrefixOf(s.text, Completions[i])
    OBVIOUS
  <2> HIDE DEF matches
  <2>3. /\ fresh \in [prefix : Strs, matches : SUBSET DOMAIN Completions, shown : DOMAIN Completions]
        /\ fresh.prefix = s.text /\ fresh.matches = matches /\ fresh.shown = Min(matches)
    BY <2>1, <2>2, Before
  <2>4. completion' = fresh /\ edits(completed(Completions[fresh.shown]))
    BY <1>5
  <2> HIDE DEF fresh
  <2>5. Completing(fresh, Completions[fresh.shown])
    BY <2>1, <2>2, <2>3 DEF Completing
  <2>6. ~ cut /\ s.mode = "Visual" => is_char_boundary(s.text, s.anchor)
    BY Before DEF Anchored
  <2> QED BY <1>3, <2>3, <2>4, <2>5, <2>6
<1>6. CASE edits(s) /\ completion' = NoCompletion
  BY <1>1, <1>6, Before, Edited
<1> QED BY <1>2, <1>4, <1>5, <1>6

(* A new session.                                                          *)
LEMMA Begun ==
  ASSUME NEW vim, NEW d
  PROVE  Fits(new(vim), d) /\ Anchored(new(vim))
<1> DEFINE e == new(vim)
<1>1. <<>> \in Strs /\ is_char_boundary(<<>>, 0)
  BY FewBytes, Borders
<1>2. /\ e \in EditSession /\ e.text = <<>> /\ e.cursor = 0 /\ e.mode \in {"Plain", "Insert"}
      /\ e.history_index = NoIndex
  BY <1>1 DEF new, EditSession, NoAnchor
<1> HIDE DEF e
<1> QED BY <1>1, <1>2 DEF e, Fits, Anchored

LEMMA StartsOverStep ==
  ASSUME EditorInv, NEW vim, NEW ended \in {"editing", "submit", "cancel", "exit"},
         starts_over(vim, ended)
  PROVE  EditorInv'
<1>1. /\ s' = new(vim) /\ completion' = NoCompletion /\ outcome' = ended /\ yank_buffer' = yank_buffer
  BY DEF starts_over
<1>2. Fits(s', draft') /\ Anchored(s') /\ yank_buffer' \in Strs /\ outcome' # "panic"
  BY <1>1, Begun, Before
<1> QED BY <1>1, <1>2
        DEF EditorInv, Anchored, Fits, EditSession, CommandLine, is_char_boundary, Strs, Bytes, Utf8,
            NoCompletion, NoIndex, NoText

LEMMA EditorStart ==
  ASSUME EditorInit
  PROVE  EditorInv
<1>1. /\ s = new(vim_enabled) /\ completion = NoCompletion
      /\ outcome = "editing" /\ yank_buffer = <<>>
  BY DEF EditorInit
<1>2. Fits(s, draft) /\ Anchored(s) /\ yank_buffer \in Strs
  BY <1>1, Begun, FewBytes
<1> QED BY <1>1, <1>2 DEF EditorInv

LEMMA EditorMoves ==
  ASSUME EditorInv, EditorNext
  PROVE  EditorInv'
<1>1. ASSUME NEW ch \in Typed, insert_active_text(bytes(ch)) PROVE EditorInv'
  <2>1. bytes(ch) \in Strs
    BY FewBytes
  <2> QED BY <1>1, <2>1, InsertStep
<1>2. ASSUME insert_active_text(<<NL>>) PROVE EditorInv'
  <2>1. <<NL>> \in Strs
    BY ByteNames, FewBytes
  <2> QED BY <1>2, <2>1, InsertStep
<1>3. ASSUME submit_or_toggle PROVE EditorInv'
  BY <1>3, StartsOverStep DEF submit_or_toggle
<1>4. ASSUME leave PROVE EditorInv'
  BY <1>4, StartsOverStep DEF leave
<1>5. ASSUME read_line PROVE EditorInv'
  BY <1>5, StartsOverStep DEF read_line
<1> QED
  BY <1>1, <1>2, <1>3, <1>4, <1>5, ArrowStep, BackspaceStep, DeleteStep, EscapeStep, NormalStep, VisualStep,
     HistoryUpStep, HistoryDownStep, CompleteStep DEF EditorNext

LEMMA EditorIdle ==
  ASSUME EditorInv, UNCHANGED editorVars
  PROVE  EditorInv'
BY DEF EditorInv, editorVars, Anchored, Fits, EditSession, CommandLine, is_char_boundary, Strs, Bytes, Utf8,
       Completing, IsPrefixOf, NoCompletion, NoIndex, NoText

(* What the command line promises (MCLocal.CommandLineSound).  An option   *)
(* that parse_args reads never gives more than the tool profile, every     *)
(* word behind the options is part of what the program is asked to do, and *)
(* the words behind --resume are cut into commands without losing one; and *)
(* whatever keys are pressed, in every mode of the line editor, no slice   *)
(* of a line is taken inside a character, the draft comes back from the    *)
(* history, and a completion extends what was typed.                       *)
THEOREM CommandLineSafe == MCSpec => []CommandLineSound
<1> DEFINE CommandLineInv == (part = "args" => ArgsInv) /\ (part = "editor" => EditorInv)
<1>1. MCInit => CommandLineInv
  BY ArgsStart, EditorStart DEF MCInit
<1>2. CommandLineInv /\
      [MCNext]_<<part, vars, filesVars, bashVars, toolsVars, browserVars, agentVars, lspVars,
                 argsVars, editorVars, installVars, onboardVars, configVars>>
        => CommandLineInv'
  BY ArgsMoves, ArgsIdle, EditorMoves, EditorIdle DEF MCNext
<1>3. CommandLineInv => CommandLineSound
  BY ArgsHolds, EditorHolds DEF CommandLineSound
<1> QED
  BY <1>1, <1>2, <1>3, PTL DEF MCSpec

(***************************************************************************)
(* The language server client.                                             *)
(***************************************************************************)
(* What goes over the pipes, and what there is of a client.                *)
View == [version : Nat, text : Nat, wrong : BOOLEAN]
Asked ==
  [method : {"initialize", "initialized", "definition", "shutdown"}, id : Nat]
  \cup [method : {"didOpen", "didChange", "didSave", "didClose"}, id : {0}, text : Nat, version : Nat]
Answered ==
  [method : {"response"}, id : Nat, result : {"ok", "error"}]
  \cup [method : {"publishDiagnostics"}, text : Nat] \cup [method : {"garbage"}]
Server ==
  [child : {"up", "dead"}, reader : {"on", "error", "eof"}, stdin : {"open", "closed"},
   pending : SUBSET Nat, next_request_id : Nat \ {0}, open_documents : Nat, diagnostics : Nat,
   exiting : BOOLEAN, text : Nat, to_server : Seq(Asked), to_client : Seq(Answered), view : View]
CallPlaces == {"idle", "start", "initialize", "got", "version", "didOpen", "didChange", "didSave", "didClose",
           "opened", "closed", "request", "wait", "exit", "shutdown", "diagnostics"}
Operation == {"none", "open", "sync", "save", "close", "define", "diagnostics", "shutdown"}
Call == [at : CallPlaces, op : Operation, k : Nat, id : Nat, text : Nat, version : Nat,
         reply : {"none", "ok", "error"}]

(* What a server will know behind the messages that are on their way, none *)
(* of which surprises it.                                                  *)
Heard(u, q, v) ==
  \E t \in [0..Len(q) -> View] :
    /\ t[0] = u /\ t[Len(q)] = v
    /\ \A i \in 1..Len(q) : t[i] = told(t[i - 1], q[i])
    /\ \A i \in 0..Len(q) : ~ t[i].wrong

LEMMA ToldView ==
  ASSUME NEW u \in View, NEW m \in Asked
  PROVE  told(u, m) \in View
<1>1. CASE m \in [method : {"initialize", "initialized", "definition", "shutdown"}, id : Nat]
  BY <1>1 DEF told
<1>2. CASE m \in [method : {"didOpen", "didChange", "didSave", "didClose"}, id : {0}, text : Nat, version : Nat]
  <2>1. m.text \in Nat /\ m.version \in Nat /\ m.method \in {"didOpen", "didChange", "didSave", "didClose"}
    BY <1>2
  <2> QED BY <2>1 DEF told, View
<1> QED BY <1>1, <1>2 DEF Asked

LEMMA HeardNothing ==
  ASSUME NEW u \in View
  PROVE  /\ ~ u.wrong => Heard(u, <<>>, u)
         /\ \A v : Heard(u, <<>>, v) => v = u
<1>1. Len(<<>>) = 0 /\ 1..0 = {} /\ 0..0 = {0}
  OBVIOUS
<1>2. ~ u.wrong => Heard(u, <<>>, u)
  <2> SUFFICES ASSUME ~ u.wrong PROVE Heard(u, <<>>, u)
    OBVIOUS
  <2> DEFINE t == [i \in 0..0 |-> u]
  <2>1. t \in [0..0 -> View] /\ t[0] = u /\ \A i \in 0..0 : ~ t[i].wrong
    OBVIOUS
  <2> HIDE DEF t
  <2> QED BY <1>1, <2>1 DEF Heard
<1>3. \A v : Heard(u, <<>>, v) => v = u
  BY <1>1 DEF Heard
<1> QED BY <1>2, <1>3

LEMMA HeardEnds ==
  ASSUME NEW u, NEW q \in Seq(Asked), NEW v, Heard(u, q, v)
  PROVE  u \in View /\ v \in View /\ ~ u.wrong /\ ~ v.wrong
<1>1. Len(q) \in Nat /\ 0 \in 0..Len(q) /\ Len(q) \in 0..Len(q)
  OBVIOUS
<1> QED BY <1>1 DEF Heard

LEMMA HeardMore ==
  ASSUME NEW u, NEW q \in Seq(Asked), NEW v, Heard(u, q, v), NEW m \in Asked, ~ told(v, m).wrong
  PROVE  Heard(u, Append(q, m), told(v, m))
<1> DEFINE n == Len(q)
           w == told(v, m)
           p == Append(q, m)
<1>1. n \in Nat /\ Len(p) = n + 1 /\ p[n + 1] = m /\ \A i \in 1..n : p[i] = q[i]
  OBVIOUS
<1>2. PICK t \in [0..n -> View] :
        /\ t[0] = u /\ t[n] = v
        /\ \A i \in 1..n : t[i] = told(t[i - 1], q[i])
        /\ \A i \in 0..n : ~ t[i].wrong
  BY DEF Heard
<1>3. w \in View
  <2>1. v \in View
    BY HeardEnds
  <2> QED BY <2>1, ToldView
<1> DEFINE x == [i \in 0..(n + 1) |-> IF i = n + 1 THEN w ELSE t[i]]
<1>4. ~ w.wrong
  OBVIOUS
<1> HIDE DEF n, w, p
<1>5. x \in [0..(n + 1) -> View] /\ x[n + 1] = w /\ \A i \in 0..n : x[i] = t[i]
  <2>1. \A i \in 0..(n + 1) : i = n + 1 \/ i \in 0..n
    BY <1>1
  <2>2. \A i \in 0..n : i # n + 1 /\ i \in 0..(n + 1)
    BY <1>1
  <2>3. n + 1 \in 0..(n + 1)
    BY <1>1
  <2> QED BY <1>2, <1>3, <2>1, <2>2, <2>3
<1> HIDE DEF x
<1>6. x[0] = u /\ x[n] = v
  BY <1>1, <1>2, <1>5
<1>7. \A i \in 1..(n + 1) : x[i] = told(x[i - 1], p[i])
  <2> TAKE i \in 1..(n + 1)
  <2>1. CASE i = n + 1
    <3>1. i - 1 = n
      BY <1>1, <2>1
    <3> QED BY <1>1, <1>5, <1>6, <2>1, <3>1 DEF w
  <2>2. CASE i # n + 1
    <3>1. i \in 1..n /\ i \in 0..n /\ i - 1 \in 0..n
      BY <1>1, <2>2
    <3> QED BY <1>1, <1>2, <1>5, <3>1
  <2> QED BY <2>1, <2>2
<1>8. \A i \in 0..(n + 1) : ~ x[i].wrong
  <2> TAKE i \in 0..(n + 1)
  <2>1. i = n + 1 \/ i \in 0..n
    BY <1>1
  <2> QED BY <1>2, <1>4, <1>5, <2>1
<1>9. Heard(u, p, w)
  BY <1>1, <1>5, <1>6, <1>7, <1>8 DEF Heard
<1> QED BY <1>9 DEF p, w

LEMMA HeardRest ==
  ASSUME NEW u, NEW q \in Seq(Asked), NEW v, Heard(u, q, v), q # <<>>
  PROVE  Heard(told(u, Head(q)), Tail(q), v)
<1> DEFINE n == Len(q)
           p == Tail(q)
<1>1. /\ n \in Nat /\ n > 0 /\ Len(p) = n - 1 /\ Head(q) = q[1]
      /\ \A i \in 1..(n - 1) : p[i] = q[i + 1]
  OBVIOUS
<1>2. PICK t \in [0..n -> View] :
        /\ t[0] = u /\ t[n] = v
        /\ \A i \in 1..n : t[i] = told(t[i - 1], q[i])
        /\ \A i \in 0..n : ~ t[i].wrong
  BY DEF Heard
<1> HIDE DEF n, p
<1> DEFINE x == [i \in 0..(n - 1) |-> t[i + 1]]
<1>3. \A i \in 0..(n - 1) : i + 1 \in 0..n /\ i + 1 \in 1..n
  BY <1>1
<1>4. x \in [0..(n - 1) -> View] /\ \A i \in 0..(n - 1) : x[i] = t[i + 1]
  BY <1>2, <1>3
<1> HIDE DEF x
<1>5. x[0] = told(u, q[1]) /\ x[n - 1] = v
  <2>1. 0 \in 0..(n - 1) /\ n - 1 \in 0..(n - 1) /\ (n - 1) + 1 = n /\ 0 + 1 = 1 /\ 1 \in 1..n /\ 1 - 1 = 0
    BY <1>1
  <2>2. x[0] = t[1] /\ t[1] = told(t[0], q[1])
    <3>1. x[0] = t[0 + 1] /\ t[1] = told(t[1 - 1], q[1])
      BY <1>2, <1>4, <2>1
    <3> QED BY <2>1, <3>1
  <2>3. x[n - 1] = t[(n - 1) + 1]
    BY <1>4, <2>1
  <2> QED BY <1>2, <2>1, <2>2, <2>3
<1>6. \A i \in 1..(n - 1) : x[i] = told(x[i - 1], p[i])
  <2> TAKE i \in 1..(n - 1)
  <2>1. i \in 0..(n - 1) /\ i - 1 \in 0..(n - 1) /\ (i - 1) + 1 = i /\ i + 1 \in 1..n /\ (i + 1) - 1 = i
    BY <1>1
  <2>2. t[i + 1] = told(t[(i + 1) - 1], q[i + 1])
    BY <1>2, <2>1
  <2>3. x[i] = t[i + 1] /\ x[i - 1] = t[(i - 1) + 1]
    BY <1>4, <2>1
  <2> QED BY <1>1, <2>1, <2>2, <2>3
<1>7. \A i \in 0..(n - 1) : ~ x[i].wrong
  BY <1>2, <1>3, <1>4
<1>8. Heard(told(u, q[1]), p, v)
  <2>1. /\ x \in [0..Len(p) -> View]
        /\ x[0] = told(u, q[1]) /\ x[Len(p)] = v
    BY <1>1, <1>4, <1>5
  <2>2. /\ \A i \in 1..Len(p) : x[i] = told(x[i - 1], p[i])
        /\ \A i \in 0..Len(p) : ~ x[i].wrong
    BY <1>1, <1>6, <1>7
  <2> QED BY <2>1, <2>2 DEF Heard
<1> QED BY <1>1, <1>8 DEF p

(* Where a call is.  Only the holder of the lock initializes a server, and *)
(* the map is empty until it is done.                                      *)
AtClient == {"got", "initialize", "version", "didOpen", "didChange", "didSave", "didClose", "opened", "closed",
             "request", "wait", "exit"}
Waits(r) == r.at \in {"wait", "initialize"} /\ r.reply = "none"
CallFits(r, n) ==
  /\ r.at \in AtClient => r.k \in 1..n
  /\ r.op = "shutdown" => r.at \in {"shutdown", "request", "wait", "exit"}
  /\ r.at = "shutdown" => r.op = "shutdown" /\ r.k = 0
  /\ r.at = "exit" => r.op = "shutdown"
  /\ r.at \notin {"idle", "shutdown", "diagnostics"} =>
       r.op \in {"open", "sync", "save", "close", "define", "shutdown"}
  /\ r.at \in {"wait", "initialize"} => r.id # 0
LockFits ==
  /\ lock # Nobody => caller[lock].at = "initialize" /\ current = 0
  /\ \A c \in Callers : caller[c].at = "initialize" => lock = c
LspShape ==
  /\ clients \in Seq(Server)
  /\ current \in 0..Len(clients)
  /\ lock \in Callers \cup {Nobody}
  /\ caller \in [Callers -> Call]
  /\ disk \in Nat /\ overlap \in BOOLEAN
  /\ \A c \in Callers : CallFits(caller[c], Len(clients))
  /\ LockFits

(* The request of a waiting call is on its way, or its answer on the way   *)
(* back.                                                                   *)
Justified(client, id) ==
  \/ client.reader # "on"
  \/ client.child = "dead"
  \/ id \in client.pending /\ (Carries(client.to_server, id) \/ Carries(client.to_client, id))

(* The server of client k and the one call under way, r: behind what is on *)
(* the way to it the server knows what the client has noted, but for the   *)
(* two steps of an opening, a closing and a change.                        *)
Agrees(client, v) == v.version = client.open_documents /\ (v.version > 0 => v.text = client.text)
Between(r, client, v) ==
  CASE r.at = "opened" -> v.version = 1 /\ v.text = client.text
    [] r.at = "closed" -> v.version = 0
    [] r.at = "didChange" ->
         0 < v.version /\ v.version < client.open_documents /\ r.version = client.open_documents
    [] r.at \in {"version", "didClose"} -> Agrees(client, v) /\ client.open_documents > 0
    [] OTHER -> Agrees(client, v)
Knows(r, client, k, v) == IF r.k = k THEN Between(r, client, v) ELSE Agrees(client, v)
Followed(r, client, k) ==
  /\ ~ client.view.wrong
  /\ client.child = "up" => \E v : Heard(client.view, client.to_server, v) /\ Knows(r, client, k, v)
Working(r) ==
  \/ r = IdleCaller /\ \A c \in Callers : caller[c].at = "idle"
  \/ \E c \in Callers : r = caller[c] /\ r.at # "idle" /\ \A d \in Callers \ {c} : caller[d].at = "idle"
Follows == ~ overlap => \E r : Working(r) /\ \A k \in 1..Len(clients) : Followed(r, clients[k], k)

LspInv == LspShape /\ OneServer /\ WaitIsJustified /\ Follows

LEMMA ServerAt ==
  ASSUME clients \in Seq(Server), NEW k \in 1..Len(clients)
  PROVE  /\ clients[k] \in Server
         /\ clients[k].view \in View
         /\ clients[k].to_server \in Seq(Asked)
         /\ clients[k].to_client \in Seq(Answered)
<1>1. clients[k] \in Server
  OBVIOUS
<1> QED BY <1>1 DEF Server

LEMMA LspHolds ==
  ASSUME LspInv
  PROVE  LspSound
<1>1. ServerFollows
  <2> SUFFICES ASSUME ~ overlap, NEW k \in DOMAIN clients
               PROVE  LET view == clients[k].view IN
                      /\ ~ view.wrong
                      /\ BusyCallers = {} /\ clients[k].child = "up" /\ clients[k].to_server = <<>> =>
                           /\ view.version = clients[k].open_documents
                           /\ view.version > 0 => view.text = clients[k].text
    BY DEF ServerFollows
  <2>1. k \in 1..Len(clients) /\ clients[k].view \in View
    <3>1. clients \in Seq(Server)
      BY DEF LspInv, LspShape
    <3>2. k \in 1..Len(clients)
      BY <3>1
    <3> QED BY <3>1, <3>2, ServerAt
  <2>2. PICK r : Working(r) /\ \A i \in 1..Len(clients) : Followed(r, clients[i], i)
    BY DEF LspInv, Follows
  <2>3. Followed(r, clients[k], k)
    BY <2>1, <2>2
  <2>4. ASSUME BusyCallers = {}, clients[k].child = "up", clients[k].to_server = <<>>
        PROVE  Agrees(clients[k], clients[k].view)
    <3>1. r = IdleCaller
      BY <2>2, <2>4 DEF Working, BusyCallers
    <3>2. r.at = "idle"
      BY <3>1 DEF IdleCaller
    <3>3. PICK v : Heard(clients[k].view, <<>>, v) /\ Knows(r, clients[k], k, v)
      BY <2>3, <2>4 DEF Followed
    <3>4. v = clients[k].view
      BY <2>1, <3>3, HeardNothing
    <3>5. Agrees(clients[k], v)
      BY <3>2, <3>3 DEF Knows, Between
    <3> QED BY <3>4, <3>5
  <2> QED BY <2>3, <2>4 DEF Followed, Agrees
<1> QED BY <1>1 DEF LspSound, LspInv

LEMMA LspStart ==
  ASSUME LspInit
  PROVE  LspInv
<1>1. Len(clients) = 0 /\ clients \in Seq(Server) /\ DOMAIN clients = {} /\ 1..0 = {}
  BY DEF LspInit
<1>2. IdleCaller \in Call
  BY DEF IdleCaller, Call, CallPlaces, Operation
<1>3. LspShape
  <2>1. \A c \in Callers : CallFits(caller[c], Len(clients))
    BY DEF LspInit, CallFits, IdleCaller, AtClient
  <2>2. LockFits
    BY DEF LspInit, LockFits, IdleCaller
  <2>3. caller \in [Callers -> Call] /\ current \in 0..Len(clients)
    BY <1>1, <1>2 DEF LspInit
  <2> QED BY <1>1, <2>1, <2>2, <2>3 DEF LspInit, LspShape
<1>4. OneServer /\ WaitIsJustified
  BY <1>1 DEF LspInit, OneServer, WaitIsJustified, IdleCaller
<1>5. Working(IdleCaller)
  BY DEF LspInit, Working, IdleCaller
<1>6. Follows
  BY <1>1, <1>5 DEF Follows
<1> QED BY <1>3, <1>4, <1>6 DEF LspInv

(* A step of call c, and what it leaves of the other calls and of a client.*)
Moves(c) == caller' \in [Callers -> Call] /\ \A d \in Callers \ {c} : caller'[d] = caller[d]
ClientKeeps(client, newer) ==
  /\ newer.child = "up" => client.child = "up"
  /\ client.stdin = "closed" => newer.stdin = "closed"
  /\ client.exiting => newer.exiting
  /\ \A id \in Nat \ {0} : Justified(client, id) => Justified(newer, id)
Calm(r) == r.at \notin {"opened", "closed", "didChange", "version", "didClose"}

LEMMA CalmFollowed ==
  ASSUME NEW r, NEW x, NEW client, NEW k, Calm(r), Calm(x), Followed(r, client, k)
  PROVE  Followed(x, client, k)
BY DEF Followed, Knows, Between, Calm

LEMMA GoesTo ==
  ASSUME caller \in [Callers -> Call], NEW c \in Callers, NEW r \in Call, caller' = [caller EXCEPT ![c] = r]
  PROVE  Moves(c) /\ caller'[c] = r
BY DEF Moves

LEMMA Placing ==
  ASSUME clients \in Seq(Server), NEW k \in 1..Len(clients), NEW client \in Server,
         clients' = [clients EXCEPT ![k] = client]
  PROVE  /\ clients' \in Seq(Server) /\ Len(clients') = Len(clients) /\ clients'[k] = client
         /\ \A j \in 1..Len(clients) : j # k => clients'[j] = clients[j]
OBVIOUS

LEMMA KeepsItself ==
  ASSUME NEW client
  PROVE  ClientKeeps(client, client)
BY DEF ClientKeeps

LEMMA ShapeMoves ==
  ASSUME LspInv, NEW c \in Callers, Moves(c), clients' \in Seq(Server), Len(clients') >= Len(clients),
         lock' = lock, current' \in 0..Len(clients'), lock # Nobody => current' = 0,
         disk' \in Nat, overlap' \in BOOLEAN, CallFits(caller'[c], Len(clients')),
         caller[c].at # "initialize", caller'[c].at # "initialize"
  PROVE  LspShape'
<1>1. LspShape
  BY DEF LspInv
<1>2. \A d \in Callers : CallFits(caller'[d], Len(clients'))
  <2> SUFFICES ASSUME NEW d \in Callers, d # c PROVE CallFits(caller'[d], Len(clients'))
    OBVIOUS
  <2>1. caller'[d] = caller[d] /\ caller[d] \in Call /\ CallFits(caller[d], Len(clients))
    BY <1>1 DEF Moves, LspShape
  <2>2. Len(clients) \in Nat /\ Len(clients') \in Nat /\ caller[d].k \in Nat
    <3>1. caller[d].k \in Nat
      BY <2>1 DEF Call
    <3> QED BY <1>1, <3>1 DEF LspShape
  <2> QED BY <2>1, <2>2 DEF CallFits
<1>3. LockFits'
  <2>1. lock # c
    <3>1. Nobody # c
      BY LspAssumption
    <3> QED BY <1>1, <3>1 DEF LspShape, LockFits
  <2>2. lock # Nobody => caller'[lock].at = "initialize" /\ current' = 0
    BY <1>1, <2>1 DEF LspShape, LockFits, Moves
  <2>3. \A d \in Callers : caller'[d].at = "initialize" => lock = d
    BY <1>1 DEF LspShape, LockFits, Moves
  <2> QED BY <2>2, <2>3 DEF LockFits
<1>4. caller' \in [Callers -> Call]
  BY DEF Moves
<1>5. lock' \in Callers \cup {Nobody}
  BY <1>1 DEF LspShape
<1> QED BY <1>2, <1>3, <1>4, <1>5 DEF LspShape

LEMMA FollowsMoves ==
  ASSUME LspInv, NEW c \in Callers, Moves(c), caller[c].at # "idle", overlap' = overlap,
         caller'[c].at = "idle" => caller'[c] = IdleCaller,
         \A k \in 1..Len(clients') :
           (k \in 1..Len(clients) => Followed(caller[c], clients[k], k)) => Followed(caller'[c], clients'[k], k)
  PROVE  Follows'
<1> SUFFICES ASSUME ~ overlap
             PROVE  \E r : Working(r)' /\ \A k \in 1..Len(clients') : Followed(r, clients'[k], k)
  BY DEF Follows
<1>1. PICK r : Working(r) /\ \A k \in 1..Len(clients) : Followed(r, clients[k], k)
  BY DEF LspInv, Follows
<1>2. r = caller[c] /\ \A d \in Callers \ {c} : caller[d].at = "idle"
  BY <1>1 DEF Working
<1>3. \A k \in 1..Len(clients') : Followed(caller'[c], clients'[k], k)
  BY <1>1, <1>2
<1>4. \A d \in Callers \ {c} : caller'[d].at = "idle"
  BY <1>2 DEF Moves
<1>5. PICK x : x = caller'[c]
  OBVIOUS
<1>6. Working(x)'
  <2>1. CASE x.at = "idle"
    BY <1>4, <1>5, <2>1 DEF Working
  <2>2. CASE x.at # "idle"
    BY <1>4, <1>5, <2>2 DEF Working
  <2> QED BY <2>1, <2>2
<1> QED BY <1>3, <1>5, <1>6

(* What waits, said of the client it waits for.                            *)
LEMMA WaitsJustified ==
  ASSUME LspInv, NEW c \in Callers, Waits(caller[c])
  PROVE  caller[c].k \in 1..Len(clients) /\ Justified(clients[caller[c].k], caller[c].id)
<1>1. Justified(clients[caller[c].k], caller[c].id)
  BY DEF LspInv, WaitIsJustified, Waits, Justified, me
<1>2. caller[c].k \in 1..Len(clients)
  BY DEF LspInv, LspShape, CallFits, Waits, AtClient
<1> QED BY <1>1, <1>2

LEMMA WaitsMoves ==
  ASSUME \A d \in Callers : Waits(caller'[d]) => Justified(clients'[caller'[d].k], caller'[d].id)
  PROVE  WaitIsJustified'
BY DEF WaitIsJustified, Waits, Justified, me

(* A step of a call that is not about the map and its lock.                *)
LEMMA CallerStep ==
  ASSUME LspInv, NEW c \in Callers, Moves(c), clients' \in Seq(Server), Len(clients') = Len(clients),
         UNCHANGED <<current, lock, disk, overlap>>,
         \A k \in 1..Len(clients) : ClientKeeps(clients[k], clients'[k]),
         CallFits(caller'[c], Len(clients)),
         caller[c].at \notin {"idle", "initialize"}, caller'[c].at # "initialize",
         caller'[c].at = "idle" => caller'[c] = IdleCaller,
         caller[c].op = "shutdown" /\ caller[c].k \in 1..Len(clients) /\ clients'[caller[c].k].child = "up" =>
           caller'[c].op = "shutdown" /\ caller'[c].k = caller[c].k,
         Waits(caller'[c]) => Justified(clients'[caller'[c].k], caller'[c].id),
         \A k \in 1..Len(clients) :
           Followed(caller[c], clients[k], k) => Followed(caller'[c], clients'[k], k)
  PROVE  LspInv'
<1>1. LspShape
  BY DEF LspInv
<1>2. LspShape'
  <2>1. Len(clients') >= Len(clients) /\ current' \in 0..Len(clients')
    BY <1>1 DEF LspShape
  <2>2. (lock # Nobody => current' = 0) /\ disk' \in Nat /\ overlap' \in BOOLEAN /\ lock' = lock
    BY <1>1 DEF LspShape, LockFits
  <2>3. CallFits(caller'[c], Len(clients'))
    OBVIOUS
  <2>4. caller[c].at # "initialize"
    OBVIOUS
  <2> QED BY <2>1, <2>2, <2>3, <2>4, ShapeMoves
<1>3. Follows'
  <2>1. \A k \in 1..Len(clients') :
          (k \in 1..Len(clients) => Followed(caller[c], clients[k], k)) => Followed(caller'[c], clients'[k], k)
    OBVIOUS
  <2>2. overlap' = overlap /\ caller[c].at # "idle"
    OBVIOUS
  <2> QED BY <2>1, <2>2, FollowsMoves
<1>4. WaitIsJustified'
  <2>1. ASSUME NEW d \in Callers, Waits(caller'[d])
        PROVE  Justified(clients'[caller'[d].k], caller'[d].id)
    <3>1. CASE d = c
      BY <2>1, <3>1
    <3>2. CASE d # c
      <4>1. caller'[d] = caller[d]
        BY <3>2 DEF Moves
      <4>2. caller[d].k \in 1..Len(clients) /\ Justified(clients[caller[d].k], caller[d].id)
        BY <2>1, <4>1, WaitsJustified
      <4>3. caller[d].id \in Nat \ {0}
        BY <1>1, <2>1, <4>1 DEF LspShape, CallFits, Waits, Call
      <4>4. ClientKeeps(clients[caller[d].k], clients'[caller[d].k])
        BY <4>2
      <4> QED BY <4>1, <4>2, <4>3, <4>4 DEF ClientKeeps
    <3> QED BY <3>1, <3>2
  <2> QED BY <2>1, WaitsMoves
<1>5. OneServer'
  <2> SUFFICES ASSUME NEW k \in DOMAIN clients', clients'[k].child = "up", k # current'
               PROVE  \/ clients'[k].stdin = "closed"
                      \/ lock' # Nobody /\ caller'[lock'].k = k
                      \/ clients'[k].exiting /\ \E d \in Callers : caller'[d].op = "shutdown" /\ caller'[d].k = k
    BY DEF OneServer
  <2>1. k \in 1..Len(clients) /\ k \in DOMAIN clients /\ ClientKeeps(clients[k], clients'[k])
    BY <1>1 DEF LspShape
  <2>2. \/ clients[k].stdin = "closed"
        \/ lock # Nobody /\ caller[lock].k = k
        \/ clients[k].exiting /\ \E d \in Callers : caller[d].op = "shutdown" /\ caller[d].k = k
    <3>1. clients[k].child = "up" /\ k # current
      BY <2>1 DEF ClientKeeps
    <3> QED BY <2>1, <3>1 DEF LspInv, OneServer
  <2>3. CASE clients[k].stdin = "closed"
    BY <2>1, <2>3 DEF ClientKeeps
  <2>4. CASE lock # Nobody /\ caller[lock].k = k
    <3>1. lock \in Callers \ {c}
      BY <1>1, <2>4 DEF LspShape, LockFits
    <3>2. caller'[lock] = caller[lock]
      BY <3>1 DEF Moves
    <3> QED BY <2>4, <3>2
  <2>5. ASSUME clients[k].exiting, NEW d \in Callers, caller[d].op = "shutdown", caller[d].k = k
        PROVE  clients'[k].exiting /\ caller'[d].op = "shutdown" /\ caller'[d].k = k
    <3>1. clients'[k].exiting
      BY <2>1, <2>5 DEF ClientKeeps
    <3>2. CASE d = c
      BY <2>1, <2>5, <3>1, <3>2
    <3>3. CASE d # c
      BY <2>5, <3>1, <3>3 DEF Moves
    <3> QED BY <3>2, <3>3
  <2> QED BY <2>2, <2>3, <2>4, <2>5
<1> QED BY <1>2, <1>3, <1>4, <1>5 DEF LspInv

(* A step that looks at the clients and changes none.                      *)
LEMMA LookStep ==
  ASSUME LspInv, NEW c \in Callers, Moves(c), UNCHANGED <<clients, current, lock, disk, overlap>>,
         CallFits(caller'[c], Len(clients)),
         caller[c].at \notin {"idle", "initialize"}, caller'[c].at # "initialize",
         caller'[c].at = "idle" => caller'[c] = IdleCaller,
         caller[c].op = "shutdown" /\ caller[c].k \in 1..Len(clients) =>
           caller'[c].op = "shutdown" /\ caller'[c].k = caller[c].k,
         ~ Waits(caller'[c]),
         \A k \in 1..Len(clients) :
           Followed(caller[c], clients[k], k) => Followed(caller'[c], clients[k], k)
  PROVE  LspInv'
<1>1. clients' \in Seq(Server) /\ Len(clients') = Len(clients)
  BY DEF LspInv, LspShape
<1>2. \A k \in 1..Len(clients) : ClientKeeps(clients[k], clients'[k])
  BY KeepsItself
<1>3. \A k \in 1..Len(clients) :
        Followed(caller[c], clients[k], k) => Followed(caller'[c], clients'[k], k)
  OBVIOUS
<1>4. Waits(caller'[c]) => Justified(clients'[caller'[c].k], caller'[c].id)
  OBVIOUS
<1>5. caller[c].op = "shutdown" /\ caller[c].k \in 1..Len(clients) /\ clients'[caller[c].k].child = "up" =>
        caller'[c].op = "shutdown" /\ caller'[c].k = caller[c].k
  OBVIOUS
<1> QED BY <1>1, <1>2, <1>3, <1>4, <1>5, CallerStep

(* A step after which the call is done, or goes on with the save of a sync.*)
LEMMA CallAt ==
  ASSUME LspInv, NEW c \in Callers
  PROVE  caller[c] \in Call /\ CallFits(caller[c], Len(clients)) /\ IdleCaller \in Call
<1>1. IdleCaller \in Call
  BY DEF IdleCaller, Call, CallPlaces, Operation
<1> QED BY <1>1 DEF LspInv, LspShape

CallerEnds(c) == caller'[c] = IdleCaller \/ (caller[c].op = "sync" /\ caller'[c] = [caller[c] EXCEPT !.op = "save", !.at = "start"])
LEMMA Ending ==
  ASSUME LspInv, NEW c \in Callers, finish(c) \/ fail(c)
  PROVE  /\ Moves(c) /\ CallerEnds(c)
         /\ CallFits(caller'[c], Len(clients)) /\ Calm(caller'[c])
         /\ caller'[c].at # "initialize" /\ ~ Waits(caller'[c])
         /\ caller'[c].at = "idle" => caller'[c] = IdleCaller
         /\ caller[c].op = "shutdown" => caller'[c] = IdleCaller
<1>1. caller[c] \in Call /\ IdleCaller \in Call /\ caller \in [Callers -> Call]
  BY CallAt DEF LspInv, LspShape
<1>2. next_of(caller[c]) \in Call
  <2>1. CASE caller[c].op = "sync"
    <3>1. [caller[c] EXCEPT !.op = "save", !.at = "start"] \in Call
      BY <1>1 DEF Call, CallPlaces, Operation
    <3> QED BY <2>1, <3>1 DEF next_of
  <2>2. CASE caller[c].op # "sync"
    BY <1>1, <2>2 DEF next_of
  <2> QED BY <2>1, <2>2
<1>3. Moves(c) /\ CallerEnds(c)
  <2>1. CASE finish(c)
    <3>1. Moves(c) /\ caller'[c] = next_of(caller[c])
      BY <1>1, <1>2, <2>1, GoesTo DEF finish, goes
    <3> QED BY <3>1 DEF next_of, CallerEnds
  <2>2. CASE fail(c)
    <3>1. Moves(c) /\ caller'[c] = IdleCaller
      BY <1>1, <2>2, GoesTo DEF fail, goes
    <3> QED BY <3>1 DEF CallerEnds
  <2> QED BY <2>1, <2>2
<1>4. CASE caller'[c] = IdleCaller
  BY <1>3, <1>4 DEF CallFits, Calm, Waits, IdleCaller, AtClient
<1>5. CASE caller[c].op = "sync" /\ caller'[c] = [caller[c] EXCEPT !.op = "save", !.at = "start"]
  <2>1. caller'[c].at = "start" /\ caller'[c].op = "save" /\ caller[c].op = "sync"
    BY <1>1, <1>5 DEF Call
  <2> QED BY <1>3, <2>1 DEF CallFits, Calm, Waits, AtClient
<1> QED BY <1>3, <1>4, <1>5 DEF CallerEnds

LEMMA SpawnStep ==
  ASSUME LspInv, NEW c \in Callers, spawn_fails(c)
  PROVE  LspInv'
<1>1. /\ caller[c].at = "start" /\ fail(c)
      /\ UNCHANGED <<clients, current, lock, disk, overlap>>
  BY DEF spawn_fails
<1>2. /\ Moves(c) /\ CallFits(caller'[c], Len(clients)) /\ Calm(caller'[c])
      /\ caller'[c].at # "initialize" /\ ~ Waits(caller'[c])
      /\ caller'[c].at = "idle" => caller'[c] = IdleCaller
  BY <1>1, Ending
<1>3. caller[c].op # "shutdown" /\ Calm(caller[c])
  BY <1>1, CallAt DEF CallFits, Calm
<1>4. \A k \in 1..Len(clients) :
        Followed(caller[c], clients[k], k) => Followed(caller'[c], clients[k], k)
  BY <1>2, <1>3, CalmFollowed
<1> QED BY <1>1, <1>2, <1>3, <1>4, LookStep

LEMMA DiagnosticsStep ==
  ASSUME LspInv, NEW c \in Callers, collect_workspace_diagnostics(c)
  PROVE  LspInv'
<1>1. /\ caller[c].at = "diagnostics" /\ finish(c)
      /\ UNCHANGED <<clients, current, lock, disk, overlap>>
  BY DEF collect_workspace_diagnostics
<1>2. /\ Moves(c) /\ CallFits(caller'[c], Len(clients)) /\ Calm(caller'[c])
      /\ caller'[c].at # "initialize" /\ ~ Waits(caller'[c])
      /\ caller'[c].at = "idle" => caller'[c] = IdleCaller
  BY <1>1, Ending
<1>3. caller[c].op # "shutdown" /\ Calm(caller[c])
  BY <1>1, CallAt DEF CallFits, Calm
<1>4. \A k \in 1..Len(clients) :
        Followed(caller[c], clients[k], k) => Followed(caller'[c], clients[k], k)
  BY <1>2, <1>3, CalmFollowed
<1> QED BY <1>1, <1>2, <1>3, <1>4, LookStep

LEMMA GoingTo ==
  ASSUME LspInv, NEW c \in Callers, NEW place \in CallPlaces, goes_to(c, place)
  PROVE  /\ Moves(c)
         /\ caller'[c].at = place
         /\ caller'[c].op = caller[c].op /\ caller'[c].k = caller[c].k /\ caller'[c].id = caller[c].id
         /\ caller'[c].text = caller[c].text /\ caller'[c].version = caller[c].version
         /\ caller'[c].reply = caller[c].reply
<1>1. caller[c] \in Call /\ caller \in [Callers -> Call]
  BY CallAt DEF LspInv, LspShape
<1>2. [caller[c] EXCEPT !.at = place] \in Call
  BY <1>1 DEF Call
<1>3. Moves(c) /\ caller'[c] = [caller[c] EXCEPT !.at = place]
  BY <1>1, <1>2, GoesTo DEF goes_to, goes
<1> QED BY <1>1, <1>3 DEF Call

LEMMA ReceiveStep ==
  ASSUME LspInv, NEW c \in Callers, receive(c)
  PROVE  LspInv'
<1>1. /\ caller[c].at = "wait" /\ caller[c].reply # "none"
      /\ UNCHANGED <<clients, current, lock, disk, overlap>>
      /\ IF caller[c].op = "shutdown" THEN goes_to(c, "exit") ELSE finish(c)
  BY DEF receive
<1>2. Calm(caller[c]) /\ CallFits(caller[c], Len(clients))
  BY <1>1, CallAt DEF Calm
<1>3. /\ Moves(c) /\ CallFits(caller'[c], Len(clients)) /\ Calm(caller'[c])
      /\ caller'[c].at # "initialize" /\ ~ Waits(caller'[c])
      /\ caller'[c].at = "idle" => caller'[c] = IdleCaller
      /\ caller[c].op = "shutdown" => caller'[c].op = "shutdown" /\ caller'[c].k = caller[c].k
  <2>1. CASE caller[c].op = "shutdown"
    <3>1. goes_to(c, "exit") /\ "exit" \in CallPlaces
      BY <1>1, <2>1 DEF CallPlaces
    <3>2. /\ Moves(c) /\ caller'[c].at = "exit"
          /\ caller'[c].op = caller[c].op /\ caller'[c].k = caller[c].k /\ caller'[c].id = caller[c].id
      BY <3>1, GoingTo
    <3> QED BY <1>1, <1>2, <2>1, <3>2 DEF CallFits, Calm, Waits, AtClient
  <2>2. CASE caller[c].op # "shutdown"
    BY <1>1, <2>2, Ending
  <2> QED BY <2>1, <2>2
<1>4. \A k \in 1..Len(clients) :
        Followed(caller[c], clients[k], k) => Followed(caller'[c], clients[k], k)
  BY <1>2, <1>3, CalmFollowed
<1>5. caller[c].at \notin {"idle", "initialize"}
  BY <1>1
<1> QED BY <1>1, <1>3, <1>4, <1>5, LookStep

LEMMA OpenStep ==
  ASSUME LspInv, NEW c \in Callers, is_document_open(c)
  PROVE  LspInv'
<1> DEFINE open == me(c).open_documents > 0
<1>1. /\ caller[c].at = "got" /\ UNCHANGED <<clients, current, lock, disk, overlap>>
      /\ CASE caller[c].op = "open" -> goes_to(c, "didOpen")
           [] caller[c].op = "sync" -> goes_to(c, IF open THEN "version" ELSE "didOpen")
           [] caller[c].op = "save" -> IF open THEN goes_to(c, "didSave") ELSE finish(c)
           [] caller[c].op = "close" -> IF open THEN goes_to(c, "didClose") ELSE finish(c)
           [] caller[c].op = "define" ->
                IF open THEN goes_to(c, "request")
                ELSE goes(c, [caller[c] EXCEPT !.at = "didOpen", !.text = disk])
  BY DEF is_document_open
<1>2. /\ Calm(caller[c]) /\ caller[c].at \notin {"idle", "initialize"}
      /\ caller[c] \in Call /\ CallFits(caller[c], Len(clients)) /\ caller[c].op # "shutdown"
      /\ caller[c].k \in 1..Len(clients) /\ caller[c].at = "got"
  BY <1>1, CallAt DEF Calm, CallFits, AtClient
<1> HIDE DEF open
<1> DEFINE Now == /\ Moves(c) /\ CallFits(caller'[c], Len(clients))
                  /\ caller'[c].at # "initialize" /\ ~ Waits(caller'[c])
                  /\ caller'[c].at = "idle" => caller'[c] = IdleCaller
           Along == Calm(caller'[c]) \/ (open /\ caller'[c].k = caller[c].k /\ caller'[c].at \in {"version", "didClose"})
<1>3. ASSUME NEW place \in {"didOpen", "didSave", "request", "version", "didClose"}, goes_to(c, place),
             place \in {"version", "didClose"} => open
      PROVE  Now /\ Along
  <2>1. place \in CallPlaces
    BY DEF CallPlaces
  <2>2. /\ Moves(c) /\ caller'[c].at = place
        /\ caller'[c].op = caller[c].op /\ caller'[c].k = caller[c].k /\ caller'[c].id = caller[c].id
    BY <1>3, <2>1, GoingTo
  <2> QED BY <1>2, <1>3, <2>2 DEF CallFits, Calm, Waits, AtClient
<1>4. ASSUME finish(c) PROVE Now /\ Along
  BY <1>4, Ending
<1>5. ASSUME goes(c, [caller[c] EXCEPT !.at = "didOpen", !.text = disk]) PROVE Now /\ Along
  <2>1. disk \in Nat /\ caller \in [Callers -> Call]
    BY DEF LspInv, LspShape
  <2>2. [caller[c] EXCEPT !.at = "didOpen", !.text = disk] \in Call
    BY <1>2, <2>1 DEF Call, CallPlaces
  <2>3. Moves(c) /\ caller'[c] = [caller[c] EXCEPT !.at = "didOpen", !.text = disk]
    BY <1>5, <2>1, <2>2, GoesTo DEF goes
  <2>4. /\ caller'[c].at = "didOpen" /\ caller'[c].op = caller[c].op /\ caller'[c].k = caller[c].k
        /\ caller'[c].id = caller[c].id
    BY <1>2, <2>3 DEF Call
  <2> QED BY <1>2, <2>3, <2>4 DEF CallFits, Calm, Waits, AtClient
<1>6. Now /\ Along
  <2>1. caller[c].op \in {"open", "sync", "save", "close", "define"}
    BY <1>1, <1>2 DEF CallFits
  <2> HIDE DEF Now, Along
  <2>2. CASE caller[c].op = "open"
    BY <1>1, <1>3, <2>2
  <2>3. CASE caller[c].op = "sync"
    BY <1>1, <1>3, <2>3
  <2>4. CASE caller[c].op = "save"
    BY <1>1, <1>3, <1>4, <2>4
  <2>5. CASE caller[c].op = "close"
    BY <1>1, <1>3, <1>4, <2>5
  <2>6. CASE caller[c].op = "define"
    BY <1>1, <1>3, <1>5, <2>6
  <2> QED BY <2>1, <2>2, <2>3, <2>4, <2>5, <2>6
<1>7. \A k \in 1..Len(clients) :
        Followed(caller[c], clients[k], k) => Followed(caller'[c], clients[k], k)
  <2>1. CASE Calm(caller'[c])
    BY <1>2, <2>1, CalmFollowed
  <2>2. CASE open /\ caller'[c].k = caller[c].k /\ caller'[c].at \in {"version", "didClose"}
    <3> SUFFICES ASSUME NEW k \in 1..Len(clients), Followed(caller[c], clients[k], k)
                 PROVE  Followed(caller'[c], clients[k], k)
      OBVIOUS
    <3>1. ASSUME NEW v, Knows(caller[c], clients[k], k, v)
          PROVE  Knows(caller'[c], clients[k], k, v)
      <4>1. CASE caller'[c].k = k
        <5>1. Agrees(clients[k], v) /\ clients[k].open_documents > 0
          BY <1>2, <2>2, <3>1, <4>1 DEF Knows, Between, Calm, open, me
        <5> QED BY <2>2, <4>1, <5>1 DEF Knows, Between
      <4>2. CASE caller'[c].k # k
        BY <2>2, <3>1, <4>2 DEF Knows
      <4> QED BY <4>1, <4>2
    <3> QED BY <3>1 DEF Followed
  <2> QED BY <1>6, <2>1, <2>2
<1> HIDE DEF Along
<1> QED BY <1>1, <1>2, <1>6, <1>7, LookStep

LEMMA CarriesMore ==
  ASSUME NEW S, NEW pipe \in Seq(S), NEW m \in S
  PROVE  /\ \A id : Carries(pipe, id) => Carries(Append(pipe, m), id)
         /\ m.method \notin {"garbage", "publishDiagnostics"} => Carries(Append(pipe, m), m.id)
<1>1. /\ \A i \in DOMAIN pipe : i \in DOMAIN Append(pipe, m) /\ Append(pipe, m)[i] = pipe[i]
      /\ Len(pipe) + 1 \in DOMAIN Append(pipe, m) /\ Append(pipe, m)[Len(pipe) + 1] = m
  OBVIOUS
<1>2. ASSUME NEW id, Carries(pipe, id) PROVE Carries(Append(pipe, m), id)
  BY <1>1, <1>2 DEF Carries
<1>3. ASSUME m.method \notin {"garbage", "publishDiagnostics"} PROVE Carries(Append(pipe, m), m.id)
  BY <1>1, <1>3 DEF Carries
<1> QED BY <1>2, <1>3

LEMMA KeepsMore ==
  ASSUME NEW client, NEW newer, NEW m \in Asked, client.to_server \in Seq(Asked),
         newer.child = client.child, newer.reader = client.reader, newer.stdin = client.stdin,
         newer.exiting = client.exiting, client.pending \subseteq newer.pending,
         newer.to_client = client.to_client,
         newer.to_server \in {client.to_server, Append(client.to_server, m)}
  PROVE  ClientKeeps(client, newer)
<1>1. \A id : Carries(client.to_server, id) => Carries(newer.to_server, id)
  BY CarriesMore
<1>2. \A id \in Nat \ {0} : Justified(client, id) => Justified(newer, id)
  <2> HIDE DEF Carries
  <2> QED BY <1>1 DEF Justified
<1> QED BY <1>2 DEF ClientKeeps

(* One more message on the way to the server.                              *)
LEMMA FollowedMore ==
  ASSUME NEW r, NEW x, NEW client, NEW newer, NEW k, NEW m \in Asked,
         Followed(r, client, k), client.to_server \in Seq(Asked),
         newer.child = client.child, newer.view = client.view,
         newer.to_server = Append(client.to_server, m),
         \A v \in View : ~ v.wrong /\ Knows(r, client, k, v) =>
            ~ told(v, m).wrong /\ Knows(x, newer, k, told(v, m))
  PROVE  Followed(x, newer, k)
<1>1. ASSUME newer.child = "up"
      PROVE  \E v : Heard(newer.view, newer.to_server, v) /\ Knows(x, newer, k, v)
  <2>1. PICK v : Heard(client.view, client.to_server, v) /\ Knows(r, client, k, v)
    BY <1>1 DEF Followed
  <2>2. v \in View /\ ~ v.wrong
    BY <2>1, HeardEnds
  <2>3. ~ told(v, m).wrong /\ Knows(x, newer, k, told(v, m))
    BY <2>1, <2>2
  <2>4. Heard(client.view, Append(client.to_server, m), told(v, m))
    BY <2>1, <2>3, HeardMore
  <2> QED BY <2>3, <2>4
<1> QED BY <1>1 DEF Followed

(* A step of a call that changes its client.                               *)
LEMMA PutStep ==
  ASSUME LspInv, NEW c \in Callers, Moves(c), caller[c].k \in 1..Len(clients), NEW client \in Server,
         clients' = [clients EXCEPT ![caller[c].k] = client],
         UNCHANGED <<current, lock, disk, overlap>>,
         ClientKeeps(clients[caller[c].k], client),
         CallFits(caller'[c], Len(clients)),
         caller[c].at \notin {"idle", "initialize"}, caller'[c].at # "initialize",
         caller'[c].at = "idle" => caller'[c] = IdleCaller,
         caller[c].op = "shutdown" /\ client.child = "up" =>
           caller'[c].op = "shutdown" /\ caller'[c].k = caller[c].k,
         Waits(caller'[c]) => caller'[c].k = caller[c].k /\ Justified(client, caller'[c].id),
         caller'[c].k = caller[c].k \/ Calm(caller'[c]),
         Followed(caller[c], clients[caller[c].k], caller[c].k) => Followed(caller'[c], client, caller[c].k)
  PROVE  LspInv'
<1>1. /\ clients' \in Seq(Server) /\ Len(clients') = Len(clients) /\ clients'[caller[c].k] = client
      /\ \A j \in 1..Len(clients) : j # caller[c].k => clients'[j] = clients[j]
  <2>1. clients \in Seq(Server)
    BY DEF LspInv, LspShape
  <2> QED BY <2>1, Placing
<1>2. \A j \in 1..Len(clients) : ClientKeeps(clients[j], clients'[j])
  BY <1>1, KeepsItself
<1>3. \A j \in 1..Len(clients) :
        Followed(caller[c], clients[j], j) => Followed(caller'[c], clients'[j], j)
  <2> SUFFICES ASSUME NEW j \in 1..Len(clients), j # caller[c].k, Followed(caller[c], clients[j], j)
               PROVE  Followed(caller'[c], clients[j], j)
    BY <1>1
  <2> QED BY DEF Followed, Knows, Between, Calm
<1>4. Waits(caller'[c]) => Justified(clients'[caller'[c].k], caller'[c].id)
  BY <1>1
<1>5. caller[c].op = "shutdown" /\ caller[c].k \in 1..Len(clients) /\ clients'[caller[c].k].child = "up" =>
        caller'[c].op = "shutdown" /\ caller'[c].k = caller[c].k
  BY <1>1
<1>6. clients' \in Seq(Server) /\ Len(clients') = Len(clients)
  BY <1>1
<1> QED BY <1>2, <1>3, <1>4, <1>5, <1>6, CallerStep

(* The client of a call.                                                   *)
LEMMA MyClient ==
  ASSUME LspInv, NEW c \in Callers, caller[c].at \in AtClient
  PROVE  /\ caller[c].k \in 1..Len(clients)
         /\ me(c) = clients[caller[c].k] /\ me(c) \in Server
         /\ me(c).view \in View /\ me(c).to_server \in Seq(Asked) /\ me(c).to_client \in Seq(Answered)
         /\ me(c).open_documents \in Nat /\ me(c).next_request_id \in Nat \ {0} /\ me(c).pending \subseteq Nat
<1>1. caller[c].k \in 1..Len(clients) /\ clients \in Seq(Server)
  BY DEF LspInv, LspShape, CallFits
<1>2. me(c) = clients[caller[c].k] /\ me(c) \in Server
  BY <1>1 DEF me
<1> QED BY <1>1, <1>2 DEF Server

(* A client of which some fields change.                                   *)
LEMMA Noted ==
  ASSUME NEW client \in Server, NEW n \in Nat
  PROVE  LET newer == [client EXCEPT !.open_documents = n] IN
         /\ newer \in Server /\ newer.open_documents = n
         /\ newer.child = client.child /\ newer.reader = client.reader /\ newer.stdin = client.stdin
         /\ newer.exiting = client.exiting /\ newer.pending = client.pending
         /\ newer.to_server = client.to_server /\ newer.to_client = client.to_client
         /\ newer.view = client.view /\ newer.text = client.text
<1>1. [client EXCEPT !.open_documents = n] \in Server
  BY DEF Server
<1> QED BY <1>1 DEF Server

LEMMA TextSent ==
  ASSUME NEW client \in Server, NEW q \in Seq(Asked)
  PROVE  LET newer == [client EXCEPT !.to_server = q] IN
         /\ newer \in Server /\ newer.open_documents = client.open_documents
         /\ newer.child = client.child /\ newer.reader = client.reader /\ newer.stdin = client.stdin
         /\ newer.exiting = client.exiting /\ newer.pending = client.pending
         /\ newer.to_server = q /\ newer.to_client = client.to_client
         /\ newer.view = client.view /\ newer.text = client.text
<1>1. [client EXCEPT !.to_server = q] \in Server
  BY DEF Server
<1> QED BY <1>1 DEF Server

LEMMA WrittenText ==
  ASSUME NEW client \in Server, NEW q \in Seq(Asked), NEW t \in Nat
  PROVE  LET newer == [client EXCEPT !.to_server = q, !.text = t] IN
         /\ newer \in Server /\ newer.open_documents = client.open_documents
         /\ newer.child = client.child /\ newer.reader = client.reader /\ newer.stdin = client.stdin
         /\ newer.exiting = client.exiting /\ newer.pending = client.pending
         /\ newer.to_server = q /\ newer.to_client = client.to_client
         /\ newer.view = client.view /\ newer.text = t
<1>1. [client EXCEPT !.to_server = q, !.text = t] \in Server
  BY DEF Server
<1> QED BY <1>1 DEF Server

LEMMA Numbered ==
  ASSUME NEW client \in Server, NEW n \in Nat \ {0}
  PROVE  LET newer == [client EXCEPT !.next_request_id = n] IN
         /\ newer \in Server /\ newer.open_documents = client.open_documents
         /\ newer.child = client.child /\ newer.reader = client.reader /\ newer.stdin = client.stdin
         /\ newer.exiting = client.exiting /\ newer.pending = client.pending
         /\ newer.to_server = client.to_server /\ newer.to_client = client.to_client
         /\ newer.view = client.view /\ newer.text = client.text
<1>1. [client EXCEPT !.next_request_id = n] \in Server
  BY DEF Server
<1> QED BY <1>1 DEF Server

LEMMA ServerKilled ==
  ASSUME NEW client \in Server
  PROVE  LET newer == [client EXCEPT !.child = "dead", !.to_server = <<>>] IN
         /\ newer \in Server /\ newer.open_documents = client.open_documents
         /\ newer.child = "dead" /\ newer.reader = client.reader /\ newer.stdin = client.stdin
         /\ newer.exiting = client.exiting /\ newer.pending = client.pending
         /\ newer.to_server = <<>> /\ newer.to_client = client.to_client
         /\ newer.view = client.view /\ newer.text = client.text
<1>1. \A q \in Seq(Asked) : [client EXCEPT !.child = "dead", !.to_server = q] \in Server
  BY DEF Server
<1>2. <<>> \in Seq(Asked)
  OBVIOUS
<1>3. [client EXCEPT !.child = "dead", !.to_server = <<>>] \in Server
  BY <1>1, <1>2
<1> QED BY <1>3 DEF Server

LEMMA VersionStep ==
  ASSUME LspInv, NEW c \in Callers, next_version(c)
  PROVE  LspInv'
<1> DEFINE k == caller[c].k
           n == me(c).open_documents + 1
           client == [me(c) EXCEPT !.open_documents = n]
           r == [caller[c] EXCEPT !.at = "didChange", !.version = n]
<1>1. caller[c].at = "version" /\ UNCHANGED <<current, lock, disk, overlap>> /\ goes(c, r)
  BY DEF next_version
<1>2. /\ k \in 1..Len(clients) /\ me(c) = clients[k] /\ me(c) \in Server
      /\ me(c).open_documents \in Nat /\ me(c).to_server \in Seq(Asked)
  BY <1>1, MyClient DEF AtClient
<1>3. clients' = [clients EXCEPT ![k] = client]
  BY <1>2 DEF next_version, me
<1>4. /\ client \in Server
      /\ client.child = me(c).child /\ client.reader = me(c).reader /\ client.stdin = me(c).stdin
      /\ client.exiting = me(c).exiting /\ client.pending = me(c).pending /\ client.to_client = me(c).to_client
      /\ client.to_server = me(c).to_server /\ client.view = me(c).view
      /\ client.open_documents = n /\ client.text = me(c).text
  <2>1. n \in Nat /\ me(c) \in Server
    BY <1>2
  <2> HIDE DEF n
  <2> QED BY <2>1, Noted
<1>5. r \in Call
  <2>1. caller[c] \in Call /\ n \in Nat
    BY <1>2, CallAt
  <2> HIDE DEF n
  <2> QED BY <2>1 DEF Call, CallPlaces
<1>6. Moves(c) /\ caller'[c] = r
  <2>1. caller \in [Callers -> Call] /\ caller' = [caller EXCEPT ![c] = r]
    BY <1>1 DEF LspInv, LspShape, goes
  <2> HIDE DEF r
  <2> QED BY <1>5, <2>1, GoesTo
<1>7. /\ r.at = "didChange" /\ r.version = n /\ r.k = k /\ r.op = caller[c].op
      /\ caller[c] \in Call /\ CallFits(caller[c], Len(clients))
  BY CallAt DEF Call
<1> HIDE DEF client, r
<1>8. ClientKeeps(clients[k], client)
  BY <1>2, <1>4 DEF ClientKeeps, Justified
<1>9. Followed(caller[c], clients[k], k) => Followed(caller'[c], client, k)
  <2> SUFFICES ASSUME Followed(caller[c], me(c), k) PROVE Followed(r, client, k)
    BY <1>2, <1>6
  <2>1. ASSUME NEW v, Heard(me(c).view, me(c).to_server, v), Knows(caller[c], me(c), k, v)
        PROVE  Knows(r, client, k, v)
    <3>1. v.version = me(c).open_documents /\ v.version > 0
      BY <1>1, <2>1 DEF Knows, Between, Agrees
    <3> QED BY <1>2, <1>4, <1>7, <3>1 DEF Knows, Between
  <2> QED BY <1>4, <2>1 DEF Followed
<1>10. CallFits(caller'[c], Len(clients))
  BY <1>1, <1>2, <1>6, <1>7 DEF CallFits, AtClient
<1>11. ~ Waits(caller'[c]) /\ caller'[c].at = "didChange" /\ caller'[c].k = caller[c].k /\ caller'[c].op = caller[c].op
  BY <1>6, <1>7 DEF Waits
<1>12. clients' = [clients EXCEPT ![caller[c].k] = client] /\ caller[c].at \notin {"idle", "initialize"}
  BY <1>1, <1>3
<1> QED BY <1>1, <1>2, <1>4, <1>6, <1>8, <1>9, <1>10, <1>11, <1>12, PutStep

LEMMA NotedStep ==
  ASSUME LspInv, NEW c \in Callers, open_documents(c)
  PROVE  LspInv'
<1> DEFINE k == caller[c].k
           n == IF caller[c].at = "opened" THEN 1 ELSE 0
           client == [me(c) EXCEPT !.open_documents = n]
<1>1. /\ caller[c].at \in {"opened", "closed"} /\ UNCHANGED <<current, lock, disk, overlap>>
      /\ IF caller[c].op = "define" THEN goes_to(c, "request") ELSE finish(c)
  BY DEF open_documents
<1>2. /\ k \in 1..Len(clients) /\ me(c) = clients[k] /\ me(c) \in Server
      /\ me(c).open_documents \in Nat /\ me(c).to_server \in Seq(Asked)
  BY <1>1, MyClient DEF AtClient
<1>3. clients' = [clients EXCEPT ![k] = client]
  BY <1>2 DEF open_documents, me
<1>4. /\ client \in Server
      /\ client.child = me(c).child /\ client.reader = me(c).reader /\ client.stdin = me(c).stdin
      /\ client.exiting = me(c).exiting /\ client.pending = me(c).pending /\ client.to_client = me(c).to_client
      /\ client.to_server = me(c).to_server /\ client.view = me(c).view
      /\ client.open_documents = n /\ client.text = me(c).text
  <2>1. n \in Nat /\ me(c) \in Server
    BY <1>2
  <2> HIDE DEF n
  <2> QED BY <2>1, Noted
<1> HIDE DEF client
<1>5. caller[c] \in Call /\ CallFits(caller[c], Len(clients)) /\ caller[c].op # "shutdown"
  BY <1>1, CallAt DEF CallFits
<1>6. /\ Moves(c) /\ CallFits(caller'[c], Len(clients)) /\ Calm(caller'[c])
      /\ caller'[c].at # "initialize" /\ ~ Waits(caller'[c])
      /\ caller'[c].at = "idle" => caller'[c] = IdleCaller
  <2>1. CASE caller[c].op = "define"
    <3>1. goes_to(c, "request") /\ "request" \in CallPlaces
      BY <1>1, <2>1 DEF CallPlaces
    <3>2. /\ Moves(c) /\ caller'[c].at = "request"
          /\ caller'[c].op = caller[c].op /\ caller'[c].k = caller[c].k /\ caller'[c].id = caller[c].id
      BY <3>1, GoingTo
    <3> QED BY <1>1, <1>2, <1>5, <2>1, <3>2 DEF CallFits, Calm, Waits, AtClient
  <2>2. CASE caller[c].op # "define"
    BY <1>1, <2>2, Ending
  <2> QED BY <2>1, <2>2
<1>7. ClientKeeps(clients[k], client)
  BY <1>2, <1>4 DEF ClientKeeps, Justified
<1>8. Followed(caller[c], clients[k], k) => Followed(caller'[c], client, k)
  <2> SUFFICES ASSUME Followed(caller[c], me(c), k) PROVE Followed(caller'[c], client, k)
    BY <1>2
  <2>1. ASSUME NEW v, Heard(me(c).view, me(c).to_server, v), Knows(caller[c], me(c), k, v)
        PROVE  Knows(caller'[c], client, k, v)
    <3>1. Agrees(client, v)
      BY <1>1, <1>4, <2>1 DEF Knows, Between, Agrees
    <3> QED BY <1>6, <3>1 DEF Knows, Between, Calm
  <2> QED BY <1>4, <2>1 DEF Followed
<1>9. clients' = [clients EXCEPT ![caller[c].k] = client] /\ caller[c].at \notin {"idle", "initialize"}
  BY <1>1, <1>3
<1> QED BY <1>1, <1>2, <1>4, <1>5, <1>6, <1>7, <1>8, <1>9, PutStep

LEMMA KillStep ==
  ASSUME LspInv, NEW c \in Callers, kill_server(c)
  PROVE  LspInv'
<1> DEFINE k == caller[c].k
           client == [me(c) EXCEPT !.child = "dead", !.to_server = <<>>]
<1>1. caller[c].at = "exit" /\ UNCHANGED <<current, lock, disk, overlap>> /\ finish(c)
  BY DEF kill_server
<1>2. k \in 1..Len(clients) /\ me(c) = clients[k] /\ me(c) \in Server
  BY <1>1, MyClient DEF AtClient
<1>3. clients' = [clients EXCEPT ![k] = client]
  BY <1>2 DEF kill_server, me
<1>4. client \in Server /\ client.child = "dead" /\ client.stdin = me(c).stdin /\ client.exiting = me(c).exiting
      /\ client.view = me(c).view
  BY <1>2, ServerKilled
<1> HIDE DEF client
<1>5. /\ Moves(c) /\ CallFits(caller'[c], Len(clients)) /\ Calm(caller'[c])
      /\ caller'[c].at # "initialize" /\ ~ Waits(caller'[c])
      /\ caller'[c].at = "idle" => caller'[c] = IdleCaller
  BY <1>1, Ending
<1>6. ClientKeeps(clients[k], client)
  BY <1>2, <1>4 DEF ClientKeeps, Justified
<1>7. Followed(caller[c], clients[k], k) => Followed(caller'[c], client, k)
  BY <1>2, <1>4 DEF Followed
<1>8. clients' = [clients EXCEPT ![caller[c].k] = client] /\ caller[c].at \notin {"idle", "initialize"}
  BY <1>1, <1>3
<1>9. client.child # "up"
  BY <1>4
<1> QED BY <1>1, <1>2, <1>4, <1>5, <1>6, <1>7, <1>8, <1>9, PutStep

(* A message is written, or the server is gone.                            *)
LEMMA NotifyStep ==
  ASSUME LspInv, NEW c \in Callers, notify(c)
  PROVE  LspInv'
<1> DEFINE k == caller[c].k
           place_of == caller[c].at
           m == [method |-> place_of, id |-> 0, text |-> caller[c].text,
                 version |-> IF place_of = "didOpen" THEN 1 ELSE caller[c].version]
           q == Append(me(c).to_server, m)
           client == IF place_of \in {"didOpen", "didChange"}
                     THEN [me(c) EXCEPT !.to_server = q, !.text = caller[c].text]
                     ELSE [me(c) EXCEPT !.to_server = q]
<1>1. /\ place_of \in {"didOpen", "didChange", "didSave", "didClose"}
      /\ UNCHANGED <<current, lock, disk, overlap>>
  BY DEF notify
<1>2. /\ k \in 1..Len(clients) /\ me(c) = clients[k] /\ me(c) \in Server
      /\ me(c).open_documents \in Nat /\ me(c).to_server \in Seq(Asked)
  BY <1>1, MyClient DEF AtClient
<1>3. /\ caller[c] \in Call /\ CallFits(caller[c], Len(clients)) /\ caller[c].op # "shutdown"
      /\ caller[c].text \in Nat /\ caller[c].version \in Nat
  <2>1. caller[c] \in Call /\ CallFits(caller[c], Len(clients))
    BY CallAt
  <2> QED BY <1>1, <2>1 DEF CallFits, Call
<1>4. CASE ~ writable(c)
  <2>1. fail(c) /\ UNCHANGED clients
    BY <1>4 DEF notify
  <2>2. /\ Moves(c) /\ CallFits(caller'[c], Len(clients)) /\ Calm(caller'[c])
        /\ caller'[c].at # "initialize" /\ ~ Waits(caller'[c])
        /\ caller'[c].at = "idle" => caller'[c] = IdleCaller
    BY <2>1, Ending
  <2>3. \A j \in 1..Len(clients) :
          Followed(caller[c], clients[j], j) => Followed(caller'[c], clients[j], j)
    <3> SUFFICES ASSUME NEW j \in 1..Len(clients), Followed(caller[c], clients[j], j)
                 PROVE  Followed(caller'[c], clients[j], j)
      OBVIOUS
    <3>1. CASE j = k
      BY <1>2, <1>4, <3>1 DEF Followed, writable
    <3>2. CASE j # k
      BY <2>2, <3>2 DEF Followed, Knows, Between, Calm
    <3> QED BY <3>1, <3>2
  <2>4. caller[c].at \notin {"idle", "initialize"}
    BY <1>1
  <2>5. UNCHANGED <<clients, current, lock, disk, overlap>>
    BY <1>1, <2>1
  <2> QED BY <1>3, <2>2, <2>3, <2>4, <2>5, LookStep
<1>5. CASE writable(c)
  <2>1. /\ clients' = [clients EXCEPT ![k] = client]
        /\ CASE place_of = "didOpen" -> goes_to(c, "opened")
             [] place_of = "didClose" -> goes_to(c, "closed")
             [] OTHER -> finish(c)
    <3>1. place_of \in {"didOpen", "didChange"} => clients' = [sent(c, m) EXCEPT ![k].text = caller[c].text]
      BY <1>5 DEF notify
    <3>2. place_of \notin {"didOpen", "didChange"} => clients' = sent(c, m)
      BY <1>5 DEF notify
    <3>3. CASE place_of \in {"didOpen", "didChange"}
      <4>1. client = [me(c) EXCEPT !.to_server = q, !.text = caller[c].text]
        BY <3>3
      <4>2. clients' = [clients EXCEPT ![k] = [me(c) EXCEPT !.to_server = q, !.text = caller[c].text]]
        <5> HIDE DEF m
        <5> QED BY <1>2, <3>1, <3>3 DEF sent, me
      <4>3. CASE place_of = "didOpen"
        BY <1>5, <4>1, <4>2, <4>3 DEF notify
      <4>4. CASE place_of = "didChange"
        BY <1>5, <4>1, <4>2, <4>4 DEF notify
      <4> QED BY <3>3, <4>3, <4>4
    <3>4. CASE place_of \notin {"didOpen", "didChange"}
      <4>1. client = [me(c) EXCEPT !.to_server = q]
        BY <3>4
      <4>2. clients' = [clients EXCEPT ![k] = [me(c) EXCEPT !.to_server = q]]
        <5> HIDE DEF m
        <5> QED BY <1>2, <3>2, <3>4 DEF sent, me
      <4> QED BY <1>5, <4>1, <4>2 DEF notify
    <3> QED BY <3>3, <3>4
  <2>2. m \in Asked /\ m.id = 0 /\ m.method = place_of /\ m.text = caller[c].text
        /\ m.version = (IF place_of = "didOpen" THEN 1 ELSE caller[c].version)
    BY <1>1, <1>3 DEF Asked
  <2> HIDE DEF m
  <2>3. q \in Seq(Asked)
    BY <1>2, <2>2
  <2>4. /\ client \in Server /\ client.open_documents = me(c).open_documents
        /\ client.child = me(c).child /\ client.reader = me(c).reader /\ client.stdin = me(c).stdin
        /\ client.exiting = me(c).exiting /\ client.pending = me(c).pending
        /\ client.to_server = q /\ client.to_client = me(c).to_client
        /\ client.view = me(c).view
        /\ client.text = IF place_of \in {"didOpen", "didChange"} THEN caller[c].text ELSE me(c).text
    <3> HIDE DEF q
    <3>1. CASE place_of \in {"didOpen", "didChange"}
      <4>1. client = [me(c) EXCEPT !.to_server = q, !.text = caller[c].text]
        BY <3>1
      <4>2. me(c) \in Server /\ caller[c].text \in Nat
        BY <1>2, <1>3
      <4>3. LET newer == [me(c) EXCEPT !.to_server = q, !.text = caller[c].text] IN
            /\ newer \in Server /\ newer.open_documents = me(c).open_documents
            /\ newer.child = me(c).child /\ newer.reader = me(c).reader /\ newer.stdin = me(c).stdin
            /\ newer.exiting = me(c).exiting /\ newer.pending = me(c).pending
            /\ newer.to_server = q /\ newer.to_client = me(c).to_client
            /\ newer.view = me(c).view /\ newer.text = caller[c].text
        <5>1. PICK x \in Server, p \in Seq(Asked), t \in Nat : x = me(c) /\ p = q /\ t = caller[c].text
          BY <2>3, <4>2
        <5>2. LET newer == [x EXCEPT !.to_server = p, !.text = t] IN
              /\ newer \in Server /\ newer.open_documents = x.open_documents
              /\ newer.child = x.child /\ newer.reader = x.reader /\ newer.stdin = x.stdin
              /\ newer.exiting = x.exiting /\ newer.pending = x.pending
              /\ newer.to_server = p /\ newer.to_client = x.to_client
              /\ newer.view = x.view /\ newer.text = t
          BY WrittenText
        <5> QED BY <5>1, <5>2
      <4> HIDE DEF client
      <4> QED BY <3>1, <4>1, <4>3
    <3>2. CASE place_of \notin {"didOpen", "didChange"}
      <4>1. client = [me(c) EXCEPT !.to_server = q]
        BY <3>2
      <4> HIDE DEF client
      <4> QED BY <1>2, <2>3, <3>2, <4>1, TextSent
    <3> QED BY <3>1, <3>2
  <2> HIDE DEF client
  <2>5. /\ Moves(c) /\ CallFits(caller'[c], Len(clients))
        /\ caller'[c].at # "initialize" /\ ~ Waits(caller'[c])
        /\ caller'[c].at = "idle" => caller'[c] = IdleCaller
        /\ place_of = "didOpen" => caller'[c].at = "opened"
        /\ place_of = "didClose" => caller'[c].at = "closed"
        /\ place_of \notin {"didOpen", "didClose"} => Calm(caller'[c])
        /\ caller'[c].k = k \/ Calm(caller'[c])
    <3>1. ASSUME NEW place \in {"opened", "closed"}, goes_to(c, place)
          PROVE  /\ Moves(c) /\ CallFits(caller'[c], Len(clients)) /\ caller'[c].at = place /\ ~ Waits(caller'[c])
                 /\ caller'[c].k = k
      <4>1. place \in CallPlaces
        BY DEF CallPlaces
      <4>2. /\ Moves(c) /\ caller'[c].at = place
            /\ caller'[c].op = caller[c].op /\ caller'[c].k = caller[c].k /\ caller'[c].id = caller[c].id
        BY <3>1, <4>1, GoingTo
      <4> QED BY <1>1, <1>2, <1>3, <4>2 DEF CallFits, Waits, AtClient
    <3>2. CASE place_of = "didOpen"
      BY <2>1, <3>1, <3>2
    <3>3. CASE place_of = "didClose"
      BY <2>1, <3>1, <3>3
    <3>4. CASE place_of \notin {"didOpen", "didClose"}
      BY <2>1, <3>4, Ending
    <3> QED BY <3>2, <3>3, <3>4
  <2>6. ClientKeeps(clients[k], client)
    <3>1. client.to_server \in {clients[k].to_server, Append(clients[k].to_server, m)}
          /\ clients[k].pending \subseteq client.pending
      BY <1>2, <2>4
    <3>2. /\ client.child = clients[k].child /\ client.reader = clients[k].reader /\ client.stdin = clients[k].stdin
          /\ client.exiting = clients[k].exiting /\ client.to_client = clients[k].to_client
          /\ clients[k].to_server \in Seq(Asked)
      BY <1>2, <2>4
    <3> QED BY <2>2, <3>1, <3>2, KeepsMore
  <2>7. ASSUME NEW v \in View, ~ v.wrong, Knows(caller[c], me(c), k, v)
        PROVE  ~ told(v, m).wrong /\ Knows(caller'[c], client, k, told(v, m))
    <3>1. v.version \in Nat /\ Between(caller[c], me(c), v)
      BY <2>7 DEF View, Knows
    <3>2. CASE place_of = "didOpen"
      <4>1. told(v, m) = [v EXCEPT !.version = 1, !.text = caller[c].text]
        BY <2>2, <3>2 DEF told
      <4>2. told(v, m).version = 1 /\ told(v, m).text = caller[c].text /\ told(v, m).wrong = v.wrong
        BY <4>1 DEF View
      <4>3. caller'[c].at = "opened" /\ client.text = caller[c].text
        BY <2>4, <2>5, <3>2
      <4> QED BY <2>5, <2>7, <4>2, <4>3 DEF Knows, Between, Calm
    <3>3. CASE place_of = "didChange"
      <4>1. 0 < v.version /\ v.version < me(c).open_documents /\ caller[c].version = me(c).open_documents
        BY <3>1, <3>3 DEF Between
      <4>2. told(v, m) = [version |-> caller[c].version, text |-> caller[c].text,
                          wrong |-> v.wrong \/ v.version = 0 \/ caller[c].version <= v.version]
        BY <2>2, <3>3 DEF told
      <4>3. ~ (caller[c].version <= v.version) /\ v.version # 0
        BY <1>2, <3>1, <4>1
      <4>4. ~ told(v, m).wrong /\ Agrees(client, told(v, m))
        <5>1. /\ told(v, m).version = caller[c].version /\ told(v, m).text = caller[c].text
              /\ told(v, m).wrong = (v.wrong \/ v.version = 0 \/ caller[c].version <= v.version)
          BY <4>2
        <5>2. ~ told(v, m).wrong
          BY <2>7, <4>3, <5>1
        <5>3. client.text = caller[c].text /\ client.open_documents = caller[c].version
          BY <2>4, <3>3, <4>1
        <5> QED BY <5>1, <5>2, <5>3 DEF Agrees
      <4>5. Calm(caller'[c])
        BY <2>5, <3>3
      <4> QED BY <4>4, <4>5 DEF Knows, Between, Calm
    <3>4. CASE place_of = "didSave"
      <4>1. told(v, m) = v
        BY <2>2, <3>4 DEF told
      <4>2. Agrees(client, v)
        BY <2>4, <3>1, <3>4 DEF Between, Agrees
      <4>3. Calm(caller'[c])
        BY <2>5, <3>4
      <4> QED BY <2>7, <4>1, <4>2, <4>3 DEF Knows, Between, Calm
    <3>5. CASE place_of = "didClose"
      <4>1. told(v, m) = [v EXCEPT !.version = 0, !.wrong = v.wrong \/ v.version = 0]
        BY <2>2, <3>5 DEF told
      <4>2. v.version # 0
        BY <1>2, <3>1, <3>5 DEF Between, Agrees
      <4>3. told(v, m).version = 0 /\ ~ told(v, m).wrong
        BY <2>7, <4>1, <4>2 DEF View
      <4>4. caller'[c].at = "closed"
        BY <2>5, <3>5
      <4> QED BY <2>5, <4>3, <4>4 DEF Knows, Between, Calm
    <3> QED BY <1>1, <3>2, <3>3, <3>4, <3>5
  <2>8. Followed(caller[c], clients[k], k) => Followed(caller'[c], client, k)
    <3> SUFFICES ASSUME Followed(caller[c], me(c), k) PROVE Followed(caller'[c], client, k)
      BY <1>2
    <3>1. client.child = me(c).child /\ client.view = me(c).view
          /\ client.to_server = Append(me(c).to_server, m)
      BY <2>4
    <3>2. \A v \in View : ~ v.wrong /\ Knows(caller[c], me(c), k, v) =>
            ~ told(v, m).wrong /\ Knows(caller'[c], client, k, told(v, m))
      BY <2>7
    <3>3. me(c).to_server \in Seq(Asked)
      BY <1>2
    <3> QED BY <2>2, <3>1, <3>2, <3>3, FollowedMore
  <2>9. clients' = [clients EXCEPT ![caller[c].k] = client] /\ caller[c].at \notin {"idle", "initialize"}
    BY <1>1, <2>1
  <2> QED BY <1>1, <1>2, <1>3, <2>4, <2>5, <2>6, <2>8, <2>9, PutStep
<1> QED BY <1>4, <1>5

(* A request is registered and sent, or the server is gone.                *)
LEMMA RequestStep ==
  ASSUME LspInv, NEW c \in Callers, send_request(c)
  PROVE  LspInv'
<1> DEFINE k == caller[c].k
           id == me(c).next_request_id
           method == IF caller[c].op = "shutdown" THEN "shutdown" ELSE "definition"
           m == [method |-> method, id |-> id]
           q == Append(me(c).to_server, m)
           asks == [me(c) EXCEPT !.next_request_id = id + 1, !.pending = me(c).pending \cup {id}, !.to_server = q]
           counts == [me(c) EXCEPT !.next_request_id = id + 1]
<1>1. caller[c].at = "request" /\ UNCHANGED <<current, lock, disk, overlap>>
  BY DEF send_request
<1>2. /\ k \in 1..Len(clients) /\ me(c) = clients[k] /\ me(c) \in Server
      /\ id \in Nat \ {0} /\ me(c).to_server \in Seq(Asked) /\ me(c).pending \subseteq Nat
  BY <1>1, MyClient DEF AtClient
<1>3. /\ caller[c] \in Call /\ CallFits(caller[c], Len(clients)) /\ Calm(caller[c])
      /\ caller[c].at \notin {"idle", "initialize"}
  BY <1>1, CallAt DEF Calm
<1>4. /\ m \in Asked /\ m.id = id /\ m.method \in {"shutdown", "definition"}
  BY <1>2 DEF Asked
<1>5. CASE writable(c)
  <2>1. clients' = [clients EXCEPT ![k] = asks]
    <3>1. /\ clients' = [clients EXCEPT
               ![k].next_request_id = @ + 1,
               ![k].pending = IF writable(c) THEN @ \cup {id} ELSE @,
               ![k].to_server = IF writable(c) THEN Append(@, m) ELSE @]
      BY DEF send_request
    <3> HIDE DEF m
    <3> QED BY <1>2, <1>5, <3>1 DEF Server
  <2>2. goes(c, [caller[c] EXCEPT !.at = "wait", !.id = id])
    BY <1>5 DEF send_request
  <2> HIDE DEF m
  <2>3. q \in Seq(Asked) /\ me(c).pending \cup {id} \in SUBSET Nat /\ id + 1 \in Nat \ {0}
    BY <1>2, <1>4
  <2>4. /\ asks \in Server /\ asks.open_documents = me(c).open_documents
        /\ asks.child = me(c).child /\ asks.reader = me(c).reader /\ asks.stdin = me(c).stdin
        /\ asks.exiting = me(c).exiting /\ asks.pending = me(c).pending \cup {id}
        /\ asks.to_server = q /\ asks.to_client = me(c).to_client
        /\ asks.view = me(c).view /\ asks.text = me(c).text
    <3>1. PICK x \in Server, n \in Nat \ {0}, p \in SUBSET Nat, y \in Seq(Asked) :
            x = me(c) /\ n = id + 1 /\ p = me(c).pending \cup {id} /\ y = q
      BY <1>2, <2>3
    <3>2. LET newer == [x EXCEPT !.next_request_id = n, !.pending = p, !.to_server = y] IN
          /\ newer \in Server /\ newer.open_documents = x.open_documents
          /\ newer.child = x.child /\ newer.reader = x.reader /\ newer.stdin = x.stdin
          /\ newer.exiting = x.exiting /\ newer.pending = p
          /\ newer.to_server = y /\ newer.to_client = x.to_client
          /\ newer.view = x.view /\ newer.text = x.text
      <4>1. [x EXCEPT !.next_request_id = n, !.pending = p, !.to_server = y] \in Server
        BY DEF Server
      <4> QED BY <4>1 DEF Server
    <3> QED BY <3>1, <3>2
  <2> HIDE DEF asks
  <2>5. [caller[c] EXCEPT !.at = "wait", !.id = id] \in Call
    BY <1>2, <1>3 DEF Call, CallPlaces
  <2>6. Moves(c) /\ caller'[c] = [caller[c] EXCEPT !.at = "wait", !.id = id]
    <3>1. caller \in [Callers -> Call] /\ caller' = [caller EXCEPT ![c] = [caller[c] EXCEPT !.at = "wait", !.id = id]]
      BY <2>2 DEF goes, LspInv, LspShape
    <3> QED BY <2>5, <3>1, GoesTo
  <2>7. /\ caller'[c].at = "wait" /\ caller'[c].id = id /\ caller'[c].k = k /\ caller'[c].op = caller[c].op
    BY <1>3, <2>6 DEF Call
  <2>8. CallFits(caller'[c], Len(clients)) /\ Calm(caller'[c])
    BY <1>1, <1>2, <1>3, <2>7 DEF CallFits, Calm, AtClient
  <2>9. ClientKeeps(clients[k], asks)
    <3>1. asks.to_server \in {clients[k].to_server, Append(clients[k].to_server, m)}
          /\ clients[k].pending \subseteq asks.pending
      BY <1>2, <2>4
    <3>2. /\ asks.child = clients[k].child /\ asks.reader = clients[k].reader /\ asks.stdin = clients[k].stdin
          /\ asks.exiting = clients[k].exiting /\ asks.to_client = clients[k].to_client
          /\ clients[k].to_server \in Seq(Asked)
      BY <1>2, <2>4
    <3> QED BY <1>4, <3>1, <3>2, KeepsMore
  <2>10. Justified(asks, id)
    <3>1. Carries(q, m.id)
      BY <1>2, <1>4, CarriesMore
    <3> HIDE DEF q
    <3> QED BY <1>4, <2>4, <3>1 DEF Justified
  <2>11. Followed(caller[c], clients[k], k) => Followed(caller'[c], asks, k)
    <3> SUFFICES ASSUME Followed(caller[c], me(c), k) PROVE Followed(caller'[c], asks, k)
      BY <1>2
    <3>1. asks.child = me(c).child /\ asks.view = me(c).view /\ asks.to_server = Append(me(c).to_server, m)
      BY <2>4
    <3>2. ASSUME NEW v \in View, ~ v.wrong, Knows(caller[c], me(c), k, v)
          PROVE  ~ told(v, m).wrong /\ Knows(caller'[c], asks, k, told(v, m))
      <4>1. told(v, m) = v
        BY <1>4 DEF told
      <4>2. Agrees(asks, v)
        BY <1>3, <2>4, <3>2 DEF Knows, Between, Calm, Agrees
      <4> QED BY <2>8, <3>2, <4>1, <4>2 DEF Knows, Between, Calm
    <3>3. me(c).to_server \in Seq(Asked)
      BY <1>2
    <3> QED BY <1>4, <3>1, <3>2, <3>3, FollowedMore
  <2>12. clients' = [clients EXCEPT ![caller[c].k] = asks]
    BY <2>1
  <2>13. /\ Waits(caller'[c]) => caller'[c].k = caller[c].k /\ Justified(asks, caller'[c].id)
         /\ caller'[c].at # "initialize" /\ (caller'[c].at = "idle" => caller'[c] = IdleCaller)
         /\ caller[c].op = "shutdown" /\ asks.child = "up" =>
              caller'[c].op = "shutdown" /\ caller'[c].k = caller[c].k
         /\ caller'[c].k = caller[c].k \/ Calm(caller'[c])
    BY <2>7, <2>10
  <2> QED BY <1>1, <1>2, <1>3, <2>4, <2>6, <2>8, <2>9, <2>11, <2>12, <2>13, PutStep
<1>6. CASE ~ writable(c)
  <2>1. clients' = [clients EXCEPT ![k] = counts]
    <3>1. /\ clients' = [clients EXCEPT
               ![k].next_request_id = @ + 1,
               ![k].pending = IF writable(c) THEN @ \cup {id} ELSE @,
               ![k].to_server = IF writable(c) THEN Append(@, m) ELSE @]
      BY DEF send_request
    <3> HIDE DEF m
    <3> QED BY <1>2, <1>6, <3>1 DEF Server
  <2>2. IF caller[c].op = "shutdown" THEN goes_to(c, "exit") ELSE fail(c)
    BY <1>6 DEF send_request
  <2>3. /\ counts \in Server
        /\ counts.child = me(c).child /\ counts.reader = me(c).reader /\ counts.stdin = me(c).stdin
        /\ counts.exiting = me(c).exiting /\ counts.pending = me(c).pending
        /\ counts.to_server = me(c).to_server /\ counts.to_client = me(c).to_client
        /\ counts.view = me(c).view
    <3>1. PICK x \in Server, n \in Nat \ {0} : x = me(c) /\ n = id + 1
      BY <1>2
    <3>2. LET newer == [x EXCEPT !.next_request_id = n] IN
          /\ newer \in Server
          /\ newer.child = x.child /\ newer.reader = x.reader /\ newer.stdin = x.stdin
          /\ newer.exiting = x.exiting /\ newer.pending = x.pending
          /\ newer.to_server = x.to_server /\ newer.to_client = x.to_client
          /\ newer.view = x.view
      BY Numbered
    <3> QED BY <3>1, <3>2
  <2> HIDE DEF counts
  <2>4. counts.child # "up"
    BY <1>6, <2>3 DEF writable
  <2>5. /\ Moves(c) /\ CallFits(caller'[c], Len(clients)) /\ Calm(caller'[c])
        /\ caller'[c].at # "initialize" /\ ~ Waits(caller'[c])
        /\ caller'[c].at = "idle" => caller'[c] = IdleCaller
    <3>1. CASE caller[c].op = "shutdown"
      <4>1. goes_to(c, "exit") /\ "exit" \in CallPlaces
        BY <2>2, <3>1 DEF CallPlaces
      <4>2. /\ Moves(c) /\ caller'[c].at = "exit"
            /\ caller'[c].op = caller[c].op /\ caller'[c].k = caller[c].k /\ caller'[c].id = caller[c].id
        BY <4>1, GoingTo
      <4> QED BY <1>1, <1>2, <1>3, <3>1, <4>2 DEF CallFits, Calm, Waits, AtClient
    <3>2. CASE caller[c].op # "shutdown"
      BY <2>2, <3>2, Ending
    <3> QED BY <3>1, <3>2
  <2>6. ClientKeeps(clients[k], counts)
    BY <1>2, <2>3 DEF ClientKeeps, Justified
  <2>7. Followed(caller[c], clients[k], k) => Followed(caller'[c], counts, k)
    BY <1>2, <2>3, <2>4 DEF Followed
  <2>8. clients' = [clients EXCEPT ![caller[c].k] = counts]
    BY <2>1
  <2> QED BY <1>1, <1>2, <1>3, <2>3, <2>4, <2>5, <2>6, <2>7, <2>8, PutStep
<1> QED BY <1>5, <1>6

LEMMA BeginStep ==
  ASSUME LspInv, NEW c \in Callers, NEW asked_op \in Operations, begin_call(c, asked_op)
  PROVE  LspInv'
<1> DEFINE place_of == IF asked_op \in {"shutdown", "diagnostics"} THEN asked_op ELSE "start"
           r == [IdleCaller EXCEPT !.op = asked_op, !.text = disk, !.at = place_of]
<1>1. /\ caller[c].at = "idle" /\ caller' = [caller EXCEPT ![c] = r]
      /\ overlap' = (overlap \/ BusyCallers # {})
      /\ UNCHANGED <<clients, current, lock, disk>>
  BY DEF begin_call, goes
<1>2. /\ LspShape /\ caller \in [Callers -> Call] /\ disk \in Nat /\ overlap \in BOOLEAN
      /\ clients \in Seq(Server) /\ Len(clients) \in Nat /\ current \in 0..Len(clients)
      /\ lock # Nobody => current = 0
  BY DEF LspInv, LspShape, LockFits
<1>3. asked_op \in {"open", "sync", "save", "close", "define", "diagnostics", "shutdown"}
  BY LspAssumption
<1>4. /\ r.at = place_of /\ r.op = asked_op /\ r.k = 0 /\ r.reply = "none" /\ r \in Call
      /\ place_of \in {"start", "shutdown", "diagnostics"}
  <2>1. place_of \in {"start", "shutdown", "diagnostics"}
    BY <1>3
  <2> HIDE DEF place_of
  <2> QED BY <1>2, <1>3, <2>1 DEF IdleCaller, Call, CallPlaces, Operation
<1>5. Moves(c) /\ caller'[c] = r
  <2> HIDE DEF r
  <2> QED BY <1>1, <1>2, <1>4, GoesTo
<1>6. /\ CallFits(r, Len(clients)) /\ ~ Waits(r) /\ Calm(r)
      /\ r.at \notin {"initialize", "idle"}
  <2> HIDE DEF r
  <2> QED BY <1>3, <1>4 DEF CallFits, Waits, Calm, AtClient
<1> HIDE DEF r
<1>7. LspShape'
  <2>1. clients' \in Seq(Server) /\ Len(clients') >= Len(clients) /\ current' \in 0..Len(clients')
    BY <1>1, <1>2
  <2>2. /\ lock' = lock /\ (lock # Nobody => current' = 0) /\ disk' \in Nat /\ overlap' \in BOOLEAN
        /\ CallFits(caller'[c], Len(clients')) /\ caller[c].at # "initialize" /\ caller'[c].at # "initialize"
    BY <1>1, <1>2, <1>5, <1>6
  <2> QED BY <1>5, <2>1, <2>2, ShapeMoves
<1>8. WaitIsJustified'
  <2>1. ASSUME NEW d \in Callers, Waits(caller'[d])
        PROVE  Justified(clients'[caller'[d].k], caller'[d].id)
    <3>1. caller'[d] = caller[d]
      BY <1>5, <1>6, <2>1 DEF Moves
    <3> QED BY <1>1, <2>1, <3>1, WaitsJustified
  <2> QED BY <2>1, WaitsMoves
<1>9. OneServer'
  <2>1. caller[c].op # "shutdown" /\ caller[c].at # "initialize"
    BY <1>1, CallAt DEF CallFits
  <2>2. lock # Nobody => lock \in Callers \ {c}
    BY <1>2, <2>1 DEF LspShape, LockFits
  <2>3. /\ \A d \in Callers : caller[d].op = "shutdown" => caller'[d] = caller[d]
        /\ lock # Nobody => caller'[lock] = caller[lock]
    BY <1>5, <2>1, <2>2 DEF Moves
  <2>4. OneServer
    BY DEF LspInv
  <2> QED BY <1>1, <2>3, <2>4 DEF OneServer
<1>10. Follows'
  <2> SUFFICES ASSUME ~ overlap, BusyCallers = {}
               PROVE  \E x : Working(x)' /\ \A k \in 1..Len(clients') : Followed(x, clients'[k], k)
    BY <1>1 DEF Follows
  <2>1. \A d \in Callers : caller[d].at = "idle"
    BY DEF BusyCallers
  <2>2. PICK y : Working(y) /\ \A k \in 1..Len(clients) : Followed(y, clients[k], k)
    BY DEF LspInv, Follows
  <2>3. y = IdleCaller /\ Calm(y)
    BY <2>1, <2>2 DEF Working, IdleCaller, Calm
  <2>4. PICK x : x = caller'[c]
    OBVIOUS
  <2>5. \A k \in 1..Len(clients') : Followed(x, clients'[k], k)
    BY <1>1, <1>5, <1>6, <2>2, <2>3, <2>4, CalmFollowed
  <2>6. \A d \in Callers \ {c} : caller'[d].at = "idle"
    BY <1>5, <2>1 DEF Moves
  <2>7. Working(x)'
    BY <1>5, <1>6, <2>4, <2>6 DEF Working
  <2> QED BY <2>5, <2>7
<1> QED BY <1>7, <1>8, <1>9, <1>10 DEF LspInv

(* The map is emptied first.                                               *)
LEMMA ShutdownStep ==
  ASSUME LspInv, NEW c \in Callers, shutdown(c)
  PROVE  LspInv'
<1>1. /\ caller[c].at = "shutdown" /\ lock = Nobody /\ current' = 0
      /\ UNCHANGED <<lock, disk, overlap>>
  BY DEF shutdown, free
<1>2. /\ caller[c] \in Call /\ CallFits(caller[c], Len(clients)) /\ Calm(caller[c])
      /\ caller[c].op = "shutdown" /\ caller[c].k = 0
  BY <1>1, CallAt DEF Calm, CallFits
<1>3. /\ LspShape /\ caller \in [Callers -> Call] /\ disk \in Nat /\ overlap \in BOOLEAN
      /\ clients \in Seq(Server) /\ Len(clients) \in Nat /\ current \in 0..Len(clients)
  BY DEF LspInv, LspShape
<1>4. CASE current = 0
  <2>1. finish(c) /\ UNCHANGED <<clients, current, lock, disk, overlap>>
    BY <1>1, <1>4 DEF shutdown
  <2>2. /\ Moves(c) /\ CallFits(caller'[c], Len(clients)) /\ Calm(caller'[c])
        /\ caller'[c].at # "initialize" /\ ~ Waits(caller'[c])
        /\ caller'[c].at = "idle" => caller'[c] = IdleCaller
    BY <2>1, Ending
  <2>3. \A k \in 1..Len(clients) :
          Followed(caller[c], clients[k], k) => Followed(caller'[c], clients[k], k)
    BY <1>2, <2>2, CalmFollowed
  <2>4. /\ caller[c].at \notin {"idle", "initialize"}
        /\ ~ (caller[c].k \in 1..Len(clients))
    BY <1>1, <1>2, <1>3
  <2> QED BY <2>1, <2>2, <2>3, <2>4, LookStep
<1>5. CASE current # 0
  <2> DEFINE r == [caller[c] EXCEPT !.at = "request", !.k = current]
             client == [clients[current] EXCEPT !.exiting = TRUE]
  <2>1. caller' = [caller EXCEPT ![c] = r] /\ clients' = [clients EXCEPT ![current].exiting = TRUE]
    BY <1>5 DEF shutdown, goes
  <2>2. current \in 1..Len(clients) /\ clients[current] \in Server
    BY <1>3, <1>5
  <2>3. clients' = [clients EXCEPT ![current] = client]
    BY <1>3, <2>1, <2>2
  <2>4. client \in Server
    <3>1. \A x \in Server : [x EXCEPT !.exiting = TRUE] \in Server
      BY DEF Server
    <3> QED BY <2>2, <3>1
  <2>5. /\ client.child = clients[current].child /\ client.reader = clients[current].reader
        /\ client.stdin = clients[current].stdin /\ client.exiting
        /\ client.pending = clients[current].pending /\ client.to_server = clients[current].to_server
        /\ client.to_client = clients[current].to_client /\ client.view = clients[current].view
        /\ client.open_documents = clients[current].open_documents /\ client.text = clients[current].text
    BY <2>2 DEF Server
  <2>6. r \in Call /\ r.at = "request" /\ r.k = current /\ r.op = "shutdown"
    <3>1. \A x \in Call, n \in Nat : [x EXCEPT !.at = "request", !.k = n] \in Call
      BY DEF Call, CallPlaces
    <3>2. current \in Nat
      BY <2>2
    <3> QED BY <1>2, <3>1, <3>2 DEF Call
  <2> HIDE DEF r, client
  <2>7. Moves(c) /\ caller'[c] = r
    BY <1>3, <2>1, <2>6, GoesTo
  <2>8. /\ clients' \in Seq(Server) /\ Len(clients') = Len(clients) /\ clients'[current] = client
        /\ \A j \in 1..Len(clients) : j # current => clients'[j] = clients[j]
    BY <1>3, <2>2, <2>3, <2>4, Placing
  <2>9. \A j \in 1..Len(clients) : ClientKeeps(clients[j], clients'[j])
    <3>1. ClientKeeps(clients[current], client)
      BY <2>5 DEF ClientKeeps, Justified
    <3> QED BY <2>8, <3>1, KeepsItself
  <2>10. CallFits(r, Len(clients)) /\ ~ Waits(r) /\ Calm(r)
    BY <2>2, <2>6 DEF CallFits, Waits, Calm, AtClient
  <2>11. LspShape'
    <3>1. clients' \in Seq(Server) /\ Len(clients') >= Len(clients) /\ current' \in 0..Len(clients')
      BY <1>1, <1>3, <2>8
    <3>2. /\ lock' = lock /\ (lock # Nobody => current' = 0) /\ disk' \in Nat /\ overlap' \in BOOLEAN
          /\ CallFits(caller'[c], Len(clients')) /\ caller[c].at # "initialize" /\ caller'[c].at # "initialize"
      BY <1>1, <1>3, <2>6, <2>7, <2>8, <2>10
    <3> QED BY <2>7, <3>1, <3>2, ShapeMoves
  <2>12. WaitIsJustified'
    <3>1. ASSUME NEW d \in Callers, Waits(caller'[d])
          PROVE  Justified(clients'[caller'[d].k], caller'[d].id)
      <4>1. caller'[d] = caller[d]
        BY <2>7, <2>10, <3>1 DEF Moves
      <4>2. caller[d].k \in 1..Len(clients) /\ Justified(clients[caller[d].k], caller[d].id)
        BY <3>1, <4>1, WaitsJustified
      <4>3. caller[d].id \in Nat \ {0}
        BY <1>3, <3>1, <4>1 DEF LspShape, CallFits, Waits, Call
      <4>4. ClientKeeps(clients[caller[d].k], clients'[caller[d].k])
        BY <2>9, <4>2
      <4> QED BY <4>1, <4>2, <4>3, <4>4 DEF ClientKeeps
    <3> QED BY <3>1, WaitsMoves
  <2>13. OneServer'
    <3> SUFFICES ASSUME NEW k \in DOMAIN clients', clients'[k].child = "up"
                 PROVE  \/ clients'[k].stdin = "closed"
                        \/ clients'[k].exiting /\ \E d \in Callers : caller'[d].op = "shutdown" /\ caller'[d].k = k
      BY DEF OneServer
    <3>1. k \in 1..Len(clients) /\ k \in DOMAIN clients /\ ClientKeeps(clients[k], clients'[k])
      BY <1>3, <2>8, <2>9
    <3>2. CASE k = current
      BY <2>5, <2>6, <2>7, <2>8, <3>2
    <3>3. CASE k # current
      <4>1. \/ clients[k].stdin = "closed"
            \/ clients[k].exiting /\ \E d \in Callers : caller[d].op = "shutdown" /\ caller[d].k = k
        <5>1. clients[k].child = "up"
          BY <3>1 DEF ClientKeeps
        <5> QED BY <1>1, <3>1, <3>3, <5>1 DEF LspInv, OneServer
      <4>2. ASSUME NEW d \in Callers, caller[d].op = "shutdown", caller[d].k = k
            PROVE  caller'[d] = caller[d]
        <5>1. d # c
          BY <1>2, <1>3, <3>1, <4>2
        <5> QED BY <2>7, <5>1 DEF Moves
      <4> QED BY <3>1, <4>1, <4>2 DEF ClientKeeps
    <3> QED BY <3>2, <3>3
  <2>14. Follows'
    <3>1. \A j \in 1..Len(clients') :
            (j \in 1..Len(clients) => Followed(caller[c], clients[j], j)) => Followed(caller'[c], clients'[j], j)
      <4> SUFFICES ASSUME NEW j \in 1..Len(clients), Followed(caller[c], clients[j], j)
                   PROVE  Followed(r, clients'[j], j)
        BY <2>7, <2>8
      <4>1. Followed(r, clients[j], j)
        BY <1>2, <2>10, CalmFollowed
      <4>2. CASE j = current
        BY <2>5, <2>8, <4>1, <4>2 DEF Followed, Knows, Between, Agrees
      <4>3. CASE j # current
        BY <2>8, <4>1, <4>3
      <4> QED BY <4>2, <4>3
    <3>2. /\ caller[c].at # "idle" /\ overlap' = overlap
          /\ caller'[c].at = "idle" => caller'[c] = IdleCaller
      BY <1>1, <2>6, <2>7
    <3> QED BY <2>7, <3>1, <3>2, FollowsMoves
  <2> QED BY <2>11, <2>12, <2>13, <2>14 DEF LspInv
<1> QED BY <1>4, <1>5

LEMMA ConnectedFits ==
  /\ connected \in Server
  /\ Justified(connected, 1)
  /\ connected.stdin = "open" /\ ~ connected.exiting /\ ~ connected.view.wrong
  /\ Heard(connected.view, connected.to_server, connected.view) /\ Agrees(connected, connected.view)
<1> DEFINE u == [version |-> 0, text |-> 0, wrong |-> FALSE]
           m == [method |-> "initialize", id |-> 1]
<1>1. u \in View /\ m \in Asked /\ ~ u.wrong /\ told(u, m) = u
  BY DEF View, Asked, told
<1>2. m.id = 1 /\ m.method = "initialize"
  OBVIOUS
<1>3. connected.view = u /\ connected.to_server = <<m>> /\ connected.pending = {1}
      /\ connected.stdin = "open" /\ ~ connected.exiting /\ connected.open_documents = 0 /\ u.version = 0
  BY DEF connected
<1>4. connected \in Server
  <2>1. /\ {1} \in SUBSET Nat /\ 2 \in Nat \ {0} /\ <<m>> \in Seq(Asked) /\ <<>> \in Seq(Answered)
        /\ u \in View
    BY <1>1
  <2> HIDE DEF u, m
  <2>2. connected = [child |-> "up", reader |-> "on", stdin |-> "open", pending |-> {1}, next_request_id |-> 2,
                     open_documents |-> 0, diagnostics |-> 0, exiting |-> FALSE,
                     text |-> 0, to_server |-> <<m>>, to_client |-> <<>>, view |-> u]
    BY DEF connected, u, m
  <2> QED BY <2>1, <2>2 DEF Server
<1> HIDE DEF u, m
<1>5. Heard(u, <<m>>, u)
  <2>1. Append(<<>>, m) = <<m>> /\ <<>> \in Seq(Asked)
    BY <1>1
  <2>2. Heard(u, <<>>, u)
    BY <1>1, HeardNothing
  <2>3. Heard(u, Append(<<>>, m), told(u, m))
    BY <1>1, <2>1, <2>2, HeardMore
  <2> QED BY <1>1, <2>1, <2>3
<1>6. Carries(<<m>>, 1)
  <2>1. 1 \in DOMAIN <<m>> /\ <<m>>[1] = m
    OBVIOUS
  <2> QED BY <1>2, <2>1 DEF Carries
<1> QED BY <1>1, <1>3, <1>4, <1>5, <1>6 DEF Justified, Agrees

LEMMA ConnectStep ==
  ASSUME LspInv, NEW c \in Callers, client_for_path(c)
  PROVE  LspInv'
<1>1. /\ caller[c].at = "start" /\ lock = Nobody
      /\ UNCHANGED <<current, disk, overlap>>
  BY DEF client_for_path, free
<1>2. /\ caller[c] \in Call /\ CallFits(caller[c], Len(clients)) /\ Calm(caller[c]) /\ caller[c].op # "shutdown"
  BY <1>1, CallAt DEF Calm, CallFits
<1>3. /\ LspShape /\ caller \in [Callers -> Call] /\ disk \in Nat /\ overlap \in BOOLEAN
      /\ clients \in Seq(Server) /\ Len(clients) \in Nat /\ current \in 0..Len(clients)
  BY DEF LspInv, LspShape
<1>4. CASE current # 0
  <2> DEFINE r == [caller[c] EXCEPT !.at = "got", !.k = current]
  <2>1. caller' = [caller EXCEPT ![c] = r] /\ UNCHANGED <<clients, lock>>
    BY <1>4 DEF client_for_path, goes
  <2>2. r \in Call /\ r.at = "got" /\ r.k = current /\ r.op = caller[c].op
    <3>1. \A x \in Call, n \in Nat : [x EXCEPT !.at = "got", !.k = n] \in Call
      BY DEF Call, CallPlaces
    <3>2. current \in Nat
      BY <1>3
    <3> QED BY <1>2, <3>1, <3>2 DEF Call
  <2> HIDE DEF r
  <2>3. Moves(c) /\ caller'[c] = r
    BY <1>3, <2>1, <2>2, GoesTo
  <2>4. CallFits(r, Len(clients)) /\ ~ Waits(r) /\ Calm(r)
    BY <1>1, <1>2, <1>3, <1>4, <2>2 DEF CallFits, Waits, Calm, AtClient
  <2>5. \A k \in 1..Len(clients) :
          Followed(caller[c], clients[k], k) => Followed(caller'[c], clients[k], k)
    BY <1>2, <2>3, <2>4, CalmFollowed
  <2>6. /\ CallFits(caller'[c], Len(clients)) /\ ~ Waits(caller'[c])
        /\ caller[c].at \notin {"idle", "initialize"} /\ caller'[c].at \notin {"idle", "initialize"}
    BY <1>1, <2>2, <2>3, <2>4
  <2>7. UNCHANGED <<clients, current, lock, disk, overlap>>
    BY <1>1, <2>1
  <2> QED BY <1>2, <2>3, <2>5, <2>6, <2>7, LookStep
<1>5. CASE current = 0
  <2> DEFINE n == Len(clients) + 1
             r == [caller[c] EXCEPT !.at = "initialize", !.k = n, !.id = 1]
  <2>1. caller' = [caller EXCEPT ![c] = r] /\ clients' = Append(clients, connected) /\ lock' = c
    BY <1>5 DEF client_for_path, goes
  <2>2. n \in Nat /\ n \notin 1..Len(clients)
    BY <1>3
  <2>3. r \in Call /\ r.at = "initialize" /\ r.k = n /\ r.id = 1 /\ r.op = caller[c].op /\ r.reply = caller[c].reply
    <3>1. \A x \in Call, i \in Nat : [x EXCEPT !.at = "initialize", !.k = i, !.id = 1] \in Call
      BY DEF Call, CallPlaces
    <3> HIDE DEF n
    <3> QED BY <1>2, <2>2, <3>1 DEF Call
  <2> HIDE DEF r
  <2>4. Moves(c) /\ caller'[c] = r
    BY <1>3, <2>1, <2>3, GoesTo
  <2>5. /\ clients' \in Seq(Server) /\ Len(clients') = n /\ clients'[n] = connected
        /\ \A j \in 1..Len(clients) : clients'[j] = clients[j]
    BY <1>3, <2>1, ConnectedFits
  <2>6. \A d \in Callers \ {c} : caller'[d] = caller[d] /\ caller[d].at # "initialize"
    BY <1>1, <1>3, <2>4, LspAssumption DEF Moves, LspShape, LockFits
  <2>7. LspShape'
    <3>1. \A d \in Callers : CallFits(caller'[d], Len(clients'))
      <4>1. CallFits(r, Len(clients'))
        BY <1>1, <1>2, <2>2, <2>3, <2>5 DEF CallFits
      <4>2. ASSUME NEW d \in Callers \ {c} PROVE CallFits(caller'[d], Len(clients'))
        <5>1. caller'[d] = caller[d] /\ CallFits(caller[d], Len(clients)) /\ caller[d].k \in Nat
          BY <1>3, <2>6 DEF LspShape, Call
        <5> QED BY <1>3, <2>5, <5>1 DEF CallFits
      <4> QED BY <2>4, <4>1, <4>2
    <3>2. LockFits'
      BY <1>1, <1>5, <2>1, <2>3, <2>4, <2>6 DEF LockFits
    <3>3. caller' \in [Callers -> Call] /\ current' \in 0..Len(clients')
      BY <1>1, <1>3, <1>5, <2>4, <2>5 DEF Moves
    <3> QED BY <1>1, <1>3, <2>1, <2>5, <3>1, <3>2, <3>3 DEF LspShape
  <2>8. WaitIsJustified'
    <3>1. ASSUME NEW d \in Callers, Waits(caller'[d])
          PROVE  Justified(clients'[caller'[d].k], caller'[d].id)
      <4>1. CASE d = c
        BY <2>3, <2>4, <2>5, <4>1, ConnectedFits
      <4>2. CASE d # c
        BY <2>5, <2>6, <3>1, <4>2, WaitsJustified
      <4> QED BY <4>1, <4>2
    <3> QED BY <3>1, WaitsMoves
  <2>9. OneServer'
    <3> SUFFICES ASSUME NEW k \in DOMAIN clients', clients'[k].child = "up", k # current'
                 PROVE  \/ clients'[k].stdin = "closed"
                        \/ lock' # Nobody /\ caller'[lock'].k = k
                        \/ clients'[k].exiting /\ \E d \in Callers : caller'[d].op = "shutdown" /\ caller'[d].k = k
      BY DEF OneServer
    <3>1. CASE k = n
      BY <2>1, <2>3, <2>4, <3>1, LspAssumption
    <3>2. CASE k # n
      <4>1. k \in 1..Len(clients) /\ k \in DOMAIN clients /\ clients'[k] = clients[k]
        BY <1>3, <2>5, <3>2
      <4>2. \/ clients[k].stdin = "closed"
            \/ clients[k].exiting /\ \E d \in Callers : caller[d].op = "shutdown" /\ caller[d].k = k
        BY <1>1, <4>1 DEF LspInv, OneServer
      <4>3. \A d \in Callers : caller[d].op = "shutdown" => caller'[d] = caller[d]
        BY <1>2, <2>6
      <4> QED BY <4>1, <4>2, <4>3
    <3> QED BY <3>1, <3>2
  <2>10. Follows'
    <3>1. Calm(r)
      BY <2>3 DEF Calm
    <3>2. Followed(r, connected, n)
      BY <3>1, ConnectedFits DEF Followed, Knows, Between, Calm
    <3>3. \A j \in 1..Len(clients') :
            (j \in 1..Len(clients) => Followed(caller[c], clients[j], j)) => Followed(caller'[c], clients'[j], j)
      <4> SUFFICES ASSUME NEW j \in 1..Len(clients), Followed(caller[c], clients[j], j)
                   PROVE  Followed(r, clients'[j], j)
        <5>1. \A j \in 1..Len(clients') : j = n \/ j \in 1..Len(clients)
          BY <1>3, <2>5
        <5> QED BY <2>4, <2>5, <3>2, <5>1
      <4>1. Followed(r, clients[j], j)
        BY <1>2, <3>1, CalmFollowed
      <4> QED BY <2>5, <4>1
    <3>4. /\ caller[c].at # "idle" /\ overlap' = overlap
          /\ caller'[c].at = "idle" => caller'[c] = IdleCaller
      BY <1>1, <2>3, <2>4
    <3> QED BY <2>4, <3>3, <3>4, FollowsMoves
  <2> QED BY <2>7, <2>8, <2>9, <2>10 DEF LspInv
<1> QED BY <1>4, <1>5

LEMMA InitializedStep ==
  ASSUME LspInv, NEW c \in Callers, initialized(c)
  PROVE  LspInv'
<1> DEFINE k == caller[c].k
           m == [method |-> "initialized", id |-> 0]
           q == Append(me(c).to_server, m)
           entered == caller[c].reply = "ok" /\ writable(c)
           r == [caller[c] EXCEPT !.at = "got", !.reply = "none"]
           writes == [me(c) EXCEPT !.to_server = q]
           closes == [me(c) EXCEPT !.stdin = "closed"]
           client == IF entered THEN writes ELSE closes
<1>1. caller[c].at = "initialize" /\ lock' = Nobody /\ UNCHANGED <<disk, overlap>>
  BY DEF initialized
<1>2. /\ k \in 1..Len(clients) /\ me(c) = clients[k] /\ me(c) \in Server /\ me(c).to_server \in Seq(Asked)
  BY <1>1, MyClient DEF AtClient
<1>3. /\ LspShape /\ caller \in [Callers -> Call] /\ disk \in Nat /\ overlap \in BOOLEAN
      /\ clients \in Seq(Server) /\ Len(clients) \in Nat /\ current = 0 /\ lock = c
      /\ caller[c] \in Call /\ CallFits(caller[c], Len(clients)) /\ Calm(caller[c]) /\ caller[c].op # "shutdown"
  <2>1. /\ LspShape /\ caller \in [Callers -> Call] /\ disk \in Nat /\ overlap \in BOOLEAN
        /\ clients \in Seq(Server) /\ Len(clients) \in Nat
    BY DEF LspInv, LspShape
  <2>2. lock = c /\ current = 0
    BY <1>1, <2>1, LspAssumption DEF LspShape, LockFits
  <2>3. CallFits(caller[c], Len(clients)) /\ caller[c] \in Call
    BY CallAt
  <2> QED BY <1>1, <2>1, <2>2, <2>3 DEF CallFits, Calm
<1>4. /\ clients' = [clients EXCEPT ![k] = client]
      /\ entered => current' = k /\ goes(c, r)
      /\ ~ entered => current' = current /\ fail(c)
  <2>1. entered => clients' = sent(c, m) /\ current' = k /\ goes(c, r)
    BY DEF initialized
  <2>2. ~ entered => clients' = [clients EXCEPT ![k].stdin = "closed"] /\ current' = current /\ fail(c)
    BY DEF initialized
  <2>3. clients' = [clients EXCEPT ![k] = client]
    <3> HIDE DEF m, entered
    <3>1. CASE entered
      BY <1>2, <2>1, <3>1 DEF sent, me
    <3>2. CASE ~ entered
      BY <1>2, <2>2, <3>2 DEF me
    <3> QED BY <3>1, <3>2
  <2> QED BY <2>1, <2>2, <2>3
<1>5. m \in Asked /\ m.method = "initialized"
  BY DEF Asked
<1> HIDE DEF m
<1>6. /\ client \in Server /\ ClientKeeps(clients[k], client) /\ (entered \/ client.stdin = "closed")
      /\ client.open_documents = me(c).open_documents /\ client.text = me(c).text
      /\ client.child = me(c).child /\ client.view = me(c).view
      /\ client.to_server \in {me(c).to_server, q}
  <2>1. /\ writes \in Server /\ writes.open_documents = me(c).open_documents /\ writes.text = me(c).text
        /\ writes.child = me(c).child /\ writes.reader = me(c).reader /\ writes.stdin = me(c).stdin
        /\ writes.exiting = me(c).exiting /\ writes.pending = me(c).pending
        /\ writes.to_server = q /\ writes.to_client = me(c).to_client /\ writes.view = me(c).view
    <3>1. q \in Seq(Asked) /\ me(c) \in Server
      BY <1>2, <1>5
    <3> HIDE DEF q
    <3> QED BY <3>1, TextSent
  <2>2. /\ closes \in Server /\ closes.open_documents = me(c).open_documents /\ closes.text = me(c).text
        /\ closes.child = me(c).child /\ closes.reader = me(c).reader /\ closes.stdin = "closed"
        /\ closes.exiting = me(c).exiting /\ closes.pending = me(c).pending
        /\ closes.to_server = me(c).to_server /\ closes.to_client = me(c).to_client /\ closes.view = me(c).view
    <3>1. \A x \in Server : [x EXCEPT !.stdin = "closed"] \in Server
      BY DEF Server
    <3> QED BY <1>2, <3>1 DEF Server
  <2> HIDE DEF writes, closes, entered
  <2>3. ClientKeeps(clients[k], writes)
    <3>1. writes.to_server \in {clients[k].to_server, Append(clients[k].to_server, m)}
          /\ clients[k].pending \subseteq writes.pending
      BY <1>2, <2>1
    <3>2. /\ writes.child = clients[k].child /\ writes.reader = clients[k].reader /\ writes.stdin = clients[k].stdin
          /\ writes.exiting = clients[k].exiting /\ writes.to_client = clients[k].to_client
          /\ clients[k].to_server \in Seq(Asked)
      BY <1>2, <2>1
    <3> QED BY <1>5, <3>1, <3>2, KeepsMore
  <2>4. ClientKeeps(clients[k], closes)
    BY <1>2, <2>2 DEF ClientKeeps, Justified
  <2>5. CASE entered
    BY <2>1, <2>3, <2>5
  <2>6. CASE ~ entered
    BY <2>2, <2>4, <2>6
  <2> QED BY <2>5, <2>6
<1> HIDE DEF client, entered, writes, closes
<1>7. /\ Moves(c) /\ CallFits(caller'[c], Len(clients)) /\ Calm(caller'[c])
      /\ caller'[c].at # "initialize" /\ ~ Waits(caller'[c])
      /\ caller'[c].at = "idle" => caller'[c] = IdleCaller
  <2>1. CASE entered
    <3>1. r \in Call /\ r.at = "got" /\ r.k = k /\ r.op = caller[c].op
      BY <1>3 DEF Call, CallPlaces
    <3>2. caller' = [caller EXCEPT ![c] = r]
      BY <1>4, <2>1 DEF goes
    <3> HIDE DEF r
    <3>3. Moves(c) /\ caller'[c] = r
      BY <1>3, <3>1, <3>2, GoesTo
    <3> QED BY <1>1, <1>2, <1>3, <3>1, <3>3 DEF CallFits, Calm, Waits, AtClient
  <2>2. CASE ~ entered
    BY <1>4, <2>2, Ending
  <2> QED BY <2>1, <2>2
<1>8. /\ clients' \in Seq(Server) /\ Len(clients') = Len(clients) /\ clients'[k] = client
      /\ \A j \in 1..Len(clients) : j # k => clients'[j] = clients[j]
  <2>1. k \in 1..Len(clients) /\ client \in Server /\ clients \in Seq(Server)
        /\ clients' = [clients EXCEPT ![k] = client]
    BY <1>2, <1>3, <1>4, <1>6
  <2> HIDE DEF k
  <2> QED BY <2>1, Placing
<1>9. \A d \in Callers \ {c} : caller'[d] = caller[d] /\ caller[d].at # "initialize"
  BY <1>3, <1>7 DEF Moves, LspShape, LockFits
<1>10. current' \in 0..Len(clients') /\ (current' = k \/ client.stdin = "closed")
  BY <1>2, <1>3, <1>4, <1>6, <1>8
<1>11. LspShape'
  <2>1. \A d \in Callers : CallFits(caller'[d], Len(clients'))
    BY <1>3, <1>7, <1>8, <1>9 DEF LspShape
  <2>2. LockFits'
    BY <1>1, <1>7, <1>9 DEF LockFits
  <2>3. caller' \in [Callers -> Call]
    BY <1>7 DEF Moves
  <2> QED BY <1>1, <1>3, <1>8, <1>10, <2>1, <2>2, <2>3 DEF LspShape
<1>12. WaitIsJustified'
  <2>1. ASSUME NEW d \in Callers, Waits(caller'[d])
        PROVE  Justified(clients'[caller'[d].k], caller'[d].id)
    <3>1. caller'[d] = caller[d]
      BY <1>7, <1>9, <2>1
    <3>2. caller[d].k \in 1..Len(clients) /\ Justified(clients[caller[d].k], caller[d].id)
      BY <2>1, <3>1, WaitsJustified
    <3>3. caller[d].id \in Nat \ {0}
      BY <1>3, <2>1, <3>1 DEF LspShape, CallFits, Waits, Call
    <3>4. ClientKeeps(clients[caller[d].k], clients'[caller[d].k])
      <4>1. CASE caller[d].k = k
        BY <1>6, <1>8, <4>1
      <4>2. CASE caller[d].k # k
        BY <1>8, <3>2, <4>2, KeepsItself
      <4> QED BY <4>1, <4>2
    <3> QED BY <3>1, <3>2, <3>3, <3>4 DEF ClientKeeps
  <2> QED BY <2>1, WaitsMoves
<1>13. OneServer'
  <2> SUFFICES ASSUME NEW j \in DOMAIN clients', clients'[j].child = "up", j # current'
               PROVE  \/ clients'[j].stdin = "closed"
                      \/ clients'[j].exiting /\ \E d \in Callers : caller'[d].op = "shutdown" /\ caller'[d].k = j
    BY DEF OneServer
  <2>1. CASE j = k
    BY <1>8, <1>10, <2>1
  <2>2. CASE j # k
    <3>1. j \in 1..Len(clients) /\ j \in DOMAIN clients /\ clients'[j] = clients[j] /\ j # current
      BY <1>3, <1>8, <2>2
    <3>2. \/ clients[j].stdin = "closed"
          \/ clients[j].exiting /\ \E d \in Callers : caller[d].op = "shutdown" /\ caller[d].k = j
      BY <1>3, <2>2, <3>1 DEF LspInv, OneServer
    <3>3. \A d \in Callers : caller[d].op = "shutdown" => caller'[d] = caller[d]
      BY <1>3, <1>9
    <3> QED BY <3>1, <3>2, <3>3
  <2> QED BY <2>1, <2>2
<1>14. Follows'
  <2>1. ASSUME Followed(caller[c], me(c), k) PROVE Followed(caller'[c], client, k)
    <3>1. ASSUME NEW v, Knows(caller[c], me(c), k, v)
          PROVE  Knows(caller'[c], client, k, v)
      BY <1>3, <1>6, <1>7, <3>1 DEF Knows, Between, Calm, Agrees
    <3>2. CASE client.to_server = me(c).to_server
      BY <1>6, <2>1, <3>1, <3>2 DEF Followed
    <3>3. CASE client.to_server = q
      <4>1. client.child = me(c).child /\ client.view = me(c).view
            /\ client.to_server = Append(me(c).to_server, m) /\ me(c).to_server \in Seq(Asked)
        BY <1>2, <1>6, <3>3
      <4>2. ASSUME NEW v \in View, ~ v.wrong, Knows(caller[c], me(c), k, v)
            PROVE  ~ told(v, m).wrong /\ Knows(caller'[c], client, k, told(v, m))
        <5>1. told(v, m) = v
          BY <1>5 DEF told
        <5> QED BY <3>1, <4>2, <5>1
      <4> QED BY <1>5, <2>1, <4>1, <4>2, FollowedMore
    <3> QED BY <1>6, <3>2, <3>3
  <2>2. \A j \in 1..Len(clients') :
          (j \in 1..Len(clients) => Followed(caller[c], clients[j], j)) => Followed(caller'[c], clients'[j], j)
    <3> SUFFICES ASSUME NEW j \in 1..Len(clients), Followed(caller[c], clients[j], j)
                 PROVE  Followed(caller'[c], clients'[j], j)
      BY <1>8
    <3>1. CASE j = k
      BY <1>2, <1>8, <2>1, <3>1
    <3>2. CASE j # k
      BY <1>3, <1>7, <1>8, <3>2, CalmFollowed
    <3> QED BY <3>1, <3>2
  <2>3. /\ caller[c].at # "idle" /\ overlap' = overlap
        /\ caller'[c].at = "idle" => caller'[c] = IdleCaller
    BY <1>1, <1>7
  <2> QED BY <1>7, <2>2, <2>3, FollowsMoves
<1> QED BY <1>11, <1>12, <1>13, <1>14 DEF LspInv

(* A step of a server or of the reader of its answers.                     *)
Heeds(client, newer) ==
  /\ newer.open_documents = client.open_documents /\ newer.text = client.text
  /\ newer.stdin = client.stdin /\ newer.exiting = client.exiting
  /\ newer.child = "up" =>
       /\ client.child = "up"
       /\ \A v : Heard(client.view, client.to_server, v) => Heard(newer.view, newer.to_server, v)
  /\ ~ client.view.wrong /\ (client.child = "up" => \E v : Heard(client.view, client.to_server, v)) =>
       ~ newer.view.wrong
Replied(r, x) == x.at = r.at /\ x.op = r.op /\ x.k = r.k /\ x.id = r.id /\ x.version = r.version

LEMMA FollowedHeeds ==
  ASSUME NEW r, NEW x, NEW client, NEW newer, NEW k, Followed(r, client, k), Heeds(client, newer), Replied(r, x)
  PROVE  Followed(x, newer, k)
<1>1. ~ newer.view.wrong
  BY DEF Followed, Heeds
<1>2. ASSUME newer.child = "up"
      PROVE  \E v : Heard(newer.view, newer.to_server, v) /\ Knows(x, newer, k, v)
  <2>1. PICK v : Heard(client.view, client.to_server, v) /\ Knows(r, client, k, v)
    BY <1>2 DEF Followed, Heeds
  <2>2. Heard(newer.view, newer.to_server, v)
    BY <1>2, <2>1 DEF Heeds
  <2>3. Knows(x, newer, k, v)
    <3>1. /\ newer.open_documents = client.open_documents /\ newer.text = client.text
          /\ x.at = r.at /\ x.k = r.k /\ x.version = r.version
      BY DEF Heeds, Replied
    <3> QED BY <2>1, <3>1 DEF Knows, Between, Agrees
  <2> QED BY <2>2, <2>3
<1> QED BY <1>1, <1>2 DEF Followed

LEMMA WorldStep ==
  ASSUME LspInv, NEW k \in 1..Len(clients), NEW client \in Server,
         clients' = [clients EXCEPT ![k] = client], Heeds(clients[k], client),
         UNCHANGED <<current, lock, disk, overlap>>, caller' \in [Callers -> Call],
         \A c \in Callers : Replied(caller[c], caller'[c]),
         \A c \in Callers : caller[c].at = "idle" => caller'[c] = caller[c],
         \A c \in Callers : Waits(caller'[c]) =>
           Waits(caller[c]) /\ (caller[c].k = k /\ Justified(clients[k], caller[c].id) => Justified(client, caller[c].id))
  PROVE  LspInv'
<1>1. /\ LspShape /\ caller \in [Callers -> Call] /\ disk \in Nat /\ overlap \in BOOLEAN
      /\ clients \in Seq(Server) /\ Len(clients) \in Nat
  BY DEF LspInv, LspShape
<1>2. /\ clients' \in Seq(Server) /\ Len(clients') = Len(clients) /\ clients'[k] = client
      /\ \A j \in 1..Len(clients) : j # k => clients'[j] = clients[j]
  BY <1>1, Placing
<1>3. \A c \in Callers : /\ caller'[c].at = caller[c].at /\ caller'[c].op = caller[c].op
                         /\ caller'[c].k = caller[c].k /\ caller'[c].id = caller[c].id
  BY DEF Replied
<1>4. LspShape'
  <2>1. \A c \in Callers : CallFits(caller'[c], Len(clients'))
    <3> SUFFICES ASSUME NEW c \in Callers PROVE CallFits(caller'[c], Len(clients'))
      OBVIOUS
    <3>1. CallFits(caller[c], Len(clients))
      BY <1>1 DEF LspShape
    <3> QED BY <1>2, <1>3, <3>1 DEF CallFits
  <2>2. LockFits'
    BY <1>1, <1>3 DEF LockFits, LspShape
  <2>3. current' \in 0..Len(clients') /\ lock' \in Callers \cup {Nobody}
    BY <1>1, <1>2 DEF LspShape
  <2> QED BY <1>1, <1>2, <2>1, <2>2, <2>3 DEF LspShape
<1>5. WaitIsJustified'
  <2>1. ASSUME NEW c \in Callers, Waits(caller'[c])
        PROVE  Justified(clients'[caller'[c].k], caller'[c].id)
    <3>1. caller[c].k \in 1..Len(clients) /\ Justified(clients[caller[c].k], caller[c].id)
      BY <2>1, WaitsJustified
    <3>2. CASE caller[c].k = k
      BY <1>2, <1>3, <2>1, <3>1, <3>2
    <3>3. CASE caller[c].k # k
      BY <1>2, <1>3, <3>1, <3>3
    <3> QED BY <3>2, <3>3
  <2> QED BY <2>1, WaitsMoves
<1>6. OneServer'
  <2> SUFFICES ASSUME NEW j \in DOMAIN clients', clients'[j].child = "up", j # current'
               PROVE  \/ clients'[j].stdin = "closed"
                      \/ lock' # Nobody /\ caller'[lock'].k = j
                      \/ clients'[j].exiting /\ \E d \in Callers : caller'[d].op = "shutdown" /\ caller'[d].k = j
    BY DEF OneServer
  <2>1. /\ j \in 1..Len(clients) /\ j \in DOMAIN clients /\ j # current
        /\ clients[j].child = "up" /\ clients'[j].stdin = clients[j].stdin /\ clients'[j].exiting = clients[j].exiting
    BY <1>1, <1>2 DEF Heeds
  <2>2. \/ clients[j].stdin = "closed"
        \/ lock # Nobody /\ caller[lock].k = j
        \/ clients[j].exiting /\ \E d \in Callers : caller[d].op = "shutdown" /\ caller[d].k = j
    BY <2>1 DEF LspInv, OneServer
  <2>3. lock # Nobody => lock \in Callers
    BY <1>1 DEF LspShape
  <2> QED BY <1>3, <2>1, <2>2, <2>3
<1>7. Follows'
  <2> SUFFICES ASSUME ~ overlap
               PROVE  \E x : Working(x)' /\ \A j \in 1..Len(clients') : Followed(x, clients'[j], j)
    BY DEF Follows
  <2>1. PICK r : Working(r) /\ \A j \in 1..Len(clients) : Followed(r, clients[j], j)
    BY DEF LspInv, Follows
  <2>2. \E x : Working(x)' /\ Replied(r, x)
    <3>1. CASE r = IdleCaller /\ \A c \in Callers : caller[c].at = "idle"
      <4>1. Working(r)'
        BY <1>3, <3>1 DEF Working
      <4> QED BY <4>1 DEF Replied
    <3>2. ASSUME NEW c \in Callers, r = caller[c], r.at # "idle", \A d \in Callers \ {c} : caller[d].at = "idle"
          PROVE  \E x : Working(x)' /\ Replied(r, x)
      <4>1. PICK x : x = caller'[c]
        OBVIOUS
      <4>2. Working(x)' /\ Replied(r, x)
        BY <1>3, <3>2, <4>1 DEF Working
      <4> QED BY <4>2
    <3> QED BY <2>1, <3>1, <3>2 DEF Working
  <2>3. PICK x : Working(x)' /\ Replied(r, x)
    BY <2>2
  <2>4. ASSUME NEW j \in 1..Len(clients') PROVE Followed(x, clients'[j], j)
    <3>1. j \in 1..Len(clients) /\ Followed(r, clients[j], j)
      BY <1>2, <2>1
    <3>2. CASE j = k
      BY <1>2, <2>3, <3>1, <3>2, FollowedHeeds
    <3>3. CASE j # k
      <4>1. Followed(x, clients[j], j)
        BY <2>3, <3>1 DEF Followed, Knows, Between, Replied
      <4> QED BY <1>2, <3>1, <3>3, <4>1
    <3> QED BY <3>2, <3>3
  <2> QED BY <2>3, <2>4
<1> QED BY <1>4, <1>5, <1>6, <1>7 DEF LspInv

LEMMA LspRests ==
  ASSUME LspInv, UNCHANGED <<clients, current, lock, caller, overlap>>, disk' \in Nat
  PROVE  LspInv'
<1>1. LspShape'
  BY DEF LspInv, LspShape, LockFits
<1>2. OneServer' /\ WaitIsJustified'
  BY DEF LspInv, OneServer, WaitIsJustified, me
<1>3. Follows'
  <2> SUFFICES ASSUME ~ overlap
               PROVE  \E x : Working(x)' /\ \A j \in 1..Len(clients') : Followed(x, clients'[j], j)
    BY DEF Follows
  <2>1. PICK r : Working(r) /\ \A j \in 1..Len(clients) : Followed(r, clients[j], j)
    BY DEF LspInv, Follows
  <2>2. Working(r)'
    BY <2>1 DEF Working
  <2> QED BY <2>1, <2>2
<1> QED BY <1>1, <1>2, <1>3 DEF LspInv

LEMMA CarriesTail ==
  ASSUME NEW S, NEW pipe \in Seq(S), pipe # <<>>, NEW id, Carries(pipe, id),
         Head(pipe).method \in {"garbage", "publishDiagnostics"} \/ Head(pipe).id # id
  PROVE  Carries(Tail(pipe), id)
<1>1. PICK i \in DOMAIN pipe : pipe[i].method # "garbage" /\ pipe[i].method # "publishDiagnostics" /\ pipe[i].id = id
  BY DEF Carries
<1>2. i \in 1..Len(pipe) /\ Head(pipe) = pipe[1] /\ Len(pipe) \in Nat /\ Len(Tail(pipe)) = Len(pipe) - 1
      /\ \A j \in 1..(Len(pipe) - 1) : Tail(pipe)[j] = pipe[j + 1]
  OBVIOUS
<1>3. i # 1
  BY <1>1, <1>2
<1>4. i - 1 \in 1..(Len(pipe) - 1) /\ (i - 1) + 1 = i
  BY <1>2, <1>3
<1>5. i - 1 \in DOMAIN Tail(pipe) /\ Tail(pipe)[i - 1] = pipe[i]
  BY <1>2, <1>4
<1> QED BY <1>1, <1>5 DEF Carries

LEMMA AnswerIs ==
  ASSUME NEW m \in Answered
  PROVE  /\ m.method \in {"response", "publishDiagnostics", "garbage"}
         /\ m.method = "response" => m.id \in Nat /\ m.result \in {"ok", "error"}
         /\ m.method = "publishDiagnostics" => m.text \in Nat
BY DEF Answered

LEMMA QuestionIs ==
  ASSUME NEW m \in Asked
  PROVE  /\ m.id \in Nat /\ m.method \notin {"garbage", "publishDiagnostics"}
         /\ m.method \in {"didOpen", "didChange"} => m.text \in Nat
BY DEF Asked

(* Who is told.                                                            *)
LEMMA Telling ==
  ASSUME LspInv, NEW k, NEW ids, NEW got_result \in {"ok", "error"}, delivered(k, ids, got_result)
  PROVE  /\ caller' \in [Callers -> Call]
         /\ \A c \in Callers : Replied(caller[c], caller'[c])
         /\ \A c \in Callers : caller[c].at = "idle" => caller'[c] = caller[c]
         /\ \A c \in Callers : Waits(caller'[c]) => Waits(caller[c]) /\ (caller[c].k = k => caller[c].id \notin ids)
<1>1. caller \in [Callers -> Call]
  BY DEF LspInv, LspShape
<1>2. \A r \in Call : [r EXCEPT !.reply = got_result] \in Call
  BY DEF Call
<1>3. \A c \in Callers :
        caller'[c] = IF caller[c].k = k /\ caller[c].at \in {"wait", "initialize"} /\ caller[c].id \in ids
                     THEN [caller[c] EXCEPT !.reply = got_result] ELSE caller[c]
  BY DEF delivered
<1>4. caller' \in [Callers -> Call]
  <2>1. \A c \in Callers : caller'[c] \in Call
    BY <1>1, <1>2, <1>3
  <2>2. caller' = [c \in Callers |-> caller'[c]]
    BY DEF delivered
  <2> QED BY <2>1, <2>2
<1>5. \A r \in Call : LET x == [r EXCEPT !.reply = got_result] IN
        Replied(r, x) /\ x.reply = got_result
  BY DEF Call, Replied
<1>6. ASSUME NEW c \in Callers
      PROVE  /\ Replied(caller[c], caller'[c])
             /\ caller[c].at = "idle" => caller'[c] = caller[c]
             /\ Waits(caller'[c]) => Waits(caller[c]) /\ (caller[c].k = k => caller[c].id \notin ids)
  <2>1. CASE caller[c].k = k /\ caller[c].at \in {"wait", "initialize"} /\ caller[c].id \in ids
    <3>1. caller'[c] = [caller[c] EXCEPT !.reply = got_result] /\ caller[c] \in Call
      BY <1>1, <1>3, <2>1
    <3>2. Replied(caller[c], caller'[c]) /\ caller'[c].reply = got_result
      BY <1>5, <3>1
    <3> QED BY <2>1, <3>2 DEF Waits
  <2>2. CASE ~ (caller[c].k = k /\ caller[c].at \in {"wait", "initialize"} /\ caller[c].id \in ids)
    <3>1. caller'[c] = caller[c]
      BY <1>3, <2>2
    <3> QED BY <2>2, <3>1 DEF Waits, Replied
  <2> QED BY <2>1, <2>2
<1> QED BY <1>4, <1>6

LEMMA Untold ==
  ASSUME LspInv, UNCHANGED caller
  PROVE  /\ caller' \in [Callers -> Call]
         /\ \A c \in Callers : Replied(caller[c], caller'[c])
         /\ \A c \in Callers : caller[c].at = "idle" => caller'[c] = caller[c]
BY DEF LspInv, LspShape, Replied

LEMMA ReadStep ==
  ASSUME LspInv, NEW k \in 1..Len(clients), reader(k)
  PROVE  LspInv'
<1> DEFINE old == clients[k]
           m == Head(old.to_client)
           q == Tail(old.to_client)
<1>1. old \in Server /\ old.to_client \in Seq(Answered) /\ old.to_server \in Seq(Asked)
  BY ServerAt DEF LspInv, LspShape
<1>2. old.to_client # <<>> => m \in Answered /\ q \in Seq(Answered)
  BY <1>1
<1>3. UNCHANGED <<current, lock, disk, overlap>> /\ old.reader = "on"
  BY DEF reader
<1>4. \/ /\ old.to_client # <<>> /\ m.method = "response"
         /\ clients' = [clients EXCEPT ![k] = [old EXCEPT !.to_client = q, !.pending = old.pending \ {m.id}]]
         /\ delivered(k, old.pending \cap {m.id}, m.result)
      \/ /\ old.to_client # <<>> /\ m.method = "publishDiagnostics"
         /\ clients' = [clients EXCEPT ![k] = [old EXCEPT !.to_client = q, !.diagnostics = m.text]]
         /\ UNCHANGED caller
      \/ /\ old.to_client # <<>> /\ m.method = "garbage"
         /\ clients' = [clients EXCEPT ![k] = [old EXCEPT !.to_client = q, !.reader = "error", !.pending = {}]]
         /\ delivered(k, old.pending, "error")
      \/ /\ old.to_client = <<>>
         /\ clients' = [clients EXCEPT ![k] = [old EXCEPT !.reader = "eof"]]
         /\ UNCHANGED caller
  <2>1. old.to_client # <<>> => m.method \in {"response", "publishDiagnostics", "garbage"}
    BY <1>2, AnswerIs
  <2> QED BY <1>1, <2>1 DEF reader
<1> HIDE DEF old, m, q
<1>5. CASE /\ old.to_client # <<>> /\ m.method = "response"
           /\ clients' = [clients EXCEPT ![k] = [old EXCEPT !.to_client = q, !.pending = old.pending \ {m.id}]]
           /\ delivered(k, old.pending \cap {m.id}, m.result)
  <2>1. PICK client : client = [old EXCEPT !.to_client = q, !.pending = old.pending \ {m.id}]
    OBVIOUS
  <2>2. q \in Seq(Answered) /\ m.id \in Nat /\ m.result \in {"ok", "error"} /\ m \in Answered
    BY <1>2, <1>5, AnswerIs
  <2>3. client \in Server
    <3>1. \A p \in SUBSET Nat : [old EXCEPT !.to_client = q, !.pending = p] \in Server
      BY <1>1, <2>2 DEF Server
    <3>2. old.pending \ {m.id} \in SUBSET Nat
      BY <1>1 DEF Server
    <3> QED BY <2>1, <3>1, <3>2
  <2>4. /\ client.open_documents = old.open_documents /\ client.text = old.text /\ client.child = old.child
        /\ client.stdin = old.stdin /\ client.exiting = old.exiting /\ client.view = old.view
        /\ client.to_server = old.to_server /\ client.to_client = q /\ client.pending = old.pending \ {m.id}
        /\ client.reader = old.reader
    BY <1>1, <2>1 DEF Server
  <2>5. Heeds(clients[k], client)
    BY <2>4 DEF Heeds, old
  <2>6. /\ caller' \in [Callers -> Call]
        /\ \A c \in Callers : Replied(caller[c], caller'[c])
        /\ \A c \in Callers : caller[c].at = "idle" => caller'[c] = caller[c]
        /\ \A c \in Callers : Waits(caller'[c]) =>
             Waits(caller[c]) /\ (caller[c].k = k => caller[c].id \notin (old.pending \cap {m.id}))
    <3>1. delivered(k, old.pending \cap {m.id}, m.result)
      BY <1>5
    <3> QED BY <2>2, <3>1, Telling
  <2>7. ASSUME NEW id, id \notin (old.pending \cap {m.id}), Justified(old, id)
        PROVE  Justified(client, id)
    <3>1. CASE old.child = "dead"
      BY <2>4, <3>1 DEF Justified
    <3>2. CASE old.child # "dead"
      <4>1. id \in old.pending /\ id # m.id /\ (Carries(old.to_server, id) \/ Carries(old.to_client, id))
        BY <1>3, <2>7, <3>2 DEF Justified
      <4>2. Carries(old.to_client, id) => Carries(q, id)
        BY <1>1, <1>5, <4>1, CarriesTail DEF m, q
      <4> QED BY <2>4, <4>1, <4>2 DEF Justified
    <3> QED BY <3>1, <3>2
  <2>8. \A c \in Callers : Waits(caller'[c]) =>
           Waits(caller[c]) /\ (caller[c].k = k /\ Justified(clients[k], caller[c].id) => Justified(client, caller[c].id))
    BY <2>6, <2>7 DEF old
  <2>9. clients' = [clients EXCEPT ![k] = client]
    BY <1>5, <2>1
  <2> QED BY <1>3, <2>3, <2>5, <2>6, <2>8, <2>9, WorldStep
<1>6. CASE /\ old.to_client # <<>> /\ m.method = "publishDiagnostics"
           /\ clients' = [clients EXCEPT ![k] = [old EXCEPT !.to_client = q, !.diagnostics = m.text]]
           /\ UNCHANGED caller
  <2>1. PICK client : client = [old EXCEPT !.to_client = q, !.diagnostics = m.text]
    OBVIOUS
  <2>2. q \in Seq(Answered) /\ m.text \in Nat
    BY <1>2, <1>6, AnswerIs
  <2>3. client \in Server
    BY <1>1, <2>1, <2>2 DEF Server
  <2>4. /\ client.open_documents = old.open_documents /\ client.text = old.text /\ client.child = old.child
        /\ client.stdin = old.stdin /\ client.exiting = old.exiting /\ client.view = old.view
        /\ client.to_server = old.to_server /\ client.to_client = q /\ client.pending = old.pending
        /\ client.reader = old.reader
    BY <1>1, <2>1 DEF Server
  <2>5. Heeds(clients[k], client)
    BY <2>4 DEF Heeds, old
  <2>6. ASSUME NEW id, Justified(old, id)
        PROVE  Justified(client, id)
    <3>1. Carries(old.to_client, id) => Carries(q, id)
      BY <1>1, <1>6, CarriesTail DEF m, q
    <3> QED BY <2>4, <2>6, <3>1 DEF Justified
  <2>7. \A c \in Callers : Waits(caller'[c]) =>
           Waits(caller[c]) /\ (caller[c].k = k /\ Justified(clients[k], caller[c].id) => Justified(client, caller[c].id))
    BY <1>6, <2>6 DEF old
  <2>8. clients' = [clients EXCEPT ![k] = client]
    BY <1>6, <2>1
  <2>9. /\ caller' \in [Callers -> Call]
        /\ \A c \in Callers : Replied(caller[c], caller'[c])
        /\ \A c \in Callers : caller[c].at = "idle" => caller'[c] = caller[c]
    BY <1>6, Untold
  <2> QED BY <1>3, <2>3, <2>5, <2>7, <2>8, <2>9, WorldStep
<1>7. CASE /\ old.to_client # <<>> /\ m.method = "garbage"
           /\ clients' = [clients EXCEPT ![k] = [old EXCEPT !.to_client = q, !.reader = "error", !.pending = {}]]
           /\ delivered(k, old.pending, "error")
  <2>1. PICK client : client = [old EXCEPT !.to_client = q, !.reader = "error", !.pending = {}]
    OBVIOUS
  <2>2. q \in Seq(Answered)
    BY <1>2, <1>7
  <2>3. client \in Server
    <3>1. \A p \in SUBSET Nat : [old EXCEPT !.to_client = q, !.reader = "error", !.pending = p] \in Server
      BY <1>1, <2>2 DEF Server
    <3>2. {} \in SUBSET Nat
      OBVIOUS
    <3> QED BY <2>1, <3>1, <3>2
  <2>4. /\ client.open_documents = old.open_documents /\ client.text = old.text /\ client.child = old.child
        /\ client.stdin = old.stdin /\ client.exiting = old.exiting /\ client.view = old.view
        /\ client.to_server = old.to_server /\ client.reader = "error"
    BY <1>1, <2>1 DEF Server
  <2>5. Heeds(clients[k], client)
    BY <2>4 DEF Heeds, old
  <2>6. /\ caller' \in [Callers -> Call]
        /\ \A c \in Callers : Replied(caller[c], caller'[c])
        /\ \A c \in Callers : caller[c].at = "idle" => caller'[c] = caller[c]
        /\ \A c \in Callers : Waits(caller'[c]) => Waits(caller[c]) /\ (caller[c].k = k => caller[c].id \notin old.pending)
    <3>1. delivered(k, old.pending, "error")
      BY <1>7
    <3> QED BY <3>1, Telling
  <2>7. \A c \in Callers : Waits(caller'[c]) =>
           Waits(caller[c]) /\ (caller[c].k = k /\ Justified(clients[k], caller[c].id) => Justified(client, caller[c].id))
    BY <2>4, <2>6 DEF Justified
  <2>8. clients' = [clients EXCEPT ![k] = client]
    BY <1>7, <2>1
  <2> QED BY <1>3, <2>3, <2>5, <2>6, <2>7, <2>8, WorldStep
<1>8. CASE /\ old.to_client = <<>>
           /\ clients' = [clients EXCEPT ![k] = [old EXCEPT !.reader = "eof"]]
           /\ UNCHANGED caller
  <2>1. PICK client : client = [old EXCEPT !.reader = "eof"]
    OBVIOUS
  <2>2. client \in Server
    BY <1>1, <2>1 DEF Server
  <2>3. /\ client.open_documents = old.open_documents /\ client.text = old.text /\ client.child = old.child
        /\ client.stdin = old.stdin /\ client.exiting = old.exiting /\ client.view = old.view
        /\ client.to_server = old.to_server /\ client.reader = "eof"
    BY <1>1, <2>1 DEF Server
  <2>4. Heeds(clients[k], client)
    BY <2>3 DEF Heeds, old
  <2>5. \A c \in Callers : Waits(caller'[c]) =>
           Waits(caller[c]) /\ (caller[c].k = k /\ Justified(clients[k], caller[c].id) => Justified(client, caller[c].id))
    BY <1>8, <2>3 DEF Justified
  <2>6. clients' = [clients EXCEPT ![k] = client]
    BY <1>8, <2>1
  <2>7. /\ caller' \in [Callers -> Call]
        /\ \A c \in Callers : Replied(caller[c], caller'[c])
        /\ \A c \in Callers : caller[c].at = "idle" => caller'[c] = caller[c]
    BY <1>8, Untold
  <2> QED BY <1>3, <2>2, <2>4, <2>5, <2>6, <2>7, WorldStep
<1> QED BY <1>4, <1>5, <1>6, <1>7, <1>8

LEMMA AnswerStep ==
  ASSUME LspInv, NEW k \in 1..Len(clients), server_answers(k)
  PROVE  LspInv'
<1> DEFINE old == clients[k]
           m == Head(old.to_server)
           q == Tail(old.to_server)
           u == told(old.view, m)
           read == [old EXCEPT !.to_server = q, !.view = u]
           note == [method |-> "publishDiagnostics", text |-> m.text]
           notes == m.method \in {"didOpen", "didChange"}
<1>1. /\ old \in Server /\ old.to_client \in Seq(Answered) /\ old.to_server \in Seq(Asked)
      /\ old.view \in View
  BY ServerAt DEF LspInv, LspShape
<1>2. /\ UNCHANGED <<current, lock, caller, disk, overlap>>
      /\ old.child = "up" /\ old.to_server # <<>>
  BY DEF server_answers
<1>3. PICK got_result \in {"ok", "error"} :
        clients' = [clients EXCEPT ![k] =
          IF m.id # 0 THEN [read EXCEPT !.to_client = Append(old.to_client, Response(m, got_result))]
          ELSE IF notes THEN [read EXCEPT !.to_client = Append(old.to_client, note)]
          ELSE read]
  BY <1>1 DEF server_answers, Server
<1>4. m \in Asked /\ q \in Seq(Asked)
  BY <1>1, <1>2
<1>5. u \in View /\ m.id \in Nat /\ (notes => m.text \in Nat)
  <2>1. u \in View
    BY <1>1, <1>4, ToldView
  <2> QED BY <1>4, <2>1, QuestionIs
<1>6. Response(m, got_result) \in Answered /\ Response(m, got_result).method = "response" /\ Response(m, got_result).id = m.id
  BY <1>5 DEF Response, Answered
<1>7. notes => note \in Answered
  BY <1>5 DEF Answered
<1> HIDE DEF old, m, q, u, note, notes
<1>8. PICK p \in Seq(Answered) :
        /\ clients' = [clients EXCEPT ![k] = [old EXCEPT !.to_server = q, !.view = u, !.to_client = p]]
        /\ \A id : Carries(old.to_client, id) => Carries(p, id)
        /\ m.id # 0 => Carries(p, m.id)
  <2>1. read = [old EXCEPT !.to_server = q, !.view = u, !.to_client = old.to_client]
    BY <1>1 DEF Server
  <2>2. \A p : [read EXCEPT !.to_client = p] = [old EXCEPT !.to_server = q, !.view = u, !.to_client = p]
    BY <1>1 DEF Server
  <2> HIDE DEF read
  <2>3. CASE m.id # 0
    <3> DEFINE p == Append(old.to_client, Response(m, got_result))
    <3>1. p \in Seq(Answered) /\ Carries(p, m.id) /\ \A id : Carries(old.to_client, id) => Carries(p, id)
      BY <1>1, <1>6, CarriesMore
    <3>2. clients' = [clients EXCEPT ![k] = [old EXCEPT !.to_server = q, !.view = u, !.to_client = p]]
      BY <1>3, <2>2, <2>3
    <3> QED BY <3>1, <3>2
  <2>4. CASE m.id = 0 /\ notes
    <3> DEFINE p == Append(old.to_client, note)
    <3>1. p \in Seq(Answered) /\ \A id : Carries(old.to_client, id) => Carries(p, id)
      BY <1>1, <1>7, <2>4, CarriesMore
    <3>2. clients' = [clients EXCEPT ![k] = [old EXCEPT !.to_server = q, !.view = u, !.to_client = p]]
      BY <1>3, <2>2, <2>4
    <3> QED BY <2>4, <3>1, <3>2
  <2>5. CASE m.id = 0 /\ ~ notes
    <3>1. clients' = [clients EXCEPT ![k] = [old EXCEPT !.to_server = q, !.view = u, !.to_client = old.to_client]]
      BY <1>3, <2>1, <2>5
    <3> QED BY <1>1, <2>5, <3>1
  <2> QED BY <2>3, <2>4, <2>5
<1>9. PICK client : client = [old EXCEPT !.to_server = q, !.view = u, !.to_client = p]
  OBVIOUS
<1>10. client \in Server
  BY <1>1, <1>4, <1>5, <1>9 DEF Server
<1>11. /\ client.open_documents = old.open_documents /\ client.text = old.text /\ client.child = old.child
       /\ client.stdin = old.stdin /\ client.exiting = old.exiting /\ client.view = u
       /\ client.to_server = q /\ client.to_client = p /\ client.pending = old.pending
       /\ client.reader = old.reader
  BY <1>1, <1>9 DEF Server
<1>12. Heeds(clients[k], client)
  <2>1. \A v : Heard(old.view, old.to_server, v) => Heard(u, q, v)
    <3> SUFFICES ASSUME NEW v, Heard(old.view, old.to_server, v) PROVE Heard(u, q, v)
      OBVIOUS
    <3>1. old.to_server \in Seq(Asked) /\ old.to_server # <<>>
      BY <1>1, <1>2
    <3> QED BY <3>1, HeardRest DEF u, q, m
  <2>2. \A v : Heard(u, q, v) => ~ u.wrong
    BY <1>4, HeardEnds
  <2> QED BY <1>2, <1>11, <2>1, <2>2 DEF Heeds, old
<1>13. ASSUME NEW id \in Nat, id # 0, Justified(old, id) PROVE Justified(client, id)
  <2>1. CASE old.reader # "on"
    BY <1>11, <2>1 DEF Justified
  <2>2. CASE id \in old.pending /\ Carries(old.to_client, id)
    BY <1>8, <1>11, <2>2 DEF Justified
  <2>3. CASE id \in old.pending /\ Carries(old.to_server, id)
    <3>1. CASE m.id = id
      BY <1>8, <1>11, <1>13, <2>3, <3>1 DEF Justified
    <3>2. CASE m.id # id
      <4>1. Carries(q, id)
        BY <1>1, <1>2, <2>3, <3>2, CarriesTail DEF m, q
      <4> QED BY <1>11, <2>3, <4>1 DEF Justified
    <3> QED BY <3>1, <3>2
  <2> QED BY <1>2, <1>13, <2>1, <2>2, <2>3 DEF Justified
<1>14. \A c \in Callers : Waits(caller'[c]) =>
          Waits(caller[c]) /\ (caller[c].k = k /\ Justified(clients[k], caller[c].id) => Justified(client, caller[c].id))
  <2> SUFFICES ASSUME NEW c \in Callers, Waits(caller[c]), Justified(old, caller[c].id)
               PROVE  Justified(client, caller[c].id)
    BY <1>2 DEF old
  <2>1. caller[c].id \in Nat /\ caller[c].id # 0
    BY CallAt DEF CallFits, Waits, Call
  <2> QED BY <1>13, <2>1
<1>15. clients' = [clients EXCEPT ![k] = client]
  BY <1>8, <1>9
<1>16. /\ caller' \in [Callers -> Call]
       /\ \A c \in Callers : Replied(caller[c], caller'[c])
       /\ \A c \in Callers : caller[c].at = "idle" => caller'[c] = caller[c]
  BY <1>2, Untold
<1> QED BY <1>2, <1>10, <1>12, <1>14, <1>15, <1>16, WorldStep

LEMMA FailStep ==
  ASSUME LspInv, NEW k \in 1..Len(clients), server_fails(k)
  PROVE  LspInv'
<1> DEFINE old == clients[k]
<1>1. /\ old \in Server /\ old.to_client \in Seq(Answered) /\ old.view \in View
  BY ServerAt DEF LspInv, LspShape
<1>2. UNCHANGED <<current, lock, caller, disk, overlap>>
  BY DEF server_fails
<1>3. \/ clients' = [clients EXCEPT ![k] = [old EXCEPT !.child = "dead", !.to_server = <<>>]]
      \/ clients' = [clients EXCEPT ![k] = [old EXCEPT !.to_client = Append(old.to_client, [method |-> "garbage"])]]
  BY <1>1 DEF server_fails
<1> HIDE DEF old
<1>4. PICK client \in Server :
        /\ clients' = [clients EXCEPT ![k] = client] /\ Heeds(old, client)
        /\ \A id : Justified(old, id) => Justified(client, id)
  <2>1. CASE clients' = [clients EXCEPT ![k] = [old EXCEPT !.child = "dead", !.to_server = <<>>]]
    <3>1. PICK client : client = [old EXCEPT !.child = "dead", !.to_server = <<>>]
      OBVIOUS
    <3>2. /\ client \in Server /\ client.child = "dead" /\ client.open_documents = old.open_documents
          /\ client.text = old.text /\ client.stdin = old.stdin /\ client.exiting = old.exiting
          /\ client.view = old.view
      BY <1>1, <3>1, ServerKilled
    <3>3. Heeds(old, client) /\ \A id : Justified(old, id) => Justified(client, id)
      BY <3>2 DEF Heeds, Justified
    <3> QED BY <2>1, <3>1, <3>2, <3>3
  <2>2. CASE clients' = [clients EXCEPT ![k] = [old EXCEPT !.to_client = Append(old.to_client, [method |-> "garbage"])]]
    <3> DEFINE p == Append(old.to_client, [method |-> "garbage"])
    <3>1. [method |-> "garbage"] \in Answered
      BY DEF Answered
    <3>2. p \in Seq(Answered) /\ \A id : Carries(old.to_client, id) => Carries(p, id)
      BY <1>1, <3>1, CarriesMore
    <3> HIDE DEF p
    <3>3. PICK client : client = [old EXCEPT !.to_client = p]
      OBVIOUS
    <3>4. client \in Server
      BY <1>1, <3>2, <3>3 DEF Server
    <3>5. /\ client.child = old.child /\ client.open_documents = old.open_documents
          /\ client.text = old.text /\ client.stdin = old.stdin /\ client.exiting = old.exiting
          /\ client.view = old.view /\ client.reader = old.reader /\ client.pending = old.pending
          /\ client.to_server = old.to_server /\ client.to_client = p
      BY <1>1, <3>3 DEF Server
    <3>6. Heeds(old, client) /\ \A id : Justified(old, id) => Justified(client, id)
      BY <3>2, <3>5 DEF Heeds, Justified
    <3>7. clients' = [clients EXCEPT ![k] = client]
      BY <2>2, <3>3 DEF p
    <3> QED BY <3>4, <3>6, <3>7
  <2> QED BY <1>3, <2>1, <2>2
<1>5. \A c \in Callers : Waits(caller'[c]) =>
          Waits(caller[c]) /\ (caller[c].k = k /\ Justified(clients[k], caller[c].id) => Justified(client, caller[c].id))
  BY <1>2, <1>4 DEF old
<1>6. /\ caller' \in [Callers -> Call]
      /\ \A c \in Callers : Replied(caller[c], caller'[c])
      /\ \A c \in Callers : caller[c].at = "idle" => caller'[c] = caller[c]
  BY <1>2, Untold
<1>7. clients' = [clients EXCEPT ![k] = client] /\ Heeds(clients[k], client)
  BY <1>4 DEF old
<1> QED BY <1>2, <1>4, <1>5, <1>6, <1>7, WorldStep

LEMMA LspMoves ==
  ASSUME LspInv, LspNext
  PROVE  LspInv'
<1>1. ASSUME NEW c \in Callers, NEW asked_op \in Operations, begin_call(c, asked_op) PROVE LspInv'
  BY <1>1, BeginStep
<1>2. ASSUME NEW k \in DOMAIN clients, reader(k) \/ server_answers(k) \/ server_fails(k) PROVE LspInv'
  <2>1. k \in 1..Len(clients)
    BY <1>2 DEF LspInv, LspShape
  <2> QED BY <1>2, <2>1, ReadStep, AnswerStep, FailStep
<1>3. ASSUME edit PROVE LspInv'
  <2>1. disk' \in Nat
    BY <1>3 DEF edit, LspInv, LspShape
  <2>2. UNCHANGED <<clients, current, lock, caller, overlap>>
    BY <1>3 DEF edit
  <2> QED BY <2>1, <2>2, LspRests
<1> QED
  BY <1>1, <1>2, <1>3, ConnectStep, SpawnStep, InitializedStep, OpenStep, VersionStep, NotifyStep, NotedStep,
     RequestStep, ReceiveStep, ShutdownStep, KillStep, DiagnosticsStep DEF LspNext

LEMMA LspIdle ==
  ASSUME LspInv, UNCHANGED lspVars
  PROVE  LspInv'
<1>1. disk' \in Nat /\ UNCHANGED <<clients, current, lock, caller, overlap>>
  BY DEF lspVars, LspInv, LspShape
<1> QED BY <1>1, LspRests

(* What the language server client promises (MCLocal.LanguageServerSound): *)
(* no server runs beside the one in the map unless it is starting, being   *)
(* shut down or refused, because client_for_path keeps the lock until its  *)
(* server has answered; a call waits only for an answer that is on its way *)
(* or for a server or reader that is gone; and while calls do not overlap  *)
(* didOpen, didChange and didClose keep the server at the text and version *)
(* that the client has noted.                                              *)
THEOREM LanguageServerSafe == MCSpec => []LanguageServerSound
<1> DEFINE ServerInv == part = "lsp" => LspInv
<1>1. MCInit => ServerInv
  BY LspStart DEF MCInit
<1>2. ServerInv /\
      [MCNext]_<<part, vars, filesVars, bashVars, toolsVars, browserVars, agentVars, lspVars,
                 argsVars, editorVars, installVars, onboardVars, configVars>>
        => ServerInv'
  BY LspMoves, LspIdle DEF MCNext
<1>3. ServerInv => LanguageServerSound
  BY LspHolds DEF LanguageServerSound
<1> QED
  BY <1>1, <1>2, <1>3, PTL DEF MCSpec
=============================================================================
