---------------------------- MODULE MontageProofs ----------------------------
(***************************************************************************)
(* The FAT in memory and on the disk, and the directory, whoever is killed *)
(* and when: proofs of the invariants and of the action property of        *)
(* Montage for every disk, block size and set of names.                    *)
(***************************************************************************)
EXTENDS Montage, VolumeProofs

(* One block write leads from v to w: of a block that is not the FAT's, or *)
(* of an entry of the FAT.                                                 *)
Marks(v, w) ==
  /\ \E n \in Blocs : v.fat[n] # w.fat[n] /\ \A i \in Blocs : i # n => w.fat[i] = v.fat[i]
  /\ w.disk = [i \in Blocs |-> IF w.fat[i] = FAT_FREE THEN Blank ELSE v.disk[i]]
Leads(v, w) == Sound(w) /\ (w.fat = v.fat \/ Marks(v, w))

(* The writes of a call, from volume v on: the last is the one that the    *)
(* directory shows.                                                        *)
Path(v, q) ==
  \/ q = <<>> /\ Clean(v)
  \/ \E a : q = <<a>> /\ Leads(v, a) /\ Clean(a)
  \/ \E a, b : /\ q = <<a, b>> /\ Leads(v, a) /\ SameNames(v, a)
               /\ Leads(a, b) /\ Clean(b)
  \/ \E a, b, c : /\ q = <<a, b, c>> /\ Leads(v, a) /\ SameNames(v, a)
                  /\ Leads(a, b) /\ SameNames(a, b)
                  /\ Leads(b, c) /\ Clean(c)

DiskNow == [fat |-> fat, disk |-> disk]

(* Between two calls, and in one. *)
Mounting ==
  /\ phase \in {"marche", "sauve"} =>
       super /\ tab \in Fats /\ modif \in [FatBlocks -> BOOLEAN]
  /\ phase = "marche" =>
       tab = fat /\ (\A b \in FatBlocks : ~modif[b]) /\ Path(DiskNow, todo)

(* An entry of the FAT is being saved. *)
Behind ==
  \E n \in Blocs : /\ fat[n] # tab[n] /\ \A i \in Blocs : i # n => fat[i] = tab[i]
                   /\ modif = [b \in FatBlocks |-> b = FatBlock(n)]
Saving ==
  phase = "sauve" =>
    /\ todo # <<>> /\ Head(todo).fat = tab /\ Sound(Head(todo)) /\ Path(Head(todo), Tail(todo))
    /\ IF Tail(todo) = <<>> THEN Last(todo) = Head(todo) ELSE SameNames(DiskNow, Head(todo))
    /\ Head(todo).disk = [n \in Blocs |-> IF tab[n] = FAT_FREE THEN Blank ELSE disk[n]]
    /\ \/ fat = tab /\ disk = Head(todo).disk /\ \A b \in FatBlocks : ~modif[b]
       \/ Behind

(* In a format the FAT is the empty one up to block k. *)
Formatting ==
  phase = "format" =>
    /\ k <= FAT_SIZE + 1 /\ (k = FAT_SIZE + 1 => super)
    /\ \A i \in Blocs : FatBlock(i) < k => fat[i] = create_empty_fat[i]

MInv ==
  /\ fat \in Fats /\ IsDisk(disk) /\ super \in BOOLEAN /\ k \in Nat
  /\ phase \in {"arret", "format", "marche", "sauve"}
  /\ fat[ADR_DIR] # FAT_FREE
  /\ super => Sound(DiskNow)
  /\ ~super => disk[ADR_DIR] = EmptyDir
  /\ phase \in {"arret", "format"} => Clean(DiskNow)
  /\ phase \in {"arret", "format"} => todo = <<>>
  /\ Formatting /\ Mounting /\ Saving

-----------------------------------------------------------------------------
(* What Call makes of the volume v and of w, to which the call leads. *)
Sortie(w) == Append(Tail(w.passe), OnDisk(w))
OneName(v, w) ==
  Cardinality({nom \in NOMS : find_inode(v, nom) # find_inode(w, nom)})
    = IF {n \in Blocs : w.disk[n] # v.disk[n] /\ w.fat[n] # FAT_FREE} = {} THEN 0 ELSE 1
Called(v, w) ==
  /\ Sortie(w) # <<>> /\ Last(Sortie(w)) = OnDisk(w)
  /\ Path(OnDisk(v), Sortie(w)) /\ OneName(v, OnDisk(w))

(* A sequence built by appending. *)
LEMMA Appended ==
  ASSUME NEW x, NEW y, NEW z
  PROVE  Append(<<x>>, y) = <<x, y>> /\ Append(<<x, y>>, z) = <<x, y, z>>
<1> DEFINE S == {x, y, z}
           a == <<x>>
           b == <<x, y>>
           c == <<x, y, z>>
<1>1. /\ a \in Seq(S) /\ Len(a) = 1 /\ a[1] = x /\ y \in S /\ z \in S
      /\ b \in Seq(S) /\ Len(b) = 2 /\ b[1] = x /\ b[2] = y
      /\ c \in Seq(S) /\ Len(c) = 3 /\ c[1] = x /\ c[2] = y /\ c[3] = z
  OBVIOUS
<1> HIDE DEF S, a, b, c
<1>2. /\ Append(a, y) \in Seq(S) /\ Len(Append(a, y)) = 2
      /\ Append(a, y)[1] = x /\ Append(a, y)[2] = y
  <2>1. /\ Append(a, y) \in Seq(S) /\ Len(Append(a, y)) = Len(a) + 1
        /\ \A i \in 1 .. Len(a) : Append(a, y)[i] = a[i]
        /\ Append(a, y)[Len(a) + 1] = y
    <3>1. a \in Seq(S) /\ y \in S
      BY <1>1
    <3> QED
      BY <3>1, AppendProperties
  <2> QED
    BY <1>1, <2>1
<1>3. /\ Append(b, z) \in Seq(S) /\ Len(Append(b, z)) = 3
      /\ Append(b, z)[1] = x /\ Append(b, z)[2] = y /\ Append(b, z)[3] = z
  <2>1. /\ Append(b, z) \in Seq(S) /\ Len(Append(b, z)) = Len(b) + 1
        /\ \A i \in 1 .. Len(b) : Append(b, z)[i] = b[i]
        /\ Append(b, z)[Len(b) + 1] = z
    <3>1. b \in Seq(S) /\ z \in S
      BY <1>1
    <3> QED
      BY <3>1, AppendProperties
  <2> QED
    BY <1>1, <2>1
<1>4. Append(a, y) = b /\ Append(b, z) = c
  BY <1>1, <1>2, <1>3
<1> QED
  BY <1>4 DEF a, b, c

(* The writes of a call that makes one, *)
LEMMA OneWrite ==
  ASSUME NEW w, NEW x, w.passe = Append(<<>>, x)
  PROVE  Sortie(w) = <<OnDisk(w)>> /\ Last(Sortie(w)) = OnDisk(w)
<1>1. Sortie(w) = <<OnDisk(w)>>
  <2>1. w.passe = <<x>> /\ Tail(w.passe) = <<>>
    OBVIOUS
  <2> QED
    BY <2>1 DEF Sortie
<1> QED
  BY <1>1 DEF Last

(* and of one that makes three. *)
LEMMA ThreeWrites ==
  ASSUME NEW w, NEW x, NEW y, NEW z, w.passe = Append(Append(Append(<<>>, x), y), z)
  PROVE  Sortie(w) = <<y, z, OnDisk(w)>> /\ Last(Sortie(w)) = OnDisk(w)
<1>1. Sortie(w) = <<y, z, OnDisk(w)>>
  <2>1. w.passe = <<x, y, z>>
    <3>1. Append(<<>>, x) = <<x>>
      OBVIOUS
    <3>2. Append(<<x>>, y) = <<x, y>> /\ Append(<<x, y>>, z) = <<x, y, z>>
      BY Appended, Zenon
    <3> QED
      BY <3>1, <3>2, Zenon
  <2>2. Tail(<<x, y, z>>) = <<y, z>>
    OBVIOUS
  <2>3. Append(<<y, z>>, OnDisk(w)) = <<y, z, OnDisk(w)>>
    BY Appended, Zenon
  <2> QED
    BY <2>1, <2>2, <2>3, Zenon DEF Sortie
<1> QED
  BY <1>1 DEF Last

(* One name has another inode, or no name and no block of the directory.   *)
LEMMA OneNameChanged ==
  ASSUME NEW v, NEW w, NEW nom \in NOMS,
         \A x : x # nom => find_inode(w, x) = find_inode(v, x),
         find_inode(w, nom) # find_inode(v, nom) <=>
           \E n \in Blocs : w.disk[n] # v.disk[n] /\ w.fat[n] # FAT_FREE
  PROVE  OneName(v, w)
<1> DEFINE C == {x \in NOMS : find_inode(v, x) # find_inode(w, x)}
           D == {n \in Blocs : w.disk[n] # v.disk[n] /\ w.fat[n] # FAT_FREE}
<1>1. C = IF D = {} THEN {} ELSE {nom}
  OBVIOUS
<1>2. Cardinality({}) = 0 /\ Cardinality({nom}) = 1
  BY FS_EmptySet, FS_Singleton
<1> HIDE DEF C, D
<1>3. Cardinality(C) = IF D = {} THEN 0 ELSE 1
  BY <1>1, <1>2
<1> QED
  BY <1>3 DEF C, D, OneName

(* A call that leaves the directory alone changes no name. *)
LEMMA NoNameChanged ==
  ASSUME NEW v, NEW w, SameNames(v, w),
         \A n \in Blocs : w.fat[n] # FAT_FREE => w.disk[n] = v.disk[n]
  PROVE  OneName(v, w)
<1> DEFINE C == {x \in NOMS : find_inode(v, x) # find_inode(w, x)}
           D == {n \in Blocs : w.disk[n] # v.disk[n] /\ w.fat[n] # FAT_FREE}
<1>1. C = {} /\ D = {}
  BY DEF SameNames
<1>2. Cardinality({}) = 0
  BY FS_EmptySet
<1> HIDE DEF C, D
<1>3. Cardinality(C) = IF D = {} THEN 0 ELSE 1
  BY <1>1, <1>2
<1> QED
  BY <1>3 DEF C, D, OneName

(* What is on the disk is the volume without its record of writes. *)
LEMMA OnDiskSame ==
  ASSUME NEW v
  PROVE  /\ OnDisk(v).fat = v.fat /\ OnDisk(v).disk = v.disk /\ SameNames(v, OnDisk(v))
         /\ (Sound(v) <=> Sound(OnDisk(v))) /\ (Clean(v) <=> Clean(OnDisk(v)))
<1>1. OnDisk(v).fat = v.fat /\ OnDisk(v).disk = v.disk
  BY DEF OnDisk
<1> QED
  BY <1>1, SameVolume DEF SameNames, Sound, Clean, HasDirectory

-----------------------------------------------------------------------------
(* A call that sets one entry: add_inode() or delete_inode(). *)
LEMMA EntryCalled ==
  ASSUME NEW v, IsVolume(v), v.passe = <<>>, Sound(v), Clean(v),
         NEW s, NEW n, HasDirectory(v, s, n), NEW p \in PlacesOf(n), NEW nom \in NOMS,
         NEW e \in Entries, NEW w, w = SetEntry(v, p, e),
         OnlyNamed(v, s, n, p, nom),
         e.inode > 0 => e.name = nom,
         ~(e.inode > 0) => HasName(v.disk, s, p, nom)
  PROVE  Called(v, w)
<1> DEFINE a == s[p \div BLOCK_DIR_SIZE]
<1>1. IsDirectory(v.fat, v.disk, s, n)
  BY DEF HasDirectory
<1>2. /\ IsVolume(w) /\ w.fat = v.fat /\ HasDirectory(w, s, n)
      /\ a \in Blocs
      /\ \A i \in Blocs : i # a => w.disk[i] = v.disk[i]
      /\ EntryOf(w.disk, s, p) = e
      /\ \A q \in PlacesOf(n) : q # p => EntryOf(w.disk, s, q) = EntryOf(v.disk, s, q)
      /\ w.passe = Append(v.passe, OnDisk(v))
  <2>1. OnlyUsed(v, s, n, p, e)
    BY DEF OnlyUsed
  <2> QED
    BY <2>1, EntrySet
<1>3. v.fat[a] # FAT_FREE
  <2>1. p \div BLOCK_DIR_SIZE \in 0 .. n - 1
    BY <1>1, DirectoryIs
  <2> QED
    BY <1>1, <2>1, DirectoryMarked
<1>4. HasDirectory(w, s, n) /\ Sound(w)
  BY <1>2 DEF Sound, IsVolume
<1>5. Clean(w)
  BY <1>2, <1>3 DEF Clean
<1>6. /\ \A x : x # nom => find_inode(w, x) = find_inode(v, x)
      /\ find_inode(w, nom) = IF e.inode > 0 THEN e.inode ELSE -1
  <2>1. ChangedAt(v, s, n, w, s, n, p)
    BY <1>2 DEF ChangedAt
  <2>2. HasDirectory(w, s, n) /\ (EntryOf(w.disk, s, p).inode > 0 => EntryOf(w.disk, s, p).name = nom)
    BY <1>2, <1>4
  <2> QED
    BY <1>2, <2>1, <2>2, Relisted
<1>7. find_inode(w, nom) # find_inode(v, nom) => w.disk # v.disk
  <2> SUFFICES ASSUME w.disk = v.disk PROVE find_inode(w, nom) = find_inode(v, nom)
    OBVIOUS
  <2> QED
    BY <1>2, SameVolume
<1>8. w.disk # v.disk => find_inode(w, nom) # find_inode(v, nom)
  <2> SUFFICES ASSUME find_inode(w, nom) = find_inode(v, nom) PROVE w.disk = v.disk
    OBVIOUS
  <2> DEFINE o == EntryOf(v.disk, s, p)
  <2>0. o \in Entries
    BY <1>1, DirectoryIs
  <2> HIDE DEF o
  <2>1. CASE ~(e.inode > 0)
    <3>1. find_inode(v, nom) = o.inode
      BY <1>1, <2>1, Finds DEF o
    <3>2. o.inode > 0
      BY <2>1 DEF HasName, o
    <3>3. o.inode = -1
      BY <1>6, <2>1, <3>1
    <3> QED
      BY <3>2, <3>3
  <2>2. CASE e.inode > 0 /\ ~HasName(v.disk, s, p, nom)
    <3>1. find_inode(v, nom) = -1
      <4>1. \A q \in PlacesOf(n) : ~HasName(v.disk, s, q, nom)
        BY <2>2 DEF OnlyNamed
      <4> QED
        BY <1>1, <4>1, Finds
    <3>2. e.inode = -1
      BY <1>6, <2>2, <3>1
    <3> QED
      BY <2>2, <3>2
  <2>3. CASE e.inode > 0 /\ HasName(v.disk, s, p, nom)
    <3>1. find_inode(v, nom) = o.inode
      BY <1>1, <2>3, Finds DEF o
    <3>2. o = e
      <4>1. o.name = nom /\ e.name = nom
        BY <2>3 DEF HasName, o
      <4>2. o.inode = e.inode
        BY <1>6, <2>3, <3>1
      <4> QED
        BY <2>0, <4>1, <4>2 DEF Entries
    <3>3. w.disk[a] = v.disk[a]
      <4> DEFINE m == p \div BLOCK_DIR_SIZE
      <4>1. w.disk[a] \in DirContents /\ v.disk[a] \in DirContents /\ n \in Nat /\ m \in 0 .. n - 1
        BY <1>1, <1>2, DirectoryIs DEF IsDirectory, HasDirectory
      <4>2. ASSUME NEW j \in 0 .. BLOCK_DIR_SIZE - 1
            PROVE  w.disk[a][j] = v.disk[a][j]
        <5> DEFINE q == m * BLOCK_DIR_SIZE + j
        <5>1. m \in Nat /\ m + 1 <= n
          BY <4>1
        <5>2. m * BLOCK_DIR_SIZE \in Nat /\ n * BLOCK_DIR_SIZE \in Nat
              /\ (m + 1) * BLOCK_DIR_SIZE = m * BLOCK_DIR_SIZE + BLOCK_DIR_SIZE
          BY <4>1, <5>1, PlacesAre
        <5>3. (m + 1) * BLOCK_DIR_SIZE <= n * BLOCK_DIR_SIZE
          BY <4>1, <5>1, Monotone, RepertoireAssumption
        <5>4. q \in PlacesOf(n)
          <6> DEFINE mb == m * BLOCK_DIR_SIZE
                     nb == n * BLOCK_DIR_SIZE
          <6>1. mb \in Nat /\ nb \in Nat /\ mb + BLOCK_DIR_SIZE <= nb /\ BLOCK_DIR_SIZE \in Nat
            BY <5>2, <5>3, RepertoireAssumption
          <6> HIDE DEF mb, nb
          <6>2. mb + j \in 0 .. nb - 1
            BY <6>1
          <6> QED
            BY <6>2 DEF mb, nb, PlacesOf
        <5>5. q \div BLOCK_DIR_SIZE = m /\ q % BLOCK_DIR_SIZE = j
          BY <5>1, QuotientIs, RepertoireAssumption
        <5> HIDE DEF q
        <5>6. EntryOf(w.disk, s, q) = EntryOf(v.disk, s, q)
          BY <1>2, <3>2, <5>4 DEF o
        <5> QED
          BY <5>5, <5>6 DEF EntryOf
      <4> QED
        <5> DEFINE x == w.disk[a]
                   y == v.disk[a]
        <5>1. x \in DirContents /\ y \in DirContents /\ \A j \in 0 .. BLOCK_DIR_SIZE - 1 : x[j] = y[j]
          BY <4>1, <4>2
        <5> HIDE DEF x, y
        <5>2. x = y
          <6>1. x \in [0 .. BLOCK_DIR_SIZE - 1 -> Entries] /\ y \in [0 .. BLOCK_DIR_SIZE - 1 -> Entries]
            BY <5>1 DEF DirContents
          <6>2. x = [j \in 0 .. BLOCK_DIR_SIZE - 1 |-> x[j]] /\ y = [j \in 0 .. BLOCK_DIR_SIZE - 1 |-> y[j]]
            BY <6>1
          <6>3. [j \in 0 .. BLOCK_DIR_SIZE - 1 |-> x[j]] = [j \in 0 .. BLOCK_DIR_SIZE - 1 |-> y[j]]
            BY <5>1, Zenon
          <6> QED
            BY <6>2, <6>3, Zenon
        <5> QED
          BY <5>2 DEF x, y
    <3>4. \A i \in Blocs : w.disk[i] = v.disk[i]
      BY <1>2, <3>3
    <3> QED
      BY <1>2, <3>4 DEF IsVolume, IsDisk
  <2> QED
    BY <2>1, <2>2, <2>3
<1>9. w.disk # v.disk <=> \E i \in Blocs : w.disk[i] # v.disk[i] /\ w.fat[i] # FAT_FREE
  BY <1>2, <1>3 DEF IsVolume, IsDisk
<1>10. OneName(v, w)
  BY <1>6, <1>7, <1>8, <1>9, OneNameChanged
<1>11. OneName(v, OnDisk(w))
  BY <1>10, OnDiskSame DEF OneName, SameNames
<1>12. Sortie(w) = <<OnDisk(w)>> /\ Last(Sortie(w)) = OnDisk(w)
  BY <1>2, OneWrite
<1>13. Path(OnDisk(v), Sortie(w))
  BY <1>2, <1>4, <1>5, <1>12, OnDiskSame DEF Path, Leads
<1>14. Sortie(w) # <<>>
  BY <1>12
<1> QED
  BY <1>11, <1>12, <1>13, <1>14 DEF Called

(* An entry of the FAT that is not the directory's is set: the directory   *)
(* does not see it.                                                        *)
LEMMA MarkKeeps ==
  ASSUME NEW v, Sound(v), NEW w, w.fat \in Fats,
         w.disk = [i \in Blocs |-> IF w.fat[i] = FAT_FREE THEN Blank ELSE v.disk[i]],
         NEW n \in Blocs, v.fat[n] = FAT_FREE \/ v.fat[n] = FAT_INODE, w.fat[n] # v.fat[n],
         \A i \in Blocs : i # n => w.fat[i] = v.fat[i]
  PROVE  Leads(v, w) /\ SameNames(v, w) /\ Clean(w)
<1>1. IsDisk(w.disk)
  BY DEF IsDisk
<1>2. Reserved(w.fat)
  BY ValuesTyped DEF Sound, Reserved
<1>3. Sound(w) /\ SameNames(v, w)
  <2>1. ASSUME NEW i \in Blocs, v.fat[i] # FAT_FREE, v.fat[i] # FAT_INODE
        PROVE  w.fat[i] = v.fat[i] /\ w.disk[i] = v.disk[i]
    BY <2>1
  <2> QED
    BY <1>1, <1>2, <2>1, SoundKept
<1>4. Clean(w)
  BY DEF Clean
<1>5. Marks(v, w)
  BY DEF Marks
<1> QED
  BY <1>3, <1>4, <1>5 DEF Leads

(* A call of set_fat on a block outside the directory. *)
LEMMA SetFatCalled ==
  ASSUME NEW v, IsVolume(v), v.passe = <<>>, Sound(v), Clean(v),
         NEW n \in Blocs, NEW valeur \in Values, valeur # v.fat[n],
         v.fat[n] = FAT_FREE \/ v.fat[n] = FAT_INODE,
         NEW w, w = set_fat(v, n, valeur)
  PROVE  Called(v, w)
<1>1. /\ IsVolume(w) /\ w.fat = [v.fat EXCEPT ![n] = valeur]
      /\ w.disk[n] = IF valeur = FAT_FREE THEN Blank ELSE v.disk[n]
      /\ \A i \in Blocs : i # n => w.disk[i] = v.disk[i]
      /\ w.passe = Append(v.passe, OnDisk(v))
  BY FatSet
<1>2. w.fat[n] = valeur /\ \A i \in Blocs : i # n => w.fat[i] = v.fat[i]
  BY <1>1 DEF IsVolume, Fats
<1>3. \A i \in Blocs : w.disk[i] = IF w.fat[i] = FAT_FREE THEN Blank ELSE v.disk[i]
  BY <1>1, <1>2 DEF Clean
<1>4. w.disk = [i \in Blocs |-> IF w.fat[i] = FAT_FREE THEN Blank ELSE v.disk[i]]
  BY <1>1, <1>3 DEF IsVolume, IsDisk
<1>5. w.fat \in Fats
  BY <1>1 DEF IsVolume
<1>6. Leads(v, w) /\ SameNames(v, w) /\ Clean(w)
  BY <1>2, <1>4, <1>5, MarkKeeps
<1>7. OneName(v, w)
  BY <1>3, <1>6, NoNameChanged
<1>8. OneName(v, OnDisk(w))
  BY <1>7, OnDiskSame DEF OneName, SameNames
<1>9. Sortie(w) = <<OnDisk(w)>> /\ Last(Sortie(w)) = OnDisk(w)
  BY <1>1, OneWrite
<1>10. Leads(OnDisk(v), OnDisk(w)) /\ Clean(OnDisk(w))
  BY <1>6, OnDiskSame DEF Leads, Marks
<1>11. Path(OnDisk(v), Sortie(w)) /\ Sortie(w) # <<>>
  BY <1>9, <1>10 DEF Path
<1> QED
  BY <1>8, <1>9, <1>11 DEF Called

(* A call of add_inode on a full directory. *)
LEMMA GrowCalled ==
  ASSUME NEW v, IsVolume(v), v.passe = <<>>, Sound(v), Clean(v),
         NEW s, NEW n, HasDirectory(v, s, n), NEW nom \in NOMS, NEW inode \in Nat \ {0},
         NEW e, e = [name |-> nom, inode |-> inode], NotNamed(v, s, n, nom),
         Free(v.fat) # {}, NEW w, w = GrowDir(v, e)
  PROVE  Called(v, w)
<1> DEFINE a == alloc_block(v.fat)
           t == Extended(s, n, a)
           f2 == [v.fat EXCEPT ![a] = FAT_EOF]
           v0 == OnDisk(v)
           v1 == [fat |-> v.fat, disk |-> w.disk]
           v2 == [fat |-> f2, disk |-> w.disk]
           v3 == OnDisk(w)
           padr == s[n - 1]
           p == n * BLOCK_DIR_SIZE
<1>0. a = alloc_block(v.fat) /\ t = Extended(s, n, a)
  OBVIOUS
<1>1. e \in Entries /\ e.inode > 0 /\ e.name = nom /\ e.inode = inode
      /\ NotNamed(v, s, n, e.name)
  BY DEF Entries
<1> HIDE DEF a, t
<1> Grown(v, s, n, e, a, w, t)
  BY <1>0, <1>1, DirectoryGrown
<1>2. /\ a \in Blocs /\ v.fat[a] = FAT_FREE
      /\ padr \in Blocs /\ v.fat[padr] = FAT_EOF
      /\ IsVolume(w) /\ HasDirectory(w, t, n + 1)
      /\ w.fat = [f2 EXCEPT ![padr] = a]
      /\ w.disk[a] \in DirContents /\ \A i \in Blocs : i # a => w.disk[i] = v.disk[i]
  BY DEF Grown
<1>3. /\ PlacesOf(n) \subseteq PlacesOf(n + 1) /\ p \in PlacesOf(n + 1) /\ p \notin PlacesOf(n)
      /\ EntryOf(w.disk, t, p) = e
      /\ \A q \in PlacesOf(n) : EntryOf(w.disk, t, q) = EntryOf(v.disk, s, q)
      /\ \A q \in PlacesOf(n + 1) : q \notin PlacesOf(n) /\ q # p =>
           EntryOf(w.disk, t, q).inode = 0
  BY DEF Grown
<1>4. w.passe = Append(Append(Append(<<>>, v0), v1), v2)
  BY DEF Grown
<1> HIDE DEF padr, p
<1>5. Sortie(w) = <<v1, v2, v3>> /\ Last(Sortie(w)) = v3
  <2> HIDE DEF v0, v1, v2
  <2> QED
    BY <1>4, ThreeWrites
<1>6. /\ v0.fat = v.fat /\ v0.disk = v.disk /\ Sound(v0) /\ v1.fat = v.fat /\ v1.disk = w.disk
      /\ v2.fat = f2 /\ v2.disk = w.disk /\ v3.fat = w.fat /\ v3.disk = w.disk
  BY OnDiskSame DEF OnDisk
<1> HIDE DEF v0, v1, v2, v3
<1>7. /\ v.fat \in Fats /\ IsDisk(w.disk) /\ Reserved(v.fat)
      /\ FAT_FREE # FAT_EOF /\ FAT_FREE # FAT_RESERVED /\ FAT_EOF # FAT_RESERVED
      /\ FAT_EOF \in Values /\ a \in Values /\ FAT_EOF \notin Blocs /\ FAT_FREE \notin Blocs
  BY <1>2, ValuesTyped DEF IsVolume, Sound
<1>8. /\ f2 \in Fats /\ f2[a] = FAT_EOF /\ \A i \in Blocs : i # a => f2[i] = v.fat[i]
      /\ Reserved(f2) /\ padr # a
  BY <1>2, <1>7 DEF Fats, Reserved
<1> HIDE DEF f2
<1>9. /\ w.fat[padr] = a /\ \A i \in Blocs : i # padr => w.fat[i] = f2[i]
      /\ w.fat \in Fats /\ Reserved(w.fat)
  BY <1>2, <1>7, <1>8 DEF Fats, Reserved
<1>10. Sound(v1) /\ SameNames(v0, v1)
  BY <1>2, <1>6, <1>7, SoundKept
<1>11. Sound(v2) /\ SameNames(v1, v2)
  BY <1>2, <1>6, <1>7, <1>8, <1>10, SoundKept
<1>12. Sound(v3)
  <2>1. Sound(w)
    BY <1>2, <1>7, <1>9 DEF Sound
  <2> QED
    BY <2>1, OnDiskSame DEF v3
<1>13. Leads(v0, v1)
  BY <1>6, <1>10 DEF Leads
<1>14. /\ \A i \in Blocs : w.disk[i] = IF f2[i] = FAT_FREE THEN Blank ELSE w.disk[i]
       /\ \A i \in Blocs : w.disk[i] = IF w.fat[i] = FAT_FREE THEN Blank ELSE w.disk[i]
  BY <1>2, <1>7, <1>8, <1>9 DEF Clean
<1>15. Leads(v1, v2)
  <2>1. v2.disk = [i \in Blocs |-> IF v2.fat[i] = FAT_FREE THEN Blank ELSE v1.disk[i]]
    BY <1>6, <1>7, <1>14 DEF IsDisk
  <2>2. Marks(v1, v2)
    BY <1>2, <1>6, <1>7, <1>8, <2>1 DEF Marks
  <2> QED
    BY <1>11, <2>2 DEF Leads
<1>16. Leads(v2, v3)
  <2>1. v3.disk = [i \in Blocs |-> IF v3.fat[i] = FAT_FREE THEN Blank ELSE v2.disk[i]]
    BY <1>6, <1>7, <1>14 DEF IsDisk
  <2>2. v2.fat[padr] # v3.fat[padr]
    <3>1. v2.fat[padr] = FAT_EOF
      BY <1>2, <1>6, <1>8
    <3>2. v3.fat[padr] = a
      BY <1>6, <1>9
    <3> QED
      BY <1>2, <1>7, <3>1, <3>2
  <2>3. Marks(v2, v3)
    BY <1>2, <1>6, <1>9, <2>1, <2>2 DEF Marks
  <2> QED
    BY <1>12, <2>3 DEF Leads
<1>17. Clean(v3)
  BY <1>6, <1>14 DEF Clean
<1>18. Path(v0, Sortie(w)) /\ Sortie(w) # <<>>
  <2>1. Path(v0, <<v1, v2, v3>>)
    BY <1>10, <1>11, <1>13, <1>15, <1>16, <1>17, Zenon DEF Path
  <2>2. <<v1, v2, v3>> # <<>>
    OBVIOUS
  <2> QED
    BY <1>5, <2>1, <2>2, Zenon
<1>19. OneName(v, w)
  <2>1. ChangedAt(v, s, n, w, t, n + 1, p)
    BY <1>3 DEF ChangedAt
  <2>2. OnlyNamed(v, s, n, p, nom)
    BY <1>3 DEF OnlyNamed, NotNamed
  <2>3. /\ \A x : x # nom => find_inode(w, x) = find_inode(v, x)
        /\ find_inode(w, nom) = IF EntryOf(w.disk, t, p).inode > 0
                                THEN EntryOf(w.disk, t, p).inode ELSE -1
    BY <1>1, <1>2, <1>3, <2>1, <2>2, Relisted
  <2>4. find_inode(w, nom) = inode
    BY <1>1, <1>3, <2>3
  <2>5. find_inode(v, nom) = -1
    BY Finds DEF NotNamed, HasDirectory
  <2>6. v.disk[a] = Blank
    BY <1>2 DEF Clean
  <2>7. w.disk[a] # v.disk[a] /\ w.fat[a] # FAT_FREE
    BY <1>2, <1>7, <1>8, <1>9, <2>6, RepertoireAssumption
  <2>8. find_inode(w, nom) # find_inode(v, nom)
    BY <2>4, <2>5
  <2> QED
    BY <1>2, <2>3, <2>7, <2>8, OneNameChanged
<1>20. OneName(v, v3)
  <2>1. v3.fat = w.fat /\ v3.disk = w.disk /\ SameNames(w, v3)
    BY OnDiskSame DEF v3
  <2>2. \A x \in NOMS : find_inode(v3, x) = find_inode(w, x)
    BY <2>1 DEF SameNames
  <2> QED
    BY <1>19, <2>1, <2>2 DEF OneName
<1> QED
  BY <1>5, <1>18, <1>20 DEF Called, v0, v3

-----------------------------------------------------------------------------
(* The calls of the program, on the mounted disk. *)
CallsOf(v) ==
  {add_inode(v, nom, inode).vol : nom \in NOMS, inode \in {1, 2}}
    \cup {delete_inode(v, nom) : nom \in NOMS}
    \cup (IF Free(v.fat) = {} THEN {} ELSE {set_fat(v, alloc_block(v.fat), FAT_INODE)})
    \cup {set_fat(v, n, FAT_FREE) : n \in {i \in Blocs : v.fat[i] = FAT_INODE}}

(* Every call of the directory: each of its writes leaves a directory that *)
(* is whole.                                                               *)
LEMMA CallLeads ==
  ASSUME NEW v, IsVolume(v), v.passe = <<>>, Sound(v), Clean(v),
         NEW w \in CallsOf(v), w.passe # <<>>
  PROVE  Called(v, w)
<1>1. PICK s, n : HasDirectory(v, s, n)
  BY DEF Sound
<1>2. ASSUME NEW nom \in NOMS, NEW inode \in {1, 2}, w = add_inode(v, nom, inode).vol
      PROVE  Called(v, w)
  <2> DEFINE e == [name |-> nom, inode |-> inode]
             add == add_inode(v, nom, inode)
  <2>1. e \in Entries /\ e.inode > 0 /\ e.name = nom /\ inode \in Nat \ {0}
    BY DEF Entries
  <2>2. e = [name |-> nom, inode |-> inode] /\ add = add_inode(v, nom, inode)
    OBVIOUS
  <2> HIDE DEF e, add
  <2>3. \/ add.vol = v
        \/ \E p \in PlacesOf(n) : add.vol = SetEntry(v, p, e) /\ OnlyNamed(v, s, n, p, nom)
        \/ Free(v.fat) # {} /\ add.vol = GrowDir(v, e) /\ NotNamed(v, s, n, nom)
    BY <1>1, <2>2, AddInode
  <2>4. w = add.vol
    BY <1>2, <2>2
  <2>5. ASSUME NEW p \in PlacesOf(n), w = SetEntry(v, p, e), OnlyNamed(v, s, n, p, nom)
        PROVE  Called(v, w)
    <3>1. EntryOf(v.disk, s, p).inode > 0 => EntryOf(v.disk, s, p).name = nom
      BY <2>5 DEF OnlyNamed
    <3> QED
      BY <1>1, <2>1, <2>5, <3>1, EntryCalled
  <2>6. ASSUME Free(v.fat) # {}, w = GrowDir(v, e), NotNamed(v, s, n, nom)
        PROVE  Called(v, w)
    BY <1>1, <2>1, <2>2, <2>6, GrowCalled
  <2> QED
    BY <2>3, <2>4, <2>5, <2>6
<1>3. ASSUME NEW nom \in NOMS, w = delete_inode(v, nom)
      PROVE  Called(v, w)
  <2>1. PICK p \in PlacesOf(n) : HasName(v.disk, s, p, nom) /\ w = SetEntry(v, p, NoEntry)
    BY <1>1, <1>3, DeleteInode
  <2>2. NoEntry \in Entries /\ ~(NoEntry.inode > 0)
    BY DEF NoEntry, Entries
  <2>3. OnlyNamed(v, s, n, p, nom)
    BY <1>1, <2>1 DEF HasDirectory, IsDirectory, OnePlace, HasName, OnlyNamed
  <2> QED
    BY <1>1, <2>1, <2>2, <2>3, EntryCalled DEF HasName
<1>4. ASSUME Free(v.fat) # {}, w = set_fat(v, alloc_block(v.fat), FAT_INODE)
      PROVE  Called(v, w)
  <2>1. /\ alloc_block(v.fat) \in Blocs /\ v.fat[alloc_block(v.fat)] = FAT_FREE
        /\ FAT_INODE \in Values /\ FAT_INODE # FAT_FREE
    BY <1>4, AllocFinds, ValuesTyped DEF IsVolume
  <2> QED
    BY <1>4, <2>1, SetFatCalled
<1>5. ASSUME NEW n0 \in Blocs, v.fat[n0] = FAT_INODE, w = set_fat(v, n0, FAT_FREE)
      PROVE  Called(v, w)
  <2>1. FAT_FREE \in Values /\ FAT_INODE # FAT_FREE
    BY ValuesTyped
  <2> QED
    BY <1>5, <2>1, SetFatCalled
<1> QED
  BY <1>2, <1>3, <1>4, <1>5 DEF CallsOf

-----------------------------------------------------------------------------
(* The blocks of the FAT. *)
LEMMA FatBlocksAre ==
  /\ FAT_SIZE \in Nat \ {0} /\ FAT_PER_BLOCK \in Nat \ {0}
  /\ \A n \in Blocs : FatBlock(n) \in Nat /\ FatBlock(n) < FAT_SIZE /\ FatBlock(n) \in FatBlocks
  /\ \A n, m \in Blocs : n <= m => FatBlock(n) <= FatBlock(m)
  /\ \A b \in Nat, n \in Blocs : FatBlock(n) < b + 1 <=> (FatBlock(n) = b \/ FatBlock(n) < b)
<1> DEFINE c == FAT_PER_BLOCK
           N == DISK_SIZE + c - 1
           q == N \div c
<1>1. /\ c \in Nat \ {0} /\ FAT_SIZE \in Nat \ {0} /\ DISK_SIZE \in Nat
      /\ FAT_SIZE = q
  BY DisqueAssumption, MontageAssumption
<1> HIDE DEF c
<1>2. N \in Nat
  BY <1>1
<1> HIDE DEF N
<1>3. q \in Nat /\ N % c \in 0 .. c - 1 /\ N = q * c + (N % c)
  BY <1>1, <1>2, Quotient
<1> DEFINE r == N % c
<1> HIDE DEF q, r
<1>4. q \in Nat /\ r \in 0 .. c - 1 /\ N = q * c + r
  BY <1>3 DEF r
<1>5. q * c \in Nat
  BY <1>1, <1>4
<1>6. DISK_SIZE <= q * c
  BY <1>1, <1>4, <1>5 DEF N
<1>7. ASSUME NEW n \in Blocs
      PROVE  FatBlock(n) \in Nat /\ FatBlock(n) < FAT_SIZE /\ n \in Nat
             /\ FatBlock(n) * c <= n /\ n < (FatBlock(n) + 1) * c
  <2> DEFINE d == n \div c
             e == n % c
  <2>1. n \in Nat /\ n < DISK_SIZE
    BY ValuesTyped
  <2>2. d \in Nat /\ e \in 0 .. c - 1 /\ n = d * c + e
    BY <1>1, <2>1, Quotient
  <2>3. FatBlock(n) = d
    BY DEF FatBlock, c
  <2> HIDE DEF d, e
  <2>4. d * c \in Nat /\ (d + 1) * c = d * c + c
    BY <1>1, <2>2
  <2>5. ASSUME q <= d
        PROVE  FALSE
    <3>1. q * c <= d * c
      BY <1>1, <1>4, <2>2, <2>5, Monotone
    <3> QED
      BY <1>1, <1>5, <1>6, <2>1, <2>2, <2>4, <3>1
  <2>6. d < q
    BY <1>4, <2>2, <2>5
  <2>7. d * c <= n /\ n < (d + 1) * c
    BY <1>1, <2>1, <2>2, <2>4
  <2> QED
    BY <1>1, <2>1, <2>2, <2>3, <2>6, <2>7
<1>8. ASSUME NEW n \in Blocs, NEW m \in Blocs, n <= m
      PROVE  FatBlock(n) <= FatBlock(m)
  <2> DEFINE a == FatBlock(n)
             b == FatBlock(m)
  <2>1. /\ a \in Nat /\ b \in Nat /\ n \in Nat /\ m \in Nat
        /\ a * c <= n /\ m < (b + 1) * c
    BY <1>7
  <2> HIDE DEF a, b
  <2>2. ASSUME b + 1 <= a
        PROVE  FALSE
    <3>1. (b + 1) * c <= a * c /\ (b + 1) * c \in Nat /\ a * c \in Nat
      BY <1>1, <2>1, <2>2, Monotone
    <3> QED
      BY <1>8, <2>1, <3>1
  <2>3. a <= b
    BY <2>1, <2>2
  <2> QED
    BY <2>3 DEF a, b
<1>9. ASSUME NEW b \in Nat, NEW n \in Blocs
      PROVE  FatBlock(n) < b + 1 <=> (FatBlock(n) = b \/ FatBlock(n) < b)
  BY <1>7
<1> QED
  BY <1>1, <1>7, <1>8, <1>9 DEF FatBlocks, c

(* A volume whose free blocks are forgotten. *)
LEMMA ForgottenIs ==
  ASSUME NEW f, NEW d, NEW v, v.fat = f, v.disk = d,
         v = [fat |-> f, disk |-> d] \/ v = [fat |-> f, disk |-> d, passe |-> <<>>]
  PROVE  /\ Forgotten(v).fat = f
         /\ Forgotten(v).disk = [n \in Blocs |-> IF f[n] = FAT_FREE THEN Blank ELSE d[n]]
BY DEF Forgotten

(* What is said of a volume is about its FAT and blocks. *)
LEMMA SoundSame ==
  ASSUME NEW v, NEW w, w.fat = v.fat, w.disk = v.disk
  PROVE  /\ Sound(w) <=> Sound(v)
         /\ Clean(w) <=> Clean(v)
         /\ SameNames(v, w)
         /\ \A u : SameNames(v, u) <=> SameNames(w, u)
         /\ \A u : Leads(v, u) <=> Leads(w, u)
         /\ \A q : Path(v, q) <=> Path(w, q)
<1>1. (Sound(w) <=> Sound(v)) /\ (Clean(w) <=> Clean(v))
  BY DEF Sound, Clean, HasDirectory
<1>2. SameNames(v, w) /\ \A u : SameNames(v, u) <=> SameNames(w, u)
  BY SameVolume DEF SameNames
<1>3. \A u : Leads(v, u) <=> Leads(w, u)
  BY DEF Leads, Marks
<1>4. \A q : Path(v, q) <=> Path(w, q)
  BY <1>1, <1>2, <1>3 DEF Path
<1> QED
  BY <1>1, <1>2, <1>3, <1>4

(* The first write of a call. *)
LEMMA PathTail ==
  ASSUME NEW v, NEW q, Path(v, q), q # <<>>
  PROVE  /\ Leads(v, Head(q)) /\ Path(Head(q), Tail(q))
         /\ IF Tail(q) = <<>> THEN Last(q) = Head(q) ELSE SameNames(v, Head(q))
<1>1. ASSUME NEW a, q = <<a>>, Leads(v, a), Clean(a)
      PROVE  /\ Leads(v, Head(q)) /\ Path(Head(q), Tail(q))
             /\ IF Tail(q) = <<>> THEN Last(q) = Head(q) ELSE SameNames(v, Head(q))
  <2>1. Head(q) = a /\ Tail(q) = <<>> /\ Last(q) = a
    BY <1>1 DEF Last
  <2> QED
    BY <1>1, <2>1 DEF Path
<1>2. ASSUME NEW a, NEW b, q = <<a, b>>, Leads(v, a), SameNames(v, a), Leads(a, b), Clean(b)
      PROVE  Leads(v, Head(q)) /\ Path(Head(q), Tail(q)) /\ SameNames(v, Head(q)) /\ Tail(q) # <<>>
  <2>1. Head(q) = a /\ Tail(q) = <<b>> /\ <<b>> # <<>>
    BY <1>2
  <2> QED
    BY <1>2, <2>1 DEF Path
<1>3. ASSUME NEW a, NEW b, NEW c, q = <<a, b, c>>, Leads(v, a), SameNames(v, a),
             Leads(a, b), SameNames(a, b), Leads(b, c), Clean(c)
      PROVE  Leads(v, Head(q)) /\ Path(Head(q), Tail(q)) /\ SameNames(v, Head(q)) /\ Tail(q) # <<>>
  <2>1. Head(q) = a /\ Tail(q) = <<b, c>> /\ <<b, c>> # <<>>
    BY <1>3
  <2>2. Path(a, <<b, c>>)
    BY <1>3, Zenon DEF Path
  <2> QED
    BY <1>3, <2>1, <2>2
<1> QED
  BY <1>1, <1>2, <1>3 DEF Path

-----------------------------------------------------------------------------
(* Each step keeps the invariant. *)
LEMMA MontageInitial == MontageInit => MInv
<1> SUFFICES ASSUME MontageInit PROVE MInv
  OBVIOUS
<1>1. 0 \in Values /\ 0 # FAT_FREE
  <2>1. DISK_SIZE \in Nat /\ DISK_SIZE # 0
    BY ValuesTyped
  <2> QED
    BY <2>1 DEF Values, FAT_EOF, FAT_FREE
<1>2. fat \in Fats /\ \A n \in Blocs : fat[n] # FAT_FREE
  BY <1>1 DEF MontageInit, Fats
<1>3. IsDisk(disk) /\ disk[ADR_DIR] = EmptyDir
  BY ValuesTyped DEF MontageInit, IsDisk
<1>4. Clean(DiskNow)
  BY <1>2 DEF Clean, DiskNow
<1> QED
  BY <1>2, <1>3, <1>4, ValuesTyped DEF MontageInit, MInv, Formatting, Mounting, Saving

(* create_empty_fat, in memory. *)
LEMMA FormatKeeps == MInv /\ Format => MInv'
<1> SUFFICES ASSUME MInv, Format PROVE MInv'
  OBVIOUS
<1>1. /\ fat' = fat /\ disk' = disk /\ super' = super /\ todo' = todo
      /\ phase = "arret" /\ phase' = "format" /\ k' = 0
  BY DEF Format, volume, InMemory
<1>2. DiskNow' = DiskNow
  BY <1>1 DEF DiskNow
<1>3. Formatting'
  <2>1. 0 <= FAT_SIZE + 1 /\ 0 # FAT_SIZE + 1 /\ \A i \in Blocs : ~(FatBlock(i) < 0)
    BY FatBlocksAre
  <2> QED
    BY <1>1, <2>1, FatBlocksAre DEF Formatting
<1> QED
  BY <1>1, <1>2, <1>3 DEF MInv, Mounting, Saving

(* Blocks written as on a formatted disk leave a directory. *)
LEMMA FormatFatKeeps == MInv /\ FormatFat => MInv'
<1> SUFFICES ASSUME MInv, FormatFat PROVE MInv'
  OBVIOUS
<1> DEFINE f == CopyBlock(fat, create_empty_fat, k)
           d == [n \in Blocs |-> IF f[n] = FAT_FREE THEN Blank ELSE disk[n]]
<1>1. /\ phase = "format" /\ k < FAT_SIZE /\ k' = k + 1
      /\ fat' = f /\ disk' = d /\ super' = super /\ phase' = phase /\ todo' = todo
  BY ForgottenIs DEF FormatFat, Saved, Becomes, InMemory
<1>2. /\ fat \in Fats /\ k \in Nat /\ IsDisk(disk) /\ fat[ADR_DIR] # FAT_FREE
      /\ \A i \in Blocs : FatBlock(i) < k => fat[i] = create_empty_fat[i]
  BY <1>1 DEF MInv, Formatting
<1>3. /\ f \in Fats
      /\ \A i \in Blocs : f[i] = IF FatBlock(i) = k THEN create_empty_fat[i] ELSE fat[i]
  BY <1>2, EmptyFat DEF CopyBlock, Fats
<1> HIDE DEF f
<1>4. IsDisk(d) /\ \A n \in Blocs : d[n] = IF f[n] = FAT_FREE THEN Blank ELSE disk[n]
  BY DEF IsDisk
<1> HIDE DEF d
<1>5. f[ADR_DIR] # FAT_FREE /\ d[ADR_DIR] = disk[ADR_DIR]
  BY <1>2, <1>3, <1>4, EmptyFat, ValuesTyped
<1>6. /\ DiskNow.fat = fat /\ DiskNow.disk = disk
      /\ DiskNow'.fat = f /\ DiskNow'.disk = d
  BY <1>1 DEF DiskNow
<1>7. Clean(DiskNow)'
  BY <1>4, <1>6 DEF Clean
<1>8. Formatting'
  <2>1. k + 1 <= FAT_SIZE + 1 /\ k + 1 # FAT_SIZE + 1
    BY <1>1, <1>2, FatBlocksAre
  <2>2. ASSUME NEW i \in Blocs, FatBlock(i) < k + 1
        PROVE  f[i] = create_empty_fat[i]
    <3>1. FatBlock(i) = k \/ FatBlock(i) < k
      BY <1>2, <2>2, FatBlocksAre
    <3> QED
      BY <1>2, <1>3, <3>1
  <2> QED
    BY <1>1, <2>1, <2>2 DEF Formatting
<1>9. ASSUME super
      PROVE  Sound(DiskNow)'
  <2>1. Sound(DiskNow) /\ Reserved(fat)
    BY <1>6, <1>9 DEF MInv, Sound
  <2>2. Reserved(f)
    BY <1>3, <2>1, EmptyFat DEF Reserved
  <2>3. CASE FatBlock(ADR_DIR) <= k
    <3>1. FatBlock(ADR_DIR) = k \/ FatBlock(ADR_DIR) < k
      BY <1>2, <2>3, FatBlocksAre, ValuesTyped
    <3>2. f[ADR_DIR] = FAT_EOF
      BY <1>2, <1>3, <3>1, EmptyFat, ValuesTyped
    <3> QED
      BY <1>3, <1>4, <1>5, <1>6, <2>1, <2>2, <3>2, OneBlock
  <2>4. CASE k < FatBlock(ADR_DIR)
    <3>1. ASSUME NEW i \in Blocs, FatBlock(i) = k
          PROVE  fat[i] = FAT_RESERVED /\ create_empty_fat[i] = FAT_RESERVED
      <4>1. ~(ADR_DIR <= i)
        BY <1>2, <2>4, <3>1, FatBlocksAre, ValuesTyped
      <4>2. i < ADR_DIR
        BY <4>1, ValuesTyped
      <4> QED
        BY <2>1, <4>2, EmptyFat DEF Reserved
    <3>2. \A i \in Blocs : f[i] = fat[i]
      BY <1>3, <3>1
    <3> QED
      BY <1>3, <1>4, <1>6, <2>1, <2>2, <3>2, SoundKept
  <2> QED
    BY <1>2, <2>3, <2>4, FatBlocksAre, ValuesTyped
<1> QED
  BY <1>1, <1>2, <1>3, <1>4, <1>5, <1>7, <1>8, <1>9 DEF MInv, Mounting, Saving

(* The super block and the FAT are written. *)
LEMMA FormatSuperKeeps == MInv /\ FormatSuper => MInv'
<1> SUFFICES ASSUME MInv, FormatSuper PROVE MInv'
  OBVIOUS
<1>1. /\ phase = "format" /\ k = FAT_SIZE /\ k' = k + 1 /\ super' = TRUE
      /\ fat' = fat /\ disk' = disk /\ phase' = phase /\ todo' = todo
  BY DEF FormatSuper, volume, InMemory
<1>2. DiskNow' = DiskNow /\ DiskNow.fat = fat /\ DiskNow.disk = disk
  BY <1>1 DEF DiskNow
<1>3. Formatting'
  BY <1>1, FatBlocksAre DEF MInv, Formatting
<1>4. Sound(DiskNow)
  <2>1. CASE super
    BY <2>1 DEF MInv
  <2>2. CASE ~super
    <3>1. \A i \in Blocs : fat[i] = create_empty_fat[i]
      BY <1>1, FatBlocksAre DEF MInv, Formatting
    <3>2. fat[ADR_DIR] = FAT_EOF /\ Reserved(fat) /\ fat \in Fats /\ IsDisk(disk)
      BY <3>1, EmptyFat, ValuesTyped DEF MInv, Reserved
    <3> QED
      BY <1>2, <2>2, <3>2, OneBlock DEF MInv
  <2> QED
    BY <2>1, <2>2
<1> QED
  BY <1>1, <1>2, <1>3, <1>4 DEF MInv, Mounting, Saving, Formatting

(* create_empty_directory. *)
LEMMA EmptyDirectoryKeeps == MInv /\ create_empty_directory => MInv'
<1> SUFFICES ASSUME MInv, create_empty_directory PROVE MInv'
  OBVIOUS
<1>1. /\ phase = "format" /\ k = FAT_SIZE + 1 /\ k' = 0 /\ super' = super
      /\ fat' = fat /\ disk' = [disk EXCEPT ![ADR_DIR] = EmptyDir]
      /\ phase' = "arret" /\ todo' = todo
  BY DEF create_empty_directory, InMemory
<1>2. /\ IsDisk(disk') /\ disk'[ADR_DIR] = EmptyDir
      /\ \A i \in Blocs : i # ADR_DIR => disk'[i] = disk[i]
  <2>1. IsDisk(disk) /\ ADR_DIR \in Blocs
    BY ValuesTyped DEF MInv
  <2> DEFINE e == [disk EXCEPT ![ADR_DIR] = EmptyDir]
  <2>2. /\ IsDisk(e) /\ e[ADR_DIR] = EmptyDir
        /\ \A i \in Blocs : i # ADR_DIR => e[i] = disk[i]
    BY <2>1, DiskSet
  <2> HIDE DEF e
  <2>3. disk' = e
    BY <1>1 DEF e
  <2> QED
    BY <2>2, <2>3
<1>3. super /\ fat[ADR_DIR] = FAT_EOF /\ Reserved(fat) /\ fat \in Fats
  <2>1. super /\ Reserved(fat)
    BY <1>1 DEF MInv, Formatting, Sound, DiskNow
  <2>2. fat[ADR_DIR] = create_empty_fat[ADR_DIR]
    <3>1. FatBlock(ADR_DIR) < FAT_SIZE + 1
      BY FatBlocksAre, ValuesTyped
    <3> QED
      BY <1>1, <3>1, ValuesTyped DEF MInv, Formatting
  <2> QED
    BY <2>1, <2>2, EmptyFat DEF MInv
<1>4. DiskNow'.fat = fat /\ DiskNow'.disk = disk' /\ DiskNow.fat = fat /\ DiskNow.disk = disk
  BY <1>1 DEF DiskNow
<1>5. Sound(DiskNow)'
  BY <1>2, <1>3, <1>4, OneBlock
<1>6. Clean(DiskNow)'
  BY <1>1, <1>2, <1>3, <1>4, ValuesTyped DEF MInv, Clean
<1> QED
  BY <1>1, <1>2, <1>3, <1>5, <1>6 DEF MInv, Formatting, Mounting, Saving

(* What init_sgf_fat() reads is the FAT. *)
LEMMA ReadFat ==
  ASSUME NEW g \in Fats, NEW z,
         z = [b \in Nat |-> [n \in Blocs |-> IF FatBlock(n) < b THEN g[n] ELSE create_memory_fat[n]]],
         NEW t, t = CHOOSE u : u = [b \in Nat |-> IF b = 0 THEN create_memory_fat
                                                  ELSE CopyBlock(u[b - 1], g, b - 1)]
  PROVE  t[FAT_SIZE] = g
<1>1. z[0] = create_memory_fat
  <2>1. \A n \in Blocs : ~(FatBlock(n) < 0)
    BY FatBlocksAre
  <2> QED
    BY <2>1 DEF create_memory_fat
<1>2. ASSUME NEW b \in Nat
      PROVE  z[b + 1] = CopyBlock(z[b], g, b)
  <2>1. \A n \in Blocs : FatBlock(n) < b + 1 <=> (FatBlock(n) = b \/ FatBlock(n) < b)
    BY FatBlocksAre, Zenon
  <2>2. \A n \in Blocs : z[b][n] = IF FatBlock(n) < b THEN g[n] ELSE create_memory_fat[n]
    OBVIOUS
  <2>3. z[b + 1] = [n \in Blocs |-> IF FatBlock(n) < b + 1 THEN g[n] ELSE create_memory_fat[n]]
    OBVIOUS
  <2>4. CopyBlock(z[b], g, b) = [n \in Blocs |-> IF FatBlock(n) = b THEN g[n] ELSE z[b][n]]
    BY DEF CopyBlock
  <2> QED
    BY <2>1, <2>2, <2>3, <2>4
<1>3. z = [b \in Nat |-> IF b = 0 THEN create_memory_fat ELSE CopyBlock(z[b - 1], g, b - 1)]
  <2> DEFINE y == [b \in Nat |-> IF b = 0 THEN create_memory_fat ELSE CopyBlock(z[b - 1], g, b - 1)]
  <2>1. z = [b \in Nat |-> z[b]]
    OBVIOUS
  <2>2. ASSUME NEW b \in Nat
        PROVE  z[b] = IF b = 0 THEN create_memory_fat ELSE CopyBlock(z[b - 1], g, b - 1)
    <3>1. CASE b = 0
      BY <1>1, <3>1
    <3>2. CASE b # 0
      <4>1. b - 1 \in Nat /\ (b - 1) + 1 = b
        BY <3>2
      <4>2. z[(b - 1) + 1] = CopyBlock(z[b - 1], g, b - 1)
        BY <1>2, <4>1
      <4> QED
        BY <3>2, <4>1, <4>2
    <3> QED
      BY <3>1, <3>2
  <2> QED
    BY <2>1, <2>2, Zenon
<1>4. t = [b \in Nat |-> IF b = 0 THEN create_memory_fat ELSE CopyBlock(t[b - 1], g, b - 1)]
  BY <1>3, Zenon
<1>5. \A b \in Nat : t[b] = z[b]
  <2> DEFINE S == {b \in Nat : t[b] = z[b]}
  <2>1. 0 \in S
    BY <1>1, <1>4
  <2>2. ASSUME NEW b \in Nat, b \in S
        PROVE  b + 1 \in S
    <3>1. b + 1 \in Nat /\ b + 1 # 0 /\ (b + 1) - 1 = b
      OBVIOUS
    <3>2. t[b + 1] = CopyBlock(t[b], g, b)
      BY <1>4, <3>1
    <3> QED
      BY <1>2, <2>2, <3>1, <3>2
  <2>3. Nat \subseteq S
    <3> HIDE DEF S
    <3> QED
      BY <2>1, <2>2, Induction
  <2> QED
    BY <2>3
<1>6. z[FAT_SIZE] = g
  <2>1. z[FAT_SIZE] = [n \in Blocs |-> IF FatBlock(n) < FAT_SIZE THEN g[n] ELSE create_memory_fat[n]]
    BY FatBlocksAre
  <2>2. g = [n \in Blocs |-> g[n]]
    BY DEF Fats
  <2> QED
    BY <2>1, <2>2, FatBlocksAre
<1> QED
  BY <1>5, <1>6, FatBlocksAre

(* init_sgf_fat reads the FAT. *)
LEMMA InitFatKeeps == MInv /\ init_sgf_fat => MInv'
<1> SUFFICES ASSUME MInv, init_sgf_fat PROVE MInv'
  OBVIOUS
<1> DEFINE t == CHOOSE u : u = [b \in Nat |-> IF b = 0 THEN create_memory_fat
                                              ELSE CopyBlock(u[b - 1], fat, b - 1)]
<1>1. /\ phase = "arret" /\ super /\ phase' = "marche" /\ tab' = t[FAT_SIZE]
      /\ modif' = [b \in FatBlocks |-> FALSE]
      /\ fat' = fat /\ disk' = disk /\ super' = super /\ k' = k /\ todo' = todo
  BY DEF init_sgf_fat, volume
<1> HIDE DEF t
<1>2. tab' = fat
  BY <1>1, ReadFat DEF t, MInv
<1>3. DiskNow' = DiskNow
  BY <1>1 DEF DiskNow
<1>4. Path(DiskNow, <<>>)
  BY <1>1 DEF MInv, Path
<1>5. Mounting'
  BY <1>1, <1>2, <1>3, <1>4 DEF MInv, Mounting
<1> QED
  BY <1>1, <1>3, <1>5 DEF MInv, Formatting, Saving

-----------------------------------------------------------------------------
(* A call of the directory, from the volume as it is. *)
LEMMA CallsAre ==
  ASSUME MInv, Calls
  PROVE  /\ phase = "marche" /\ todo = <<>> /\ tab = fat
         /\ \E w \in CallsOf(Volume) : /\ Call(w) /\ Called(Volume, w)
<1>1. /\ phase = "marche" /\ todo = <<>> /\ tab = fat /\ Mounted = Volume
      /\ Path(DiskNow, todo) /\ super /\ Sound(DiskNow)
  BY DEF Calls, MInv, Mounting, Mounted, Volume
<1>2. Volume.fat = fat /\ Volume.disk = disk /\ Volume.passe = <<>> /\ IsVolume(Volume)
  BY PastGrows DEF Volume, IsVolume, MInv
<1>3. DiskNow.fat = fat /\ DiskNow.disk = disk
  BY DEF DiskNow
<1>4. Clean(DiskNow)
  <2>1. \A a, b, c : <<a>> # <<>> /\ <<a, b>> # <<>> /\ <<a, b, c>> # <<>>
    OBVIOUS
  <2> QED
    BY <1>1, <2>1, Zenon DEF Path
<1>5. Sound(Volume) /\ Clean(Volume)
  BY <1>1, <1>2, <1>3, <1>4, SoundSame
<1>6. PICK w \in CallsOf(Volume) : Call(w)
  <2>1. \/ \E nom \in NOMS, inode \in {1, 2} : Call(add_inode(Volume, nom, inode).vol)
        \/ \E nom \in NOMS : Call(delete_inode(Volume, nom))
        \/ Free(Volume.fat) # {} /\ Call(set_fat(Volume, alloc_block(Volume.fat), FAT_INODE))
        \/ \E n \in Blocs : Volume.fat[n] = FAT_INODE /\ Call(set_fat(Volume, n, FAT_FREE))
    BY <1>1, <1>2 DEF Calls
  <2> QED
    BY <2>1 DEF CallsOf
<1>7. w.passe # <<>>
  BY <1>6 DEF Call
<1>8. Called(Volume, w)
  BY <1>2, <1>5, <1>7, CallLeads
<1> QED
  BY <1>1, <1>6, <1>8

(* It keeps the invariant; *)
LEMMA CallsKeep == MInv /\ Calls => MInv'
<1> SUFFICES ASSUME MInv, Calls PROVE MInv'
  OBVIOUS
<1>1. PICK w \in CallsOf(Volume) : Call(w) /\ Called(Volume, w)
  BY CallsAre
<1>2. phase = "marche" /\ todo = <<>> /\ tab = fat
  BY CallsAre
<1>3. /\ todo' = Sortie(w) /\ fat' = fat /\ disk' = disk /\ super' = super
      /\ phase' = phase /\ k' = k /\ tab' = tab /\ modif' = modif
  BY <1>1 DEF Call, Sortie, volume
<1>4. OnDisk(Volume) = DiskNow /\ DiskNow' = DiskNow
  BY <1>3 DEF OnDisk, Volume, DiskNow
<1>5. Path(DiskNow, Sortie(w))
  BY <1>1, <1>4 DEF Called
<1>6. Mounting'
  BY <1>2, <1>3, <1>4, <1>5 DEF MInv, Mounting
<1> QED
  BY <1>2, <1>3, <1>4, <1>6 DEF MInv, Formatting, Saving

(* so does each block write, *)
LEMMA WriteKeeps == MInv /\ WriteBlock => MInv'
<1> SUFFICES ASSUME MInv, WriteBlock PROVE MInv'
  OBVIOUS
<1> DEFINE w == Head(todo)
<1>1. /\ phase = "marche" /\ todo # <<>> /\ w.fat = tab /\ disk' = w.disk /\ todo' = Tail(todo)
      /\ fat' = fat /\ super' = super /\ phase' = phase /\ k' = k /\ tab' = tab /\ modif' = modif
  BY DEF WriteBlock
<1>2. tab = fat /\ Path(DiskNow, todo) /\ super
  BY <1>1 DEF MInv, Mounting
<1>3. Leads(DiskNow, w) /\ Path(w, Tail(todo))
  BY <1>1, <1>2, PathTail
<1> HIDE DEF w
<1>4. Sound(w)
  BY <1>3 DEF Leads
<1>5. DiskNow'.fat = w.fat /\ DiskNow'.disk = w.disk
  BY <1>1, <1>2 DEF DiskNow
<1>6. Sound(DiskNow') /\ Path(DiskNow', Tail(todo))
  BY <1>3, <1>4, <1>5, SoundSame
<1>7. IsDisk(disk')
  BY <1>1, <1>4 DEF Sound
<1>8. Mounting'
  BY <1>1, <1>2, <1>6 DEF MInv, Mounting
<1> QED
  BY <1>1, <1>2, <1>6, <1>7, <1>8 DEF MInv, Formatting, Saving

(* The entry set in memory is to be saved: no other is. *)
LEMMA SetFatKeeps == MInv /\ SetFat => MInv'
<1> SUFFICES ASSUME MInv, SetFat PROVE MInv'
  OBVIOUS
<1> DEFINE w == Head(todo)
<1>1. /\ phase = "marche" /\ todo # <<>> /\ w.fat # tab /\ tab' = w.fat /\ phase' = "sauve"
      /\ modif' = [b \in FatBlocks |->
                      modif[b] \/ \E n \in Blocs : FatBlock(n) = b /\ tab'[n] # tab[n]]
      /\ fat' = fat /\ disk' = disk /\ super' = super /\ k' = k /\ todo' = todo
  BY DEF SetFat, volume, ModifBit, FatBlock
<1>2. tab = fat /\ Path(DiskNow, todo) /\ super /\ \A b \in FatBlocks : ~modif[b]
  BY <1>1 DEF MInv, Mounting
<1>3. /\ Leads(DiskNow, w) /\ Path(w, Tail(todo))
      /\ IF Tail(todo) = <<>> THEN Last(todo) = w ELSE SameNames(DiskNow, w)
  BY <1>1, <1>2, PathTail
<1> HIDE DEF w
<1>4. DiskNow' = DiskNow /\ DiskNow.fat = fat /\ DiskNow.disk = disk
  BY <1>1 DEF DiskNow
<1>5. Sound(w) /\ Marks(DiskNow, w) /\ w.fat \in Fats
  BY <1>1, <1>2, <1>3, <1>4 DEF Leads, Sound
<1>6. PICK n \in Blocs : fat[n] # w.fat[n] /\ \A i \in Blocs : i # n => w.fat[i] = fat[i]
  BY <1>4, <1>5 DEF Marks
<1>7. modif' = [b \in FatBlocks |-> b = FatBlock(n)]
  <2>1. ASSUME NEW b \in FatBlocks
        PROVE  (modif[b] \/ \E i \in Blocs : FatBlock(i) = b /\ tab'[i] # tab[i]) <=> b = FatBlock(n)
    BY <1>1, <1>2, <1>6
  <2> QED
    BY <1>1, <2>1, Zenon
<1>8. Behind'
  BY <1>1, <1>6, <1>7 DEF Behind
<1>9. w.disk = [i \in Blocs |-> IF w.fat[i] = FAT_FREE THEN Blank ELSE disk[i]]
  BY <1>4, <1>5 DEF Marks
<1>10. Head(todo') = w /\ todo' = todo
  BY <1>1 DEF w
<1>11. Saving'
  BY <1>1, <1>3, <1>4, <1>5, <1>8, <1>9, <1>10 DEF Saving
<1>12. modif' \in [FatBlocks -> BOOLEAN]
  BY <1>7
<1>13. Mounting'
  BY <1>1, <1>2, <1>5, <1>12 DEF Mounting
<1> QED
  BY <1>1, <1>4, <1>11, <1>13 DEF MInv, Formatting

(* What save_fat() writes. *)
LEMMA SaveIs ==
  ASSUME MInv, save_fat
  PROVE  /\ phase = "sauve" /\ phase' = phase /\ super' = super /\ k' = k
         /\ tab' = tab /\ todo' = todo
         /\ fat' = tab /\ disk' = Head(todo).disk /\ \A b \in FatBlocks : ~modif'[b]
         /\ modif' \in [FatBlocks -> BOOLEAN]
<1> DEFINE dirty == {b \in FatBlocks : modif[b]}
           f == CopyBlock(fat, tab, Min(dirty))
<1>1. /\ phase = "sauve" /\ dirty # {}
      /\ Becomes(Forgotten([fat |-> f, disk |-> disk]))
      /\ modif' = [modif EXCEPT ![Min(dirty)] = FALSE]
      /\ phase' = phase /\ super' = super /\ k' = k /\ tab' = tab /\ todo' = todo
  BY DEF save_fat, Saved
<1>2. /\ tab \in Fats /\ modif \in [FatBlocks -> BOOLEAN]
      /\ Head(todo).disk = [n \in Blocs |-> IF tab[n] = FAT_FREE THEN Blank ELSE disk[n]]
      /\ Behind
  BY <1>1 DEF MInv, Mounting, Saving
<1>3. PICK n \in Blocs : /\ fat[n] # tab[n] /\ \A i \in Blocs : i # n => fat[i] = tab[i]
                         /\ modif = [b \in FatBlocks |-> b = FatBlock(n)]
  BY <1>2 DEF Behind
<1>4. FatBlock(n) \in FatBlocks /\ FatBlocks \subseteq Nat
  BY FatBlocksAre DEF FatBlocks
<1>5. dirty = {FatBlock(n)}
  BY <1>3, <1>4
<1>6. Min(dirty) = FatBlock(n)
  <2> HIDE DEF dirty
  <2>1. dirty \in SUBSET Nat /\ dirty # {}
    BY <1>4, <1>5
  <2>2. Min(dirty) \in dirty
    BY <2>1, LeastIs
  <2> QED
    BY <1>5, <2>2
<1> HIDE DEF dirty
<1>7. f = tab
  <2>1. \A i \in Blocs : (IF FatBlock(i) = FatBlock(n) THEN tab[i] ELSE fat[i]) = tab[i]
    BY <1>3
  <2>2. f = [i \in Blocs |-> IF FatBlock(i) = FatBlock(n) THEN tab[i] ELSE fat[i]]
    BY <1>6 DEF CopyBlock
  <2>3. tab = [i \in Blocs |-> tab[i]]
    BY <1>2 DEF Fats
  <2> QED
    BY <2>1, <2>2, <2>3
<1> HIDE DEF f
<1>8. fat' = tab /\ disk' = Head(todo).disk
  BY <1>1, <1>2, <1>7, ForgottenIs DEF Becomes
<1>9. \A b \in FatBlocks : modif'[b] = FALSE
  BY <1>1, <1>3, <1>4, <1>6
<1>10. modif' \in [FatBlocks -> BOOLEAN]
  BY <1>1, <1>2
<1> QED
  BY <1>1, <1>8, <1>9, <1>10

(* the start of save_fat, *)
LEMMA SaveKeeps == MInv /\ save_fat => MInv'
<1> SUFFICES ASSUME MInv, save_fat PROVE MInv'
  OBVIOUS
<1> DEFINE w == Head(todo)
<1>1. /\ phase = "sauve" /\ phase' = phase /\ super' = super /\ k' = k
      /\ tab' = tab /\ todo' = todo /\ Head(todo') = w
      /\ fat' = tab /\ disk' = w.disk /\ \A b \in FatBlocks : ~modif'[b]
      /\ modif' \in [FatBlocks -> BOOLEAN]
  BY SaveIs
<1>2. /\ super /\ tab \in Fats
      /\ todo # <<>> /\ w.fat = tab /\ Sound(w) /\ Path(w, Tail(todo))
      /\ Tail(todo) = <<>> => Last(todo) = w
      /\ w.disk = [n \in Blocs |-> IF tab[n] = FAT_FREE THEN Blank ELSE disk[n]]
  BY <1>1 DEF MInv, Mounting, Saving
<1> HIDE DEF w
<1>3. DiskNow'.fat = w.fat /\ DiskNow'.disk = w.disk
  BY <1>1, <1>2 DEF DiskNow
<1>4. Sound(DiskNow') /\ SameNames(DiskNow', w)
  <2>1. w.fat = DiskNow'.fat /\ w.disk = DiskNow'.disk
    BY <1>3
  <2> QED
    BY <1>2, <2>1, SoundSame
<1>5. IsDisk(disk')
  BY <1>1, <1>2 DEF Sound
<1>6. tab[ADR_DIR] # FAT_FREE
  <2>1. PICK s, n : HasDirectory(w, s, n)
    BY <1>2 DEF Sound
  <2>2. IsDirectory(w.fat, w.disk, s, n)
    BY <2>1 DEF HasDirectory
  <2>3. n \in Nat \ {0} /\ s[0] = ADR_DIR
    BY <2>2, DirectoryIs
  <2>4. 0 \in 0 .. n - 1
    BY <2>3
  <2> QED
    BY <1>2, <2>2, <2>3, <2>4, DirectoryMarked
<1>7. w.disk = [n \in Blocs |-> IF tab[n] = FAT_FREE THEN Blank ELSE w.disk[n]]
  BY <1>2
<1>8. Saving'
  BY <1>1, <1>2, <1>4, <1>7 DEF Saving
<1>9. Mounting'
  BY <1>1, <1>2 DEF Mounting
<1> QED
  BY <1>1, <1>2, <1>4, <1>5, <1>6, <1>8, <1>9 DEF MInv, Formatting

(* its end, *)
LEMMA SaveReturnsKeeps == MInv /\ SaveReturns => MInv'
<1> SUFFICES ASSUME MInv, SaveReturns PROVE MInv'
  OBVIOUS
<1> DEFINE w == Head(todo)
<1>1. /\ phase = "sauve" /\ phase' = "marche" /\ todo' = Tail(todo)
      /\ \A b \in FatBlocks : ~modif[b]
      /\ fat' = fat /\ disk' = disk /\ super' = super /\ k' = k /\ tab' = tab /\ modif' = modif
  BY DEF SaveReturns, volume
<1>2. ~Behind
  BY <1>1, FatBlocksAre DEF Behind
<1>3. /\ super /\ tab \in Fats /\ modif \in [FatBlocks -> BOOLEAN]
      /\ w.fat = tab /\ Path(w, Tail(todo)) /\ fat = tab /\ disk = w.disk
  BY <1>1, <1>2 DEF MInv, Mounting, Saving
<1> HIDE DEF w
<1>4. DiskNow' = DiskNow /\ DiskNow.fat = w.fat /\ DiskNow.disk = w.disk
  BY <1>1, <1>3 DEF DiskNow
<1>5. Path(DiskNow, Tail(todo))
  BY <1>3, <1>4, SoundSame
<1>6. Mounting'
  BY <1>1, <1>3, <1>4, <1>5 DEF Mounting
<1> QED
  BY <1>1, <1>4, <1>6 DEF MInv, Formatting, Saving

(* What a kill leaves: nobody reads what it forgets. *)
LEMMA KillLeaves ==
  ASSUME MInv, Kill
  PROVE  /\ fat' = fat /\ IsDisk(disk') /\ Clean(DiskNow') /\ disk'[ADR_DIR] = disk[ADR_DIR]
         /\ super => Sound(DiskNow') /\ SameNames(DiskNow, DiskNow')
         /\ phase' = "arret" /\ todo' = <<>> /\ k' = 0 /\ super' = super
<1>1. /\ phase' = "arret" /\ k' = 0 /\ todo' = <<>> /\ super' = super
      /\ fat' = fat /\ disk' = [n \in Blocs |-> IF fat[n] = FAT_FREE THEN Blank ELSE disk[n]]
  BY ForgottenIs DEF Kill, Becomes, Volume
<1>2. /\ fat \in Fats /\ fat[ADR_DIR] # FAT_FREE /\ ADR_DIR \in Blocs
      /\ super => Sound(DiskNow)
  BY ValuesTyped DEF MInv
<1>3. IsDisk(disk') /\ \A n \in Blocs : disk'[n] = IF fat[n] = FAT_FREE THEN Blank ELSE disk[n]
  BY <1>1 DEF IsDisk
<1>4. DiskNow'.fat = fat /\ DiskNow'.disk = disk' /\ DiskNow.fat = fat /\ DiskNow.disk = disk
  BY <1>1 DEF DiskNow
<1>5. Clean(DiskNow')
  BY <1>3, <1>4 DEF Clean
<1>6. ASSUME super
      PROVE  Sound(DiskNow') /\ SameNames(DiskNow, DiskNow')
  <2>1. Reserved(DiskNow'.fat) /\ DiskNow'.fat \in Fats /\ IsDisk(DiskNow'.disk)
    BY <1>2, <1>3, <1>4, <1>6 DEF Sound
  <2>2. \A i \in Blocs : DiskNow.fat[i] # FAT_FREE =>
          DiskNow'.fat[i] = DiskNow.fat[i] /\ DiskNow'.disk[i] = DiskNow.disk[i]
    BY <1>3, <1>4
  <2> QED
    BY <1>2, <1>6, <2>1, <2>2, SoundKept
<1> QED
  BY <1>1, <1>2, <1>3, <1>5, <1>6

(* and a kill between two writes. *)
LEMMA KillKeeps == MInv /\ Kill => MInv'
<1> SUFFICES ASSUME MInv, Kill PROVE MInv'
  OBVIOUS
<1>1. /\ fat' = fat /\ IsDisk(disk') /\ Clean(DiskNow') /\ disk'[ADR_DIR] = disk[ADR_DIR]
      /\ super => Sound(DiskNow')
      /\ phase' = "arret" /\ todo' = <<>> /\ k' = 0 /\ super' = super
  BY KillLeaves
<1> QED
  BY <1>1 DEF MInv, Formatting, Mounting, Saving

(* Any step of Montage. *)
LEMMA MontageStep == MInv /\ [MontageNext]_montage => MInv'
<1> SUFFICES ASSUME MInv, [MontageNext]_montage PROVE MInv'
  OBVIOUS
<1>1. CASE UNCHANGED montage
  <2>1. /\ fat' = fat /\ disk' = disk /\ super' = super /\ phase' = phase /\ k' = k
        /\ tab' = tab /\ modif' = modif /\ todo' = todo
    BY <1>1 DEF montage, volume
  <2>2. DiskNow' = DiskNow
    BY <2>1 DEF DiskNow
  <2> QED
    BY <2>1, <2>2 DEF MInv, Formatting, Mounting, Saving, Behind
<1> QED
  BY <1>1, FormatKeeps, FormatFatKeeps, FormatSuperKeeps, EmptyDirectoryKeeps, InitFatKeeps,
     CallsKeep, WriteKeeps, SetFatKeeps, SaveKeeps, SaveReturnsKeeps, KillKeeps DEF MontageNext

(* MInv is an invariant of Montage. *)
LEMMA MontageInvariant == MontageSpec => []MInv
<1> QED
  BY MontageInitial, MontageStep, PTL DEF MontageSpec

-----------------------------------------------------------------------------
(* A directory has a name once. *)
LEMMA OnceNamed ==
  ASSUME NEW v, NEW s, NEW n, IsDirectory(v.fat, v.disk, s, n), NEW nom
  PROVE  Cardinality(Named(v, nom)) <= 1
<1>1. CASE \E p \in PlacesOf(n) : HasName(v.disk, s, p, nom)
  <2>1. PICK p \in PlacesOf(n) : Named(v, nom) = {p}
    BY <1>1, Finds
  <2>2. Cardinality({p}) = 1
    BY FS_Singleton
  <2> QED
    BY <2>1, <2>2
<1>2. CASE \A p \in PlacesOf(n) : ~HasName(v.disk, s, p, nom)
  <2>1. Named(v, nom) = {}
    BY <1>2, Finds
  <2>2. Cardinality({}) = 0
    BY FS_EmptySet
  <2> QED
    BY <2>1, <2>2
<1> QED
  BY <1>1, <1>2

(* A disk that can be mounted has a whole directory, whoever is killed and *)
(* when: for every disk, block size, size of a directory block and set of  *)
(* names.                                                                  *)
LEMMA WholeNow == MInv => DirectoryWhole
<1> SUFFICES ASSUME MInv, super
             PROVE  /\ ChainEnds(fat, ADR_DIR)
                    /\ \A n \in DirBlocks : fat[n] # FAT_FREE /\ fat[n] # FAT_INODE
                    /\ \A nom \in NOMS : Cardinality(Named(Volume, nom)) <= 1
  BY DEF DirectoryWhole
<1>1. /\ Sound(DiskNow) /\ fat \in Fats /\ ADR_DIR \in Values
      /\ DiskNow.fat = fat /\ DiskNow.disk = disk /\ Volume.fat = fat /\ Volume.disk = disk
  BY ValuesTyped DEF MInv, DiskNow, Volume
<1>2. PICK s, n : HasDirectory(DiskNow, s, n)
  BY <1>1 DEF Sound
<1>3. IsDirectory(fat, disk, s, n) /\ IsDirectory(Volume.fat, Volume.disk, s, n)
  BY <1>1, <1>2 DEF HasDirectory
<1>4. IsChain(fat, ADR_DIR, s, n)
  BY <1>3 DEF IsDirectory
<1>5. ChainEnds(fat, ADR_DIR) /\ DirBlocks = ChainSet(s, n)
  BY <1>1, <1>4, ChainFacts DEF DirBlocks
<1>6. \A j \in 0 .. n - 1 : fat[s[j]] # FAT_FREE /\ fat[s[j]] # FAT_INODE
  BY <1>3, DirectoryMarked
<1>7. ASSUME NEW nom \in NOMS
      PROVE  Cardinality(Named(Volume, nom)) <= 1
  BY <1>3, OnceNamed
<1> QED
  BY <1>5, <1>6, <1>7 DEF ChainSet

(* Whoever is killed and when, also in a format, a disk that mounts has a  *)
(* directory whose chain ends, on blocks that nobody else may take, and no *)
(* name twice.                                                             *)
THEOREM DirectoryStaysWhole == MontageSpec => []DirectoryWhole
<1> QED
  BY MontageInvariant, WholeNow, PTL

(* The FAT in memory is the one on the disk between two calls, and in one  *)
(* they differ in the entry being saved.                                   *)
LEMMA MountedNow == MInv => MountedAsOnDisk
<1> SUFFICES ASSUME MInv, phase \in {"marche", "sauve"}
             PROVE  /\ Cardinality({n \in Blocs : tab[n] # fat[n]}) <= (IF phase = "sauve" THEN 1 ELSE 0)
                    /\ tab = fat <=> \A b \in FatBlocks : ~modif[b]
  BY DEF MountedAsOnDisk
<1> DEFINE D == {n \in Blocs : tab[n] # fat[n]}
<1>1. (tab = fat /\ \A b \in FatBlocks : ~modif[b]) \/ (phase = "sauve" /\ Behind)
  BY DEF MInv, Mounting, Saving
<1>2. CASE tab = fat /\ \A b \in FatBlocks : ~modif[b]
  <2>1. D = {} /\ Cardinality({}) = 0
    BY <1>2, FS_EmptySet
  <2> HIDE DEF D
  <2>2. Cardinality(D) <= IF phase = "sauve" THEN 1 ELSE 0
    BY <2>1
  <2> QED
    BY <1>2, <2>2 DEF D
<1>3. CASE phase = "sauve" /\ Behind
  <2>1. PICK n \in Blocs : /\ fat[n] # tab[n] /\ \A i \in Blocs : i # n => fat[i] = tab[i]
                           /\ modif = [b \in FatBlocks |-> b = FatBlock(n)]
    BY <1>3 DEF Behind
  <2>2. D = {n} /\ Cardinality({n}) = 1
    BY <2>1, FS_Singleton
  <2>3. modif[FatBlock(n)] /\ FatBlock(n) \in FatBlocks
    BY <2>1, FatBlocksAre
  <2> HIDE DEF D
  <2>4. Cardinality(D) <= 1
    BY <2>2
  <2> QED
    BY <1>3, <2>1, <2>3, <2>4 DEF D
<1> QED
  BY <1>1, <1>2, <1>3

(* Once init_sgf_fat() has read it, the FAT in memory is the one on the    *)
(* disk, or one entry ahead of it while save_fat() has yet to write.       *)
THEOREM MountedStaysAsOnDisk == MontageSpec => []MountedAsOnDisk
<1> QED
  BY MontageInvariant, MountedNow, PTL

(* A call changes what the directory says of one name when it writes a     *)
(* block of it, and of none when it does not, and the writes of the call   *)
(* that lead there show the directory as it was or as it is to be.         *)
LEMMA CallChanges == MInv /\ Calls => OneNameStep
<1> SUFFICES ASSUME MInv, Calls PROVE OneNameStep
  OBVIOUS
<1>1. PICK w : Call(w) /\ Called(Volume, w)
  BY CallsAre
<1> DEFINE z == OnDisk(w)
<1>2. Last(todo') = z /\ volume' = volume /\ OneName(Volume, z)
  <2>1. todo' = Sortie(w) /\ volume' = volume
    BY <1>1 DEF Call, Sortie
  <2> QED
    BY <1>1, <2>1 DEF Called
<1> HIDE DEF z
<1>3. Volume.disk = disk
  BY DEF Volume
<1> QED
  BY <1>2, <1>3 DEF OneNameStep, OneName

(* The listing of two volumes with the same names. *)
LEMMA SameListings ==
  ASSUME NEW v, NEW w, SameNames(v, w)
  PROVE  Listing(w) = Listing(v)
BY DEF SameNames, Listing

(* The listing before a step, *)
LEMMA ListingNow ==
  ASSUME NEW v, v.fat = fat, v.disk = disk
  PROVE  Listing(Volume) = Listing(v)
<1>1. SameNames(v, Volume)
  BY SoundSame DEF Volume
<1> QED
  BY <1>1, SameListings

(* and after it. *)
LEMMA ListingNext ==
  ASSUME NEW v, v.fat = fat', v.disk = disk'
  PROVE  Listing(Volume)' = Listing(v)
<1> DEFINE u == [fat |-> fat', disk |-> disk', passe |-> <<>>]
<1>1. u.fat = v.fat /\ u.disk = v.disk
  OBVIOUS
<1>2. Volume' = u
  BY DEF Volume
<1> HIDE DEF u
<1>3. SameNames(v, u)
  BY <1>1, SoundSame
<1>4. Listing(u) = Listing(v)
  BY <1>3, SameListings
<1>5. Listing(Volume)' = Listing(u)
  BY <1>2 DEF Listing
<1> QED
  BY <1>4, <1>5

(* A block write changes one name at most, *)
LEMMA WriteChanges == MInv /\ WriteBlock => OneNameStep
<1> SUFFICES ASSUME MInv, WriteBlock PROVE OneNameStep
  OBVIOUS
<1> DEFINE w == Head(todo)
<1>1. phase = "marche" /\ todo # <<>> /\ w.fat = tab /\ disk' = w.disk /\ fat' = fat
  BY DEF WriteBlock
<1>2. tab = fat /\ Path(DiskNow, todo)
  BY <1>1 DEF MInv, Mounting
<1>3. IF Tail(todo) = <<>> THEN Last(todo) = w ELSE SameNames(DiskNow, w)
  BY <1>1, <1>2, PathTail
<1> HIDE DEF w
<1>4. Listing(Volume)' = Listing(w)
  BY <1>1, <1>2, ListingNext
<1>5. Listing(Volume) = Listing(DiskNow)
  BY ListingNow DEF DiskNow
<1>6. Listing(Volume)' \in {Listing(Volume), Listing(Last(todo))}
  BY <1>3, <1>4, <1>5, SameListings
<1> QED
  BY <1>1, <1>6 DEF OneNameStep

(* as does the start of save_fat *)
LEMMA SaveChanges == MInv /\ save_fat => OneNameStep
<1> SUFFICES ASSUME MInv, save_fat PROVE OneNameStep
  OBVIOUS
<1> DEFINE w == Head(todo)
<1>1. phase = "sauve" /\ disk' = w.disk /\ fat' = tab
  BY SaveIs
<1>2. /\ todo # <<>> /\ w.fat = tab
      /\ IF Tail(todo) = <<>> THEN Last(todo) = w ELSE SameNames(DiskNow, w)
  BY <1>1 DEF MInv, Saving
<1> HIDE DEF w
<1>4. Listing(Volume)' = Listing(w)
  BY <1>1, <1>2, ListingNext
<1>5. Listing(Volume) = Listing(DiskNow)
  BY ListingNow DEF DiskNow
<1>6. Listing(Volume)' \in {Listing(Volume), Listing(Last(todo))}
  BY <1>2, <1>4, <1>5, SameListings
<1> QED
  BY <1>2, <1>6 DEF OneNameStep

(* and a kill. *)
LEMMA KillChanges == MInv /\ Kill => OneNameStep
<1> SUFFICES ASSUME MInv, Kill PROVE OneNameStep
  OBVIOUS
<1>1. todo' = <<>> /\ (super => SameNames(DiskNow, DiskNow'))
  BY KillLeaves
<1>2. ASSUME phase \in {"marche", "sauve"}
      PROVE  Listing(Volume)' = Listing(Volume)
  <2>1. SameNames(DiskNow, DiskNow')
    BY <1>1, <1>2 DEF MInv, Mounting
  <2>2. Listing(DiskNow') = Listing(DiskNow)
    BY <2>1, SameListings
  <2>3. Listing(Volume) = Listing(DiskNow)
    BY ListingNow DEF DiskNow
  <2>4. Listing(Volume)' = Listing(DiskNow')
    BY ListingNext DEF DiskNow
  <2> QED
    BY <2>2, <2>3, <2>4
<1> QED
  BY <1>1, <1>2 DEF OneNameStep

(* Every step does. *)
LEMMA NamesStep == MInv /\ [MontageNext]_montage => [OneNameStep]_montage
<1> SUFFICES ASSUME MInv, MontageNext PROVE [OneNameStep]_montage
  BY DEF montage
<1>1. ASSUME Format \/ FormatFat \/ FormatSuper \/ create_empty_directory
      PROVE  OneNameStep
  <2>1. phase \in {"arret", "format"} /\ todo' = todo
    BY <1>1 DEF Format, FormatFat, FormatSuper, create_empty_directory, InMemory
  <2> QED
    BY <2>1 DEF OneNameStep
<1>2. ASSUME init_sgf_fat
      PROVE  OneNameStep
  <2>1. phase = "arret" /\ todo' = todo
    BY <1>2 DEF init_sgf_fat
  <2> QED
    BY <2>1 DEF OneNameStep
<1>3. ASSUME SetFat
      PROVE  OneNameStep
  <2>1. volume' = volume /\ todo' = todo
    BY <1>3 DEF SetFat
  <2> QED
    BY <2>1 DEF OneNameStep
<1>4. ASSUME SaveReturns
      PROVE  OneNameStep
  <2>1. volume' = volume /\ todo # <<>>
    BY <1>4 DEF SaveReturns, MInv, Saving
  <2> QED
    BY <2>1 DEF OneNameStep
<1> QED
  BY <1>1, <1>2, <1>3, <1>4, CallChanges, WriteChanges, SaveChanges, KillChanges DEF MontageNext

(* A call of the directory that writes one of its blocks changes what one  *)
(* name leads to, by one block write; any other call changes no name.      *)
THEOREM OneNameChangedAtATime == MontageSpec => OneNameAtATime
<1> QED
  BY MontageInvariant, NamesStep, PTL DEF MontageSpec, OneNameAtATime
=============================================================================
