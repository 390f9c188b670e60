------------------------------ MODULE SgfProofs ------------------------------
(***************************************************************************)
(* Files: proofs of the invariants of Sgf for every disk, block size, set  *)
(* of names and of texts; that Sgf implements Fichiers; and, last, what    *)
(* SgfPanne promises of the disk, for any number of killed programs.       *)
(***************************************************************************)
EXTENDS SgfPanne, VolumeProofs

(* The inductive invariant: the blocks have their owners and names lead to *)
(* inodes whatever has failed; while no failure was dropped, all names and *)
(* lengths are right, of the open file up to what its buffer holds.        *)
Busy(fl, ap) ==
  /\ fl # NULL /\ ~Reads(fl)
  /\ ap \in [op : {"puts", "write"}, reste : Seq(CHARS) \ {<<>>}]
  /\ fl.length + Len(ap.reste) <= MAX_LENGTH
State(v, md, fl, ap, pe) ==
  /\ IsVolume(v) /\ Owned(v) /\ Leading(v) /\ pe \in BOOLEAN /\ Consistent(v, fl, pe)
  /\ md \in {"arret", "marche", "panique", "abandon"}
  /\ md # "marche" => fl = NULL
  /\ md = "panique" => pe
  /\ ap = Idle \/ (md = "marche" /\ Busy(fl, ap))
SInv == State(Volume, mode, file, appel, perte)

(* It is about the FAT and the blocks, not the writes that led there. *)
LEMMA SameConsistent ==
  ASSUME NEW v, Owned(v), NEW w, w = [fat |-> v.fat, disk |-> v.disk, passe |-> <<>>]
  PROVE  /\ IsVolume(w) /\ Owned(w) /\ w.fat = v.fat /\ w.disk = v.disk
         /\ Leading(v) => Leading(w)
         /\ \A fl, pe : Consistent(v, fl, pe) => Consistent(w, fl, pe)
<1>1. w.fat = v.fat /\ w.disk = v.disk /\ w.passe = <<>>
  OBVIOUS
<1>2. IsVolume(w)
  <2>1. w = [fat |-> w.fat, disk |-> w.disk, passe |-> w.passe]
    BY <1>1
  <2>2. v.fat \in Fats /\ IsDisk(v.disk)
    BY DEF Owned, IsVolume
  <2>3. IsPast(w.passe)
    BY <1>1, PastGrows
  <2> QED
    BY <1>1, <2>1, <2>2, <2>3 DEF IsVolume
<1>3. Owned(w) /\ InodesOf(w) = InodesOf(v) /\ SameNames(v, w) /\ \A i : DataOf(w, i) = DataOf(v, i)
  BY <1>1, <1>2, SameOwned
<1>4. (Leading(v) => Leading(w)) /\ (AllNamed(v) => AllNamed(w))
  BY <1>3, NamesKept
<1>5. ASSUME NEW fl, NEW pe, Consistent(v, fl, pe) PROVE Consistent(w, fl, pe)
  <2>1. \A i \in InodesOf(v) : Complete(v, i) => Complete(w, i)
    BY <1>1, <1>3 DEF Complete
  <2>2. fl # NULL => OpenFile(w, fl)
    BY <1>1, <1>3, <1>5 DEF Consistent, OpenFile
  <2>3. ASSUME ~pe, fl # NULL
        PROVE  IF Reads(fl) THEN ReadAt(w, fl) ELSE InProgress(w, fl)
    <3>1. IF Reads(fl) THEN ReadAt(v, fl) ELSE InProgress(v, fl)
      BY <1>5, <2>3 DEF Consistent
    <3>2. ReadAt(v, fl) => ReadAt(w, fl)
      BY <1>1 DEF ReadAt
    <3>3. InProgress(v, fl) => InProgress(w, fl)
      BY <1>1, <1>3 DEF InProgress
    <3> QED
      BY <3>1, <3>2, <3>3
  <2>4. ~pe => /\ AllNamed(w)
               /\ \A i \in InodesOf(w) :
                    (fl # NULL /\ ~Reads(fl) /\ fl.inode = i) \/ Complete(w, i)
    BY <1>3, <1>4, <1>5, <2>1 DEF Consistent
  <2> QED
    BY <2>2, <2>3, <2>4 DEF Consistent
<1> QED
  BY <1>1, <1>2, <1>3, <1>4, <1>5

(* The state that a call leaves. *)
LEMMA LeavesState ==
  ASSUME NEW r, NEW pe \in BOOLEAN, Good(r, pe),
         NEW w, w = [fat |-> r.vol.fat, disk |-> r.vol.disk, passe |-> <<>>],
         NEW md, md = IF r.panique THEN "panique" ELSE "marche",
         NEW fl, fl = IF r.panique THEN NULL ELSE r.file,
         NEW pf, pf = (pe \/ r.perdu),
         NEW ap, ap = Idle \/ (~r.panique /\ Busy(r.file, ap))
  PROVE  State(w, md, fl, ap, pf)
<1>1. Owned(r.vol) /\ Leading(r.vol)
  BY DEF Good
<1>2. IsVolume(w) /\ Owned(w) /\ Leading(w)
      /\ \A gl, q : Consistent(r.vol, gl, q) => Consistent(w, gl, q)
  BY <1>1, SameConsistent
<1>3. /\ r.perdu \in BOOLEAN /\ r.panique \in BOOLEAN /\ (r.panique => pe \/ r.perdu)
      /\ (~r.panique => Consistent(r.vol, r.file, pe \/ r.perdu))
  BY Zenon DEF Good
<1>4. pf \in BOOLEAN /\ (r.panique => pf)
  BY <1>3, Zenon
<1>5. ~r.panique => Consistent(r.vol, r.file, pf)
  BY <1>3, Zenon
<1>6. CASE r.panique
  <2>1. fl = NULL /\ md = "panique" /\ ap = Idle /\ pf
    BY <1>4, <1>6, Zenon
  <2>2. Consistent(w, fl, pf)
    BY <2>1 DEF Consistent
  <2> QED
    BY <1>2, <1>4, <2>1, <2>2 DEF State
<1>7. CASE ~r.panique
  <2>1. fl = r.file /\ md = "marche" /\ (ap = Idle \/ Busy(fl, ap))
    BY <1>7, Zenon
  <2>2. Consistent(r.vol, fl, pf)
    BY <1>5, <1>7, <2>1, Zenon
  <2>3. Consistent(w, fl, pf)
    BY <1>2, <2>2
  <2> QED
    BY <1>2, <1>4, <2>1, <2>3 DEF State
<1> QED
  BY <1>6, <1>7

(* The disk as the program formats it. *)
LEMMA FormattedState == State(FormattedVolume, "arret", NULL, Idle, FALSE)
<1> DEFINE v == FormattedVolume
<1>1. /\ v = [fat |-> v.fat, disk |-> v.disk, passe |-> <<>>] /\ v.passe = <<>>
      /\ v.fat = create_empty_fat
      /\ v.disk = [n \in Blocs |-> IF n = ADR_DIR THEN EmptyDir ELSE Blank]
  BY DEF FormattedVolume
<1> HIDE DEF v
<1>2. ADR_DIR \in Blocs /\ v.disk[ADR_DIR] = EmptyDir /\ \A n \in Blocs : n # ADR_DIR => v.disk[n] = Blank
  BY <1>1, ValuesTyped
<1>3. v.fat \in Fats /\ v.fat[ADR_DIR] = FAT_EOF /\ Reserved(v.fat)
  BY <1>1, EmptyFat
<1>4. IsDisk(v.disk)
  BY <1>1 DEF IsDisk
<1>5. IsVolume(v)
  BY <1>1, <1>3, <1>4, PastGrows DEF IsVolume
<1>6. Sound(v)
  BY <1>2, <1>3, <1>4, OneBlock
<1>7. \A n \in Blocs : v.fat[n] # FAT_INODE /\ (v.fat[n] = FAT_FREE => n # ADR_DIR)
      /\ (n >= ADR_DIR /\ v.fat[n] # FAT_FREE => n = ADR_DIR)
  BY <1>1, ValuesTyped DEF create_empty_fat
<1>8. Clean(v)
  BY <1>2, <1>7 DEF Clean
<1>9. InodesOf(v) = {}
  BY <1>7 DEF InodesOf
<1>10. PICK s, n : HasDirectory(v, s, n)
  BY <1>6 DEF Sound
<1>11. IsDirectory(v.fat, v.disk, s, n) /\ n \in Nat \ {0} /\ s[0] = ADR_DIR
  BY <1>10, DirectoryIs DEF HasDirectory
<1>12. ADR_DIR \in DirOf(v)
  <2>1. IsChain(v.fat, ADR_DIR, s, n) /\ ADR_DIR \in Values
    BY <1>11, ValuesTyped DEF IsDirectory
  <2>2. DirOf(v) = ChainSet(s, n)
    BY <1>3, <1>11, <2>1, ChainFacts DEF DirOf
  <2>3. 0 \in 0 .. n - 1
    BY <1>11
  <2> QED
    BY <1>11, <2>2, <2>3 DEF ChainSet
<1>13. Owned(v)
  <2>1. Chained(v) /\ Disjoint(v)
    BY <1>9 DEF Chained, Disjoint
  <2>2. Covered(v)
    BY <1>7, <1>12 DEF Covered
  <2> QED
    BY <1>5, <1>6, <1>8, <2>1, <2>2 DEF Owned
<1>14. \A nom : find_inode(v, nom) = -1
  <2> TAKE nom
  <2>1. ASSUME NEW p \in PlacesOf(n)
        PROVE  ~HasName(v.disk, s, p, nom)
    <3> DEFINE k == p \div BLOCK_DIR_SIZE
               j == p % BLOCK_DIR_SIZE
    <3>1. k \in 0 .. n - 1 /\ j \in 0 .. BLOCK_DIR_SIZE - 1
      BY <1>11, DirectoryIs
    <3>2. EntryOf(v.disk, s, p) = v.disk[s[k]][j]
      BY DEF EntryOf
    <3> HIDE DEF k, j
    <3>3. v.disk[s[k]] \in DirContents /\ s[k] \in Blocs
      BY <1>11, <3>1, DirectoryMarked DEF IsDirectory
    <3>4. s[k] = ADR_DIR
      BY <1>2, <3>3, RepertoireAssumption
    <3>5. v.disk[s[k]] = EmptyDir
      BY <1>2, <3>4
    <3>6. EmptyDir[j] = [name |-> NoName, inode |-> 0]
      BY <3>1 DEF EmptyDir
    <3>7. EntryOf(v.disk, s, p).inode = 0
      BY <3>2, <3>5, <3>6
    <3> QED
      BY <3>7 DEF HasName
  <2> QED
    BY <1>11, <2>1, Finds
<1>15. Leading(v)
  BY <1>14 DEF Leading
<1>16. Consistent(v, NULL, FALSE)
  <2>1. AllNamed(v) /\ \A i \in InodesOf(v) : Complete(v, i)
    BY <1>9 DEF AllNamed
  <2> QED
    BY <2>1 DEF Consistent
<1>17. State(v, "arret", NULL, Idle, FALSE)
  BY <1>5, <1>13, <1>15, <1>16, Zenon DEF State
<1> QED
  BY <1>17, Zenon DEF v

-----------------------------------------------------------------------------
(* Each step keeps it. *)
LEMMA VolumeIs == Volume.fat = fat /\ Volume.disk = disk
BY DEF Volume

(* The invariant holds of a disk just formatted. *)
LEMMA SgfInitial == SgfInit => SInv
<1> SUFFICES ASSUME SgfInit PROVE SInv
  OBVIOUS
<1>1. Volume = FormattedVolume
  BY DEF SgfInit, Formatted, Volume, FormattedVolume
<1>2. mode = "arret" /\ file = NULL /\ appel = Idle /\ perte = FALSE
  BY DEF SgfInit
<1> QED
  BY <1>1, <1>2, FormattedState, Zenon DEF SInv

(* What holds between two steps of a program that runs. *)
LEMMA Running ==
  ASSUME SInv, mode = "marche"
  PROVE  /\ IsVolume(Volume) /\ Owned(Volume) /\ Leading(Volume) /\ perte \in BOOLEAN
         /\ Consistent(Volume, file, perte)
         /\ appel = Idle \/ Busy(file, appel)
BY DEF SInv, State

(* Nothing it speaks of changes. *)
LEMMA SameKeeps == SInv /\ UNCHANGED <<volume, mode, file, appel, perte>> => SInv'
<1> SUFFICES ASSUME SInv, UNCHANGED <<volume, mode, file, appel, perte>> PROVE SInv'
  OBVIOUS
<1>1. Volume' = Volume
  BY DEF Volume, volume
<1> QED
  BY <1>1 DEF SInv

(* Only the open file changes. *)
LEMMA FileChanges ==
  ASSUME SInv, mode = "marche", UNCHANGED <<volume, mode, perte>>,
         Consistent(Volume, file', perte), appel' = Idle \/ Busy(file', appel')
  PROVE  SInv'
<1>1. Volume' = Volume
  BY DEF Volume, volume
<1>2. State(Volume, mode, file', appel', perte)
  BY Running DEF State
<1>3. State(Volume', mode', file', appel', perte')
  BY <1>1, <1>2
<1> QED
  BY <1>3 DEF SInv

(* A call that returns well keeps the invariant. *)
LEMMA CallKeeps ==
  ASSUME SInv, mode = "marche", NEW r, Good(r, perte), Leaves(r),
         appel' = Idle \/ (~r.panique /\ Busy(r.file, appel'))
  PROVE  SInv'
<1>1. Volume' = [fat |-> r.vol.fat, disk |-> r.vol.disk, passe |-> <<>>]
  BY DEF Leaves, Becomes, Volume
<1>2. /\ mode' = IF r.panique THEN "panique" ELSE "marche"
      /\ file' = IF r.panique THEN NULL ELSE r.file
      /\ perte' = (perte \/ r.perdu)
  BY Zenon DEF Leaves
<1>3. perte \in BOOLEAN
  BY Running
<1>4. State(Volume', mode', file', appel', perte')
  BY <1>1, <1>2, <1>3, LeavesState, Zenon
<1> QED
  BY <1>4 DEF SInv

(* sgf_open() gives NULL: nothing changes but the answer. *)
OpenNull(nom) == OpenUnknown(nom) \/ \E op \in {"open_read", "open_append"} : OpenFails(op, nom)
LEMMA NullSame ==
  ASSUME NEW nom, OpenNull(nom)
  PROVE  Closed /\ UNCHANGED <<volume, mode, file, appel, perte>>
BY DEF OpenNull, OpenUnknown, OpenFails

(* The inode that a name leads to. *)
LEMMA NameLeads ==
  ASSUME SInv, mode = "marche", NEW nom, find_inode(Volume, nom) >= 0
  PROVE  find_inode(Volume, nom) \in InodesOf(Volume)
<1>1. Leading(Volume)
  BY Running
<1>2. find_inode(Volume, nom) # -1
  OBVIOUS
<1> QED
  BY <1>1, <1>2 DEF Leading

(* init_sgf. *)
LEMMA MountKeeps == SInv /\ init_sgf => SInv'
<1> SUFFICES ASSUME SInv, init_sgf PROVE SInv'
  OBVIOUS
<1>1. Volume' = Volume
  BY DEF init_sgf, Volume, volume
<1>2. mode # "marche" /\ mode' = "marche" /\ file' = NULL /\ appel' = Idle /\ perte' = perte
  BY DEF init_sgf
<1>3. State(Volume, "marche", NULL, Idle, perte)
  BY <1>2 DEF SInv, State
<1>4. State(Volume', mode', file', appel', perte')
  BY <1>1, <1>2, <1>3
<1> QED
  BY <1>4 DEF SInv

(* sgf_open, to read. *)
LEMMA OpenReadKeeps == ASSUME SInv, NEW nom \in NOMS, sgf_open_read(nom) PROVE SInv'
<1> DEFINE i == find_inode(Volume, nom)
<1>1. mode = "marche" /\ appel = Idle /\ file = NULL /\ i >= 0
  BY DEF sgf_open_read, Closed, Ready
<1>2. UNCHANGED <<volume, mode, perte>> /\ appel' = appel
      /\ file' = OFile(i, Volume.disk[i], Volume.disk[i].first, 0, READ_MODE)
  BY VolumeIs DEF sgf_open_read
<1>3. i \in InodesOf(Volume)
  BY <1>1, NameLeads
<1>4. /\ Owned(Volume) /\ Leading(Volume) /\ perte \in BOOLEAN /\ Consistent(Volume, NULL, perte)
  BY <1>1, Running
<1> HIDE DEF i
<1>5. Consistent(Volume, file', perte)
  BY <1>2, <1>3, <1>4, OpenReadStep
<1> QED
  BY <1>1, <1>2, <1>5, FileChanges

(* sgf_open, to append. *)
LEMMA OpenAppendKeeps == ASSUME SInv, NEW nom \in NOMS, sgf_open_append(nom) PROVE SInv'
<1> DEFINE i == find_inode(Volume, nom)
           fl == OFile(i, disk[i], disk[i].last, disk[i].length, APPEND_MODE)
           r == IF fl.length % BLOCK_SIZE # 0
                THEN sgf_read_bloc(Volume, fl, fl.ptr \div BLOCK_SIZE) ELSE Result(Volume, fl)
<1>1. mode = "marche" /\ appel = Idle /\ file = NULL /\ i >= 0
  BY DEF sgf_open_append, Closed, Ready
<1>2. Leaves(r) /\ appel' = appel
  BY DEF sgf_open_append
<1>3. i \in InodesOf(Volume)
  BY <1>1, NameLeads
<1>4. /\ Owned(Volume) /\ Leading(Volume) /\ perte \in BOOLEAN /\ Consistent(Volume, NULL, perte)
  BY <1>1, Running
<1> HIDE DEF i
<1>5. fl = OFile(i, Volume.disk[i], Volume.disk[i].last, Volume.disk[i].length, APPEND_MODE)
  BY VolumeIs
<1> HIDE DEF fl
<1>6. Good(r, perte)
  BY <1>3, <1>4, <1>5, OpenAppendStep
<1> HIDE DEF r
<1> QED
  BY <1>1, <1>2, <1>6, CallKeeps

(* sgf_open, to write. *)
LEMMA OpenWriteKeeps == ASSUME SInv, NEW nom \in NOMS, sgf_open_write(nom) PROVE SInv'
<1> DEFINE r == NewFile(Volume, nom)
<1>1. mode = "marche" /\ appel = Idle /\ file = NULL /\ Free(Volume.fat) # {}
  BY VolumeIs DEF sgf_open_write, Closed, Ready
<1>2. Leaves(r) /\ appel' = appel
  BY DEF sgf_open_write
<1>3. /\ Owned(Volume) /\ Leading(Volume) /\ perte \in BOOLEAN /\ Consistent(Volume, NULL, perte)
  BY <1>1, Running
<1>4. Good(r, perte)
  BY <1>1, <1>3, OpenWriteStep
<1> HIDE DEF r
<1> QED
  BY <1>1, <1>2, <1>4, CallKeeps

(* sgf_open to write on a full disk: an assert. *)
LEMMA OpenFullKeeps == SInv /\ sgf_open_write_full => SInv'
<1> SUFFICES ASSUME SInv, sgf_open_write_full PROVE SInv'
  OBVIOUS
<1>1. Volume' = Volume
  BY DEF sgf_open_write_full, Volume, volume
<1>2. /\ mode = "marche" /\ appel = Idle /\ file = NULL /\ Free(Volume.fat) = {}
      /\ mode' = "abandon" /\ file' = file /\ appel' = appel /\ perte' = perte
  BY VolumeIs DEF sgf_open_write_full, Closed, Ready
<1>3. State(Volume, "abandon", file, appel, perte)
  BY <1>2 DEF SInv, State
<1>4. State(Volume', mode', file', appel', perte')
  BY <1>1, <1>2, <1>3
<1> QED
  BY <1>4 DEF SInv

(* sgf_getc() and sgf_seek(): what moves the reader is a call that leaves  *)
(* the volume as it is.                                                    *)
LEMMA GetcLeaves ==
  ASSUME SInv, sgf_getc
  PROVE  \/ UNCHANGED <<volume, mode, file, appel, perte>>
         \/ /\ mode = "marche" /\ appel' = Idle
            /\ \E r : Good(r, perte) /\ r.vol = Volume /\ Leaves(r)
<1>1. /\ mode = "marche" /\ appel = Idle /\ file # NULL /\ file.mode = READ_MODE
      /\ appel' = appel
  BY DEF sgf_getc, Reading, Ready
<1>2. CASE file.ptr >= file.length
  BY <1>1, <1>2 DEF sgf_getc
<1>3. CASE ~(file.ptr >= file.length)
  <2> DEFINE r0 == IF file.ptr % BLOCK_SIZE = 0
                   THEN sgf_read_bloc(Volume, file, file.ptr \div BLOCK_SIZE)
                   ELSE Result(Volume, file)
             p == file.ptr + 1
  <2>1. Leaves(Stepping(r0))
    BY <1>3, Zenon DEF sgf_getc, Stepping
  <2>2. /\ Owned(Volume) /\ Leading(Volume) /\ perte \in BOOLEAN
        /\ Consistent(Volume, file, perte) /\ Reads(file)
    BY <1>1, Running DEF Reads
  <2>3. file.ptr < file.length
    <3>1. file.ptr \in Nat /\ file.length \in Nat
      BY <1>1, <2>2, OFileFields DEF Consistent, OpenFile
    <3> QED
      BY <1>3, <3>1
  <2>4. Arrives(Volume, file, p, perte, r0)
    BY <1>1, <2>2, <2>3, GetcStep
  <2> HIDE DEF r0
  <2>5. p = file.ptr + 1
    OBVIOUS
  <2> HIDE DEF p
  <2>6. Good(Moved(r0, p), perte) /\ Moved(r0, p).vol = Volume
    BY <2>4, ArrivedGood
  <2>8. Stepping(r0) = Moved(r0, p)
    BY <2>4, <2>5, ArrivedNext
  <2>7. Leaves(Moved(r0, p))
    BY <2>1, <2>8
  <2> QED
    BY <1>1, <2>6, <2>7, Zenon
<1> QED
  BY <1>2, <1>3

(* sgf_seek fails and changes nothing, or moves the reader. *)
LEMMA SeekLeaves ==
  ASSUME SInv, Reading, NEW pos \in -1 .. file.length, sgf_seek(pos)
  PROVE  \/ UNCHANGED <<volume, mode, file, appel, perte>>
         \/ /\ mode = "marche" /\ appel' = Idle
            /\ \E r : Good(r, perte) /\ r.vol = Volume /\ Leaves(r)
<1>1. /\ mode = "marche" /\ appel = Idle /\ file # NULL /\ file.mode = READ_MODE
      /\ appel' = appel
  BY DEF sgf_seek, Reading, Ready
<1>2. CASE pos < 0 \/ pos >= file.length
  BY <1>1, <1>2 DEF sgf_seek, SeekRefused
<1>3. CASE ~(pos < 0 \/ pos >= file.length)
  <2> DEFINE r0 == IF SeekBlock(pos) # LastBlock(file.ptr)
                   THEN sgf_read_bloc(Volume, file, SeekBlock(pos))
                   ELSE Result(Volume, file)
  <2>1. Leaves(Moved(r0, pos))
    BY <1>3, Zenon DEF sgf_seek, Moved
  <2>2. /\ Owned(Volume) /\ Leading(Volume) /\ perte \in BOOLEAN
        /\ Consistent(Volume, file, perte) /\ Reads(file)
    BY <1>1, Running DEF Reads
  <2>3. pos \in Nat /\ pos < file.length
    <3>1. file.length \in Nat
      BY <1>1, <2>2, OFileFields DEF Consistent, OpenFile
    <3> QED
      BY <1>3, <3>1
  <2>4. Arrives(Volume, file, pos, perte, r0)
    BY <1>1, <2>2, <2>3, SeekStep
  <2> HIDE DEF r0
  <2>5. Good(Moved(r0, pos), perte) /\ Moved(r0, pos).vol = Volume
    BY <2>4, ArrivedGood
  <2> QED
    BY <1>1, <2>1, <2>5, Zenon
<1> QED
  BY <1>2, <1>3

(* Either keeps the invariant. *)
LEMMA ReadersKeep ==
  ASSUME SInv,
         \/ UNCHANGED <<volume, mode, file, appel, perte>>
         \/ /\ mode = "marche" /\ appel' = Idle
            /\ \E r : Good(r, perte) /\ r.vol = Volume /\ Leaves(r)
  PROVE  SInv'
<1>1. CASE UNCHANGED <<volume, mode, file, appel, perte>>
  BY <1>1, SameKeeps
<1>2. CASE /\ mode = "marche" /\ appel' = Idle
           /\ \E r : Good(r, perte) /\ r.vol = Volume /\ Leaves(r)
  <2>1. PICK r : Good(r, perte) /\ Leaves(r)
    BY <1>2, Zenon
  <2> QED
    BY <1>2, <2>1, CallKeeps
<1> QED
  BY <1>1, <1>2

(* The loops of sgf_puts() and sgf_write(): what is left to be written.    *)
Shorter(ap, n) == [ap EXCEPT !.reste = SubSeq(@, n + 1, Len(@))]

(* A loop over a text that is not over has the rest of the text to write. *)
LEMMA BusyStill ==
  ASSUME NEW fl, NEW ap, Busy(fl, ap), NEW n \in 1 .. Len(ap.reste), NEW r, NEW pe,
         Wrote(r, pe, fl.length + n), fl.length \in Nat,
         NEW ap1, ap1 = IF r.panique \/ n = Len(ap.reste) THEN Idle ELSE Shorter(ap, n)
  PROVE  ap1 = Idle \/ (~r.panique /\ Busy(r.file, ap1))
<1>1. CASE r.panique \/ n = Len(ap.reste)
  BY <1>1, Zenon
<1>2. CASE ~(r.panique \/ n = Len(ap.reste))
  <2>1. ~r.panique /\ n # Len(ap.reste) /\ ap1 = Shorter(ap, n)
    BY <1>2, Zenon
  <2>2. r.file # NULL /\ ~Reads(r.file) /\ r.file.length = fl.length + n
    BY <2>1, Zenon DEF Wrote
  <2> DEFINE t == ap.reste
             s == SubSeq(t, n + 1, Len(t))
  <2>3. /\ ap \in [op : {"puts", "write"}, reste : Seq(CHARS) \ {<<>>}]
        /\ t \in Seq(CHARS) /\ Len(t) \in Nat /\ fl.length + Len(t) <= MAX_LENGTH
    BY DEF Busy
  <2>4. n \in Nat /\ n + 1 \in 1 .. Len(t)
    BY <2>1, <2>3
  <2>5. s \in Seq(CHARS) /\ Len(s) = Len(t) - n
    BY <2>3, <2>4
  <2>6. s # <<>>
    <3> HIDE DEF s
    <3>1. Len(s) # 0
      BY <2>3, <2>4, <2>5
    <3>2. Len(<<>>) = 0
      OBVIOUS
    <3> QED
      BY <3>1, <3>2, Zenon
  <2>7. Shorter(ap, n) = [ap EXCEPT !.reste = s]
    BY DEF Shorter
  <2>8. MAX_LENGTH \in Nat
    BY SgfAssumption
  <2> HIDE DEF s
  <2>9. Shorter(ap, n) \in [op : {"puts", "write"}, reste : Seq(CHARS) \ {<<>>}]
        /\ Shorter(ap, n).reste = s
    BY <2>3, <2>5, <2>6, <2>7
  <2>10. r.file.length + Len(s) <= MAX_LENGTH
    BY <2>2, <2>3, <2>4, <2>5, <2>8
  <2> QED
    BY <2>1, <2>2, <2>9, <2>10 DEF Busy
<1> QED
  BY <1>1, <1>2

(* A turn of such a loop. *)
LEMMA AdvanceKeeps ==
  ASSUME SInv, mode = "marche", Busy(file, appel), NEW n \in 1 .. Len(appel.reste),
         NEW r, Wrote(r, perte, file.length + n), Advance(r, n)
  PROVE  SInv'
<1>1. file.length \in Nat
  BY Running, OFileFields DEF Busy, Consistent, OpenFile
<1>2. appel' = IF r.panique \/ n = Len(appel.reste) THEN Idle ELSE Shorter(appel, n)
  BY Zenon DEF Advance, Shorter
<1>3. appel' = Idle \/ (~r.panique /\ Busy(r.file, appel'))
  BY <1>1, <1>2, BusyStill
<1>4. Good(r, perte) /\ Leaves(r)
  BY Zenon DEF Wrote, Advance
<1> QED
  BY <1>3, <1>4, CallKeeps

(* In a loop over a text, the file is open to write and has room. *)
LEMMA BusyWrites ==
  ASSUME SInv, mode = "marche", appel.op # "rien"
  PROVE  /\ Busy(file, appel) /\ file # NULL /\ ~Reads(file)
         /\ appel.reste \in Seq(CHARS) /\ Len(appel.reste) \in Nat \ {0}
         /\ file.length \in Nat /\ file.ptr \in Nat
         /\ file.length + Len(appel.reste) <= MAX_LENGTH
<1>1. Busy(file, appel)
  BY Running DEF Idle
<1>2. file # NULL /\ ~Reads(file) /\ appel.reste \in Seq(CHARS) \ {<<>>}
      /\ file.length + Len(appel.reste) <= MAX_LENGTH
  BY <1>1 DEF Busy
<1>3. Len(appel.reste) \in Nat \ {0}
  BY <1>2
<1>4. file.length \in Nat /\ file.ptr \in Nat
  BY <1>2, Running, OFileFields DEF Consistent, OpenFile
<1> QED
  BY <1>1, <1>2, <1>3, <1>4

(* A turn of sgf_puts: one character. *)
LEMMA PutsKeeps == SInv /\ sgf_puts => SInv'
<1> SUFFICES ASSUME SInv, sgf_puts PROVE SInv'
  OBVIOUS
<1> DEFINE c == Head(appel.reste)
           r == sgf_putc(Volume, file, c)
<1>1. mode = "marche" /\ appel.op # "rien" /\ Advance(r, 1)
  BY DEF sgf_puts
<1>2. /\ Busy(file, appel) /\ file # NULL /\ ~Reads(file)
      /\ appel.reste \in Seq(CHARS) /\ Len(appel.reste) \in Nat \ {0}
      /\ file.length \in Nat /\ file.length + Len(appel.reste) <= MAX_LENGTH
  BY <1>1, BusyWrites
<1>3. 1 \in 1 .. Len(appel.reste) /\ file.length + 1 <= MAX_LENGTH
  BY <1>2, SgfAssumption
<1>4. c \in CHARS
  BY <1>2, <1>3
<1>5. /\ Owned(Volume) /\ Leading(Volume) /\ perte \in BOOLEAN /\ Consistent(Volume, file, perte)
  BY <1>1, Running
<1> HIDE DEF c
<1>6. Wrote(r, perte, file.length + 1)
  BY <1>2, <1>3, <1>4, <1>5, PutcStep
<1> HIDE DEF r
<1> QED
  BY <1>1, <1>2, <1>3, <1>6, AdvanceKeeps

(* The piece of text that a turn of sgf_write copies is not empty and stays *)
(* in its block.                                                            *)
LEMMA ChunkIs ==
  ASSUME NEW fl, fl.ptr \in Nat, NEW t \in Seq(CHARS), Len(t) \in Nat \ {0}
  PROVE  LET s == Chunk(fl, t) IN
         s \in Seq(CHARS) /\ Len(s) \in 1 .. Len(t)
         /\ Len(s) \in 1 .. BLOCK_SIZE - (fl.ptr % BLOCK_SIZE)
<1> DEFINE k == fl.ptr % BLOCK_SIZE
           a == Len(t)
           b == BLOCK_SIZE - k
           m == Min({a, b})
<1>1. BLOCK_SIZE \in Nat /\ k \in 0 .. BLOCK_SIZE - 1
  BY SgfAssumption, BlocksAre
<1> HIDE DEF k
<1>2. a \in Nat \ {0} /\ b \in Nat \ {0}
  BY <1>1
<1>3. Chunk(fl, t) = SubSeq(t, 1, m)
  BY DEF Chunk, k
<1> HIDE DEF b
<1>4. m \in {a, b} /\ m <= a /\ m <= b
  <2>1. \E x \in {a, b} : \A y \in {a, b} : x <= y
    <3>1. CASE a <= b
      BY <1>2, <3>1
    <3>2. CASE ~(a <= b)
      BY <1>2, <3>2
    <3> QED
      BY <3>1, <3>2
  <2>2. Min({a, b}) \in {a, b} /\ \A y \in {a, b} : Min({a, b}) <= y
    BY <2>1 DEF Min
  <2> QED
    BY <2>2
<1>5. m \in 1 .. a /\ m \in 1 .. b
  BY <1>2, <1>4
<1> HIDE DEF m
<1>6. SubSeq(t, 1, m) \in Seq(CHARS) /\ Len(SubSeq(t, 1, m)) = m
  BY <1>2, <1>5
<1> QED
  BY <1>3, <1>5, <1>6 DEF b, k

(* A turn of sgf_write. *)
LEMMA WriteKeeps == SInv /\ sgf_write => SInv'
<1> SUFFICES ASSUME SInv, sgf_write PROVE SInv'
  OBVIOUS
<1> DEFINE s == Chunk(file, appel.reste)
           r == WriteChunk(Volume, file, s)
<1>1. mode = "marche" /\ appel.op # "rien" /\ Advance(r, Len(s))
  BY DEF sgf_write
<1>2. /\ Busy(file, appel) /\ file # NULL /\ ~Reads(file)
      /\ appel.reste \in Seq(CHARS) /\ Len(appel.reste) \in Nat \ {0}
      /\ file.length \in Nat /\ file.ptr \in Nat
      /\ file.length + Len(appel.reste) <= MAX_LENGTH
  BY <1>1, BusyWrites
<1>3. /\ s \in Seq(CHARS) /\ Len(s) \in 1 .. Len(appel.reste)
      /\ Len(s) \in 1 .. BLOCK_SIZE - (file.ptr % BLOCK_SIZE)
  BY <1>2, ChunkIs
<1> HIDE DEF s
<1>4. file.length + Len(s) <= MAX_LENGTH
  BY <1>2, <1>3, SgfAssumption
<1>5. /\ Owned(Volume) /\ Leading(Volume) /\ perte \in BOOLEAN /\ Consistent(Volume, file, perte)
  BY <1>1, Running
<1>6. Wrote(r, perte, file.length + Len(s))
  BY <1>2, <1>3, <1>4, <1>5, ChunkStep
<1> HIDE DEF r
<1> QED
  BY <1>1, <1>2, <1>3, <1>6, AdvanceKeeps

(* The call of sgf_puts or sgf_write. *)
LEMMA BeginKeeps ==
  ASSUME SInv, NEW op \in {"puts", "write"}, NEW t \in TEXTES, Begin(op, t)
  PROVE  SInv'
<1>1. /\ mode = "marche" /\ file # NULL /\ file.mode # READ_MODE
      /\ file.length + Len(t) <= MAX_LENGTH /\ appel' = [op |-> op, reste |-> t]
      /\ UNCHANGED <<volume, mode, perte>> /\ file' = file
  BY DEF Begin, Writing, Ready
<1>2. t \in Seq(CHARS) \ {<<>>}
  BY SgfAssumption
<1>3. Busy(file, appel')
  BY <1>1, <1>2 DEF Busy, Reads
<1>4. Consistent(Volume, file, perte)
  BY <1>1, Running
<1> QED
  BY <1>1, <1>3, <1>4, FileChanges

(* sgf_close. *)
LEMMA CloseKeeps == SInv /\ sgf_close => SInv'
<1> SUFFICES ASSUME SInv, sgf_close PROVE SInv'
  OBVIOUS
<1> DEFINE r == CloseFile(Volume, file)
<1>1. mode = "marche" /\ appel = Idle /\ file # NULL /\ Leaves(r) /\ appel' = appel
  BY DEF sgf_close, Ready
<1>2. /\ Owned(Volume) /\ Leading(Volume) /\ perte \in BOOLEAN /\ Consistent(Volume, file, perte)
  BY <1>1, Running
<1>3. Good(r, perte)
  <2>1. CASE Reads(file)
    BY <1>1, <1>2, <2>1, CloseReads
  <2>2. CASE ~Reads(file)
    BY <1>1, <1>2, <2>2, CloseWrites
  <2> QED
    BY <2>1, <2>2
<1> HIDE DEF r
<1> QED
  BY <1>1, <1>3, CallKeeps

(* A call that the mode of the file forbids. *)
LEMMA WrongModeKeeps == SInv /\ WrongMode => SInv'
<1> SUFFICES ASSUME SInv, WrongMode PROVE SInv'
  OBVIOUS
<1>1. Volume' = Volume
  BY DEF WrongMode, Volume, volume
<1>2. /\ mode = "marche" /\ appel = Idle /\ file # NULL
      /\ mode' = "abandon" /\ file' = NULL /\ appel' = appel
      /\ perte' = (perte \/ (Writing /\ file.ptr % BLOCK_SIZE # 0))
  BY DEF WrongMode, Ready
<1>3. /\ IsVolume(Volume) /\ Owned(Volume) /\ Leading(Volume) /\ perte \in BOOLEAN
      /\ Consistent(Volume, file, perte)
  BY <1>2, Running
<1>4. perte' \in BOOLEAN
  BY <1>2, Zenon
<1>5. Consistent(Volume, NULL, perte')
  <2>1. CASE perte'
    BY <2>1 DEF Consistent
  <2>2. CASE ~perte'
    <3>1. ~perte /\ (Reads(file) \/ ~(file.ptr % BLOCK_SIZE # 0))
      BY <1>2, <2>2 DEF Writing, Ready, Reads
    <3>2. CASE Reads(file)
      BY <1>3, <3>1, <3>2 DEF Consistent
    <3>3. CASE ~Reads(file)
      <4> DEFINE r == CloseFile(Volume, file)
      <4>1. Good(r, perte)
        BY <1>2, <1>3, <3>3, CloseWrites
      <4>2. r = [Result(Volume, file) EXCEPT !.file = NULL]
        BY <3>1, <3>3 DEF CloseFile
      <4>3. r.vol = Volume /\ r.file = NULL /\ r.panique = FALSE /\ r.perdu = FALSE
        BY <4>2 DEF Result
      <4> HIDE DEF r
      <4>4. Consistent(Volume, NULL, perte \/ FALSE)
        BY <4>1, <4>3 DEF Good
      <4> QED
        BY <2>2, <3>1, <4>4 DEF Consistent
    <3> QED
      BY <3>2, <3>3
  <2> QED
    BY <2>1, <2>2
<1>6. State(Volume, "abandon", NULL, appel, perte')
  BY <1>2, <1>3, <1>4, <1>5 DEF State
<1>7. State(Volume', mode', file', appel', perte')
  BY <1>1, <1>2, <1>6
<1> QED
  BY <1>7 DEF SInv

(* Any step of Sgf. *)
LEMMA SgfStep == SInv /\ [SgfNext]_sgf => SInv'
<1> SUFFICES ASSUME SInv, [SgfNext]_sgf PROVE SInv'
  OBVIOUS
<1>1. CASE UNCHANGED sgf
  BY <1>1, SameKeeps DEF sgf
<1>2. CASE init_sgf
  BY <1>2, MountKeeps
<1>3. ASSUME NEW nom \in NOMS,
             OpenNull(nom) \/ sgf_open_read(nom) \/ sgf_open_append(nom) \/ sgf_open_write(nom)
      PROVE  SInv'
  <2>1. CASE OpenNull(nom)
    BY <2>1, SameKeeps, NullSame
  <2> QED
    BY <1>3, <2>1, OpenReadKeeps, OpenAppendKeeps, OpenWriteKeeps
<1>4. CASE sgf_open_write_full
  BY <1>4, OpenFullKeeps
<1>5. CASE sgf_getc
  BY <1>5, GetcLeaves, ReadersKeep
<1>6. CASE Reading /\ \E pos \in -1 .. file.length : sgf_seek(pos)
  BY <1>6, SeekLeaves, ReadersKeep
<1>7. CASE \E op \in {"puts", "write"}, t \in TEXTES : Begin(op, t)
  BY <1>7, BeginKeeps
<1>8. CASE sgf_puts
  BY <1>8, PutsKeeps
<1>9. CASE sgf_write
  BY <1>9, WriteKeeps
<1>10. CASE sgf_close
  BY <1>10, CloseKeeps
<1>11. CASE WrongMode
  BY <1>11, WrongModeKeeps
<1> QED
  BY <1>1, <1>2, <1>3, <1>4, <1>5, <1>6, <1>7, <1>8, <1>9, <1>10, <1>11 DEF SgfNext, OpenNull

(* SInv is an invariant of Sgf. *)
LEMMA SgfInvariant == SgfSpec => []SInv
BY SgfInitial, SgfStep, PTL DEF SgfSpec

-----------------------------------------------------------------------------
(* What a call leaves of the files it is not about: those that are there   *)
(* before and after it, but i0.                                            *)
Beside(v, w, i0) == \A i \in InodesOf(v) \cap InodesOf(w) : i # i0 => Untouched(v, w, i)
Spares(v, i0, r) == \E w, gl, pd, pa : r = Outcome(w, gl, pd, pa) /\ Beside(v, w, i0)

(* A file with the same blocks in the same order has the same links. *)
LEMMA SameUntouched ==
  ASSUME NEW v, Owned(v), NEW w, Owned(w), NEW i \in InodesOf(v), i \in InodesOf(w),
         SameFile(v, w, i)
  PROVE  Untouched(v, w, i)
<1>1. PICK s, n : FileIs(v, i, s, n)
  BY DEF Owned, Chained
<1>2. PICK t, m : FileIs(w, i, t, m)
  BY DEF Owned, Chained
<1>3. v.fat \in Fats /\ w.fat \in Fats
  BY DEF Owned, IsVolume
<1>4. /\ n \in Nat /\ DataOf(v, i) = ChainSet(s, n) /\ Cardinality(DataOf(v, i)) = n
      /\ \A k \in Nat : Walk(v.fat, v.disk[i].first, k) = IF k < n THEN s[k] ELSE FAT_EOF
  BY <1>1, <1>3, FileFacts
<1>5. /\ m \in Nat /\ Cardinality(DataOf(w, i)) = m
      /\ \A k \in Nat : Walk(w.fat, w.disk[i].first, k) = IF k < m THEN t[k] ELSE FAT_EOF
  BY <1>2, <1>3, FileFacts
<1>6. m = n
  BY <1>4, <1>5 DEF SameFile
<1>7. ASSUME NEW k \in 0 .. n - 1 PROVE t[k] = s[k]
  <2>1. k \in Nat /\ k < n
    BY <1>4
  <2> QED
    BY <1>4, <1>5, <1>6, <2>1 DEF SameFile
<1>8. IsChain(v.fat, v.disk[i].first, s, n) /\ IsChain(w.fat, w.disk[i].first, t, n)
  BY <1>1, <1>2, <1>6 DEF FileIs
<1>9. ASSUME NEW k \in 0 .. n - 1 PROVE w.fat[s[k]] = v.fat[s[k]]
  <2>1. n # 0 /\ n - 1 \in 0 .. n - 1
    BY <1>4
  <2>2. CASE k = n - 1
    <3>1. v.fat[s[k]] = FAT_EOF /\ w.fat[t[k]] = FAT_EOF
      BY <1>8, <2>1, <2>2 DEF IsChain
    <3> QED
      BY <1>7, <3>1
  <2>3. CASE k # n - 1
    <3>1. k \in 0 .. n - 2 /\ k + 1 \in 0 .. n - 1
      BY <1>4, <2>3
    <3>2. v.fat[s[k]] = s[k + 1] /\ w.fat[t[k]] = t[k + 1]
      BY <1>8, <3>1 DEF IsChain
    <3> QED
      BY <1>7, <3>1, <3>2
  <2> QED
    BY <2>2, <2>3
<1> QED
  BY <1>4, <1>9 DEF SameFile, Untouched, ChainSet

(* Nothing happens, or two things one after the other. *)
LEMMA BesideSelf == ASSUME NEW v, NEW w, w.fat = v.fat, w.disk = v.disk, NEW i0
                    PROVE  Beside(v, w, i0)
BY DEF Beside, Untouched

(* Two calls in a row, the first of which makes and removes no inode. *)
LEMMA BesideTwice ==
  ASSUME NEW v, Owned(v), NEW u, Owned(u), NEW w, NEW i0, Beside(v, u, i0), Beside(u, w, i0),
         InodesOf(u) = InodesOf(v)
  PROVE  Beside(v, w, i0)
<1> SUFFICES ASSUME NEW i \in InodesOf(v), i \in InodesOf(w), i # i0
             PROVE  Untouched(v, w, i)
  BY DEF Beside
<1>1. Untouched(v, u, i) /\ Untouched(u, w, i)
  BY DEF Beside
<1>2. PICK s, n : FileIs(v, i, s, n)
  BY DEF Owned, Chained
<1>3. v.fat \in Fats /\ u.fat \in Fats
  BY DEF Owned, IsVolume
<1>4. DataOf(u, i) = DataOf(v, i)
  BY <1>1, <1>2, <1>3, FileKept
<1> QED
  BY <1>1, <1>4 DEF Untouched

(* The outcome of a call, with another position, closed, or with what was  *)
(* lost before.                                                            *)
LEMMA SparesOn ==
  ASSUME NEW v, NEW i0, NEW r, Spares(v, i0, r)
  PROVE  /\ Beside(v, r.vol, i0)
         /\ Spares(v, i0, [r EXCEPT !.file.ptr = @ + 1])
         /\ Spares(v, i0, Closing(r))
         /\ \A b : Spares(v, i0, Lossy(r, b))
<1>1. PICK w, gl, pd, pa : r = Outcome(w, gl, pd, pa) /\ Beside(v, w, i0)
  BY DEF Spares
<1>2. r.vol = w
  BY <1>1, OutcomeFields
<1>3. [r EXCEPT !.file.ptr = @ + 1] = Outcome(w, Further(gl), pd, pa)
  BY <1>1, OutcomeStepped
<1>4. Closing(r) = Outcome(w, NULL, pd, pa)
  BY <1>1, OutcomeSet DEF Closing
<1>5. \A b : Lossy(r, b) = Outcome(w, gl, b, pa)
  BY <1>1, OutcomeSet DEF Lossy
<1>6. \A h, b : Spares(v, i0, Outcome(w, h, b, pa))
  BY <1>1, Zenon DEF Spares
<1>7. Beside(v, r.vol, i0)
  BY <1>1, <1>2
<1>8. Spares(v, i0, [r EXCEPT !.file.ptr = @ + 1])
  BY <1>3, <1>6
<1>9. Spares(v, i0, Closing(r))
  BY <1>4, <1>6
<1> QED
  BY <1>5, <1>6, <1>7, <1>8, <1>9

(* The three ways to return. *)
LEMMA SparesIf ==
  ASSUME NEW v, NEW i0, NEW w, Beside(v, w, i0), NEW gl
  PROVE  /\ Spares(v, i0, Result(w, gl)) /\ Spares(v, i0, Lost(w, gl))
         /\ Spares(v, i0, Panic(w, gl))
BY Outcomes, Zenon DEF Spares

(* Flush() writes a block and the inode of its file only. *)
LEMMA FlushBeside ==
  ASSUME NEW v, Owned(v), NEW fl \in OFiles, fl.inode \in InodesOf(v),
         fl.current \in DataOf(v, fl.inode) \cup {FAT_EOF}, NEW x, x = Flush(v, fl)
  PROVE  Spares(v, fl.inode, x)
<1> DEFINE i0 == fl.inode
           c == fl.current
<1>1. CASE c = FAT_EOF
  <2>1. x = Panic(v, fl)
    BY <1>1, ValuesTyped DEF Flush, NU_BLOC_OK
  <2> QED
    BY <2>1, BesideSelf, SparesIf
<1>2. CASE c # FAT_EOF
  <2> DEFINE w == x.vol
  <2>1. c \in DataOf(v, i0)
    BY <1>2
  <2>2. FlushedTo(v, fl, w) /\ x = Result(w, fl)
    BY <2>1, Flushed
  <2> HIDE DEF w
  <2>3. /\ w.fat = v.fat /\ InodesOf(w) = InodesOf(v)
        /\ \A m \in Blocs : m # i0 /\ m # c => w.disk[m] = v.disk[m]
    BY <2>2 DEF FlushedTo
  <2>4. ASSUME NEW i \in InodesOf(v), i # i0 PROVE Untouched(v, w, i)
    <3>1. i \in Blocs /\ i # c
      BY <2>1, DataMarked DEF InodesOf
    <3>2. \A m \in DataOf(v, i) : m \in Blocs /\ m # i0
      BY DataMarked
    <3>3. \A m \in DataOf(v, i) : m # c
      BY <2>1, <2>4 DEF Owned, Disjoint
    <3> QED
      BY <2>3, <2>4, <3>1, <3>2, <3>3 DEF Untouched
  <2>5. Beside(v, w, i0)
    BY <2>4 DEF Beside
  <2> QED
    BY <2>2, <2>5, SparesIf
<1> QED
  BY <1>1, <1>2

(* sgf_append_block() links a free block, or does nothing. *)
LEMMA AppendBeside ==
  ASSUME NEW v, Owned(v), Leading(v), NEW fl, Writes(v, fl), NEW x, x = sgf_append_block(v, fl)
  PROVE  /\ Spares(v, fl.inode, x)
         /\ Owned(x.vol) /\ InodesOf(x.vol) = InodesOf(v)
         /\ Writes(x.vol, x.file) /\ x.file.inode = fl.inode
<1> DEFINE i0 == fl.inode
           a == alloc_block(v.fat)
           w == x.vol
<1>1. fl \in OFiles /\ i0 \in InodesOf(v) /\ fl.current = v.disk[i0].last
  BY DEF Writes
<1>2. CASE Free(v.fat) = {}
  <2>1. x = Lost(v, fl)
    BY <1>2 DEF sgf_append_block
  <2>2. x.vol = v /\ x.file = fl
    BY <2>1, ResultFields
  <2>3. Spares(v, i0, x)
    BY <2>1, BesideSelf, SparesIf
  <2> QED
    BY <2>2, <2>3
<1>3. CASE Free(v.fat) # {}
  <2>1. AppendedTo(v, fl, w, a) /\ x = Result(w, Linked(fl, a))
    <3>1. a = alloc_block(v.fat)
      OBVIOUS
    <3> HIDE DEF a
    <3> QED
      BY <1>1, <1>3, <3>1, BlockAppended
  <2> HIDE DEF a
  <2>2. /\ Owned(w) /\ InodesOf(w) = InodesOf(v) /\ a \in Blocs
        /\ \A i \in InodesOf(v) : i # i0 => SameFile(v, w, i)
    BY <2>1 DEF AppendedTo
  <2>3. Beside(v, w, i0)
    BY <2>2, SameUntouched DEF Beside
  <2>4. x.file = Linked(fl, a)
    <3>1. Result(w, Linked(fl, a)).file = Linked(fl, a)
      BY ResultFields
    <3> QED
      BY <2>1, <3>1
  <2>5. x.file.inode = i0
    BY <1>1, <2>4 DEF Linked, OFiles
  <2>6. AppendedAs(v, fl, TRUE, x)
    BY <1>3, AppendStep
  <2>7. Writes(w, x.file)
    BY <2>6 DEF AppendedAs
  <2>8. Spares(v, i0, Result(w, Linked(fl, a)))
    BY <2>3, SparesIf
  <2> QED
    BY <2>1, <2>2, <2>5, <2>7, <2>8
<1> QED
  BY <1>2, <1>3

(* sgf_putc(). *)
LEMMA PutcBeside ==
  ASSUME NEW v, Owned(v), Leading(v), NEW fl, Writes(v, fl), NEW c \in CHARS,
         fl.length + 1 <= MAX_LENGTH, NEW r, r = sgf_putc(v, fl, c)
  PROVE  Spares(v, fl.inode, r)
<1> DEFINE k == fl.ptr % BLOCK_SIZE
           put == [fl EXCEPT !.buffer[k] = c, !.length = @ + 1]
           x == IF k = BLOCK_SIZE - 1 THEN Flush(v, put)
                ELSE IF k = 0 THEN sgf_append_block(v, put)
                ELSE Result(v, put)
<1>1. fl \in OFiles /\ fl.length \in Nat /\ fl.ptr \in Nat /\ MAX_LENGTH \in Nat
  BY OFileFields, SgfAssumption DEF Writes
<1>2. /\ put \in OFiles /\ put.inode = fl.inode /\ put.mode = fl.mode
      /\ put.current = fl.current /\ put.last = fl.last
  <2>1. k \in Indices
    BY <1>1, BlocksAre DEF Indices
  <2>2. fl.length + 1 \in 0 .. MAX_LENGTH
    BY <1>1
  <2> HIDE DEF k
  <2> QED
    BY <1>1, <2>1, <2>2 DEF OFiles
<1>3. r = [x EXCEPT !.file.ptr = @ + 1]
  BY DEF sgf_putc
<1> HIDE DEF put
<1>4. Writes(v, put)
  BY <1>2 DEF Writes, Reads
<1>5. Spares(v, fl.inode, x)
  <2>1. Spares(v, put.inode, Flush(v, put))
    BY <1>4, FlushBeside DEF Writes
  <2>2. Spares(v, put.inode, sgf_append_block(v, put))
    BY <1>4, AppendBeside
  <2>3. Spares(v, put.inode, Result(v, put))
    BY BesideSelf, SparesIf
  <2> QED
    BY <1>2, <2>1, <2>2, <2>3
<1> HIDE DEF x
<1> QED
  BY <1>3, <1>5, SparesOn

(* sgf_write(), a block's part of the text. *)
LEMMA ChunkBeside ==
  ASSUME NEW v, Owned(v), Leading(v), NEW fl, Writes(v, fl), NEW s \in Seq(CHARS),
         fl.length + Len(s) <= MAX_LENGTH, NEW r, r = WriteChunk(v, fl, s)
  PROVE  Spares(v, fl.inode, r)
<1> DEFINE k == fl.ptr % BLOCK_SIZE
           n == fl.length + Len(s)
           r0 == IF k = 0 THEN sgf_append_block(v, fl) ELSE Result(v, fl)
           x == Flush(r0.vol, Filled(r0.file, n, k, s))
<1>1. fl \in OFiles /\ fl.length \in Nat /\ fl.ptr \in Nat /\ MAX_LENGTH \in Nat
      /\ Len(s) \in Nat
  BY OFileFields, SgfAssumption DEF Writes
<1>2. k \in Nat /\ n \in 0 .. MAX_LENGTH
  <2>1. k \in 0 .. BLOCK_SIZE - 1 /\ BLOCK_SIZE \in Nat
    BY <1>1, BlocksAre, SgfAssumption
  <2> HIDE DEF k
  <2> QED
    BY <1>1, <2>1
<1>3. r = Lossy(x, r0.perdu)
  BY Zenon DEF WriteChunk, Filled, Lossy
<1> HIDE DEF k, n
<1>4. /\ Spares(v, fl.inode, r0) /\ Owned(r0.vol) /\ InodesOf(r0.vol) = InodesOf(v)
      /\ Writes(r0.vol, r0.file) /\ r0.file.inode = fl.inode
  <2>1. CASE k = 0
    BY <2>1, AppendBeside
  <2>2. CASE k # 0
    <3>1. r0 = Result(v, fl)
      BY <2>2
    <3>2. r0.vol = v /\ r0.file = fl
      BY <3>1, ResultFields
    <3>3. Spares(v, fl.inode, r0)
      BY <3>1, BesideSelf, SparesIf
    <3> QED
      BY <3>2, <3>3
  <2> QED
    BY <2>1, <2>2
<1> DEFINE u == r0.vol
           hl == r0.file
           gl == Filled(hl, n, k, s)
<1>5. x = Flush(u, gl)
  OBVIOUS
<1> HIDE DEF r0, x
<1>6. gl \in OFiles /\ gl.inode = fl.inode /\ gl.current = hl.current
  BY <1>2, <1>4, FilledFields DEF Writes
<1>7. gl.inode \in InodesOf(u) /\ gl.current \in DataOf(u, gl.inode) \cup {FAT_EOF}
  BY <1>4, <1>6 DEF Writes
<1> HIDE DEF gl
<1>8. Spares(u, fl.inode, x)
  BY <1>4, <1>5, <1>6, <1>7, FlushBeside
<1>9. PICK w, h, pd, pa : x = Outcome(w, h, pd, pa) /\ Beside(u, w, fl.inode)
  BY <1>8 DEF Spares
<1>10. Beside(v, u, fl.inode)
  BY <1>4, SparesOn
<1>11. Beside(v, w, fl.inode)
  BY <1>4, <1>9, <1>10, BesideTwice
<1>12. Spares(v, fl.inode, x)
  BY <1>9, <1>11, Zenon DEF Spares
<1>13. \A b : Spares(v, fl.inode, Lossy(x, b))
  BY <1>12, SparesOn, Zenon
<1> QED
  BY <1>3, <1>13, Zenon

(* sgf_close(), in every mode. *)
LEMMA CloseBeside ==
  ASSUME NEW v, Owned(v), NEW fl, OpenFile(v, fl), NEW r, r = CloseFile(v, fl)
  PROVE  Spares(v, fl.inode, r)
<1> DEFINE x == IF fl.ptr % BLOCK_SIZE # 0 THEN Flush(v, fl) ELSE Result(v, fl)
<1>1. r = Closing(x)
  BY DEF CloseFile, Closing
<1>2. Spares(v, fl.inode, Flush(v, fl))
  BY FlushBeside DEF OpenFile
<1>3. Spares(v, fl.inode, Result(v, fl))
  BY BesideSelf, SparesIf
<1>4. Spares(v, fl.inode, x)
  BY <1>2, <1>3
<1> HIDE DEF x
<1> QED
  BY <1>1, <1>4, SparesOn

(* In the state of Sgf: what a step leaves of the files beside the open one. *)
Kindly == \A i \in Inodes \cap Inodes' : file = NULL \/ i # file.inode => Intact(i)

(* A step that does not write. *)
LEMMA KindlySame == UNCHANGED volume => Kindly
BY DEF Kindly, Intact, volume

(* A step that spares all files but the open one, or all when none is. *)
LEMMA KindlyIf ==
  ASSUME NEW w, fat' = w.fat, disk' = w.disk, NEW i0, Beside(Volume, w, i0),
         IF file = NULL THEN i0 \notin InodesOf(Volume) ELSE i0 = file.inode
  PROVE  Kindly
<1> SUFFICES ASSUME NEW i \in Inodes, i \in Inodes', file = NULL \/ i # file.inode
             PROVE  Intact(i)
  BY DEF Kindly
<1>1. i \in InodesOf(Volume) /\ i \in InodesOf(w)
  BY VolumeIs DEF Inodes, InodesOf
<1>2. i # i0
  BY <1>1
<1>3. Untouched(Volume, w, i)
  BY <1>1, <1>2 DEF Beside
<1>4. Data(i) = DataOf(Volume, i)
  BY VolumeIs DEF Data, DataOf
<1> QED
  BY <1>3, <1>4, VolumeIs DEF Intact, Untouched

(* A call on the open file that spares the others. *)
LEMMA KindlyLeaves ==
  ASSUME NEW r, Leaves(r), file # NULL, Spares(Volume, file.inode, r)
  PROVE  Kindly
<1>1. Beside(Volume, r.vol, file.inode)
  BY SparesOn
<1>2. fat' = r.vol.fat /\ disk' = r.vol.disk
  BY Zenon DEF Leaves, Becomes
<1> QED
  BY <1>1, <1>2, KindlyIf

(* A call that returns the volume as it was. *)
LEMMA KindlyReads ==
  ASSUME NEW r, Leaves(r), r.vol = Volume
  PROVE  Kindly
<1>1. UNCHANGED volume
  BY VolumeIs, Zenon DEF Leaves, Becomes, volume
<1> QED
  BY <1>1, KindlySame

(* The turns of sgf_puts and sgf_write. *)
LEMMA KindlyWrites == ASSUME SInv, sgf_puts \/ sgf_write PROVE Kindly
<1>1. mode = "marche" /\ appel.op # "rien"
  BY DEF sgf_puts, sgf_write
<1>2. /\ file # NULL /\ ~Reads(file)
      /\ appel.reste \in Seq(CHARS) /\ Len(appel.reste) \in Nat \ {0}
      /\ file.length \in Nat /\ file.ptr \in Nat
      /\ file.length + Len(appel.reste) <= MAX_LENGTH
  BY <1>1, BusyWrites
<1>3. Owned(Volume) /\ Leading(Volume) /\ Consistent(Volume, file, perte)
  BY <1>1, Running
<1>4. Writes(Volume, file)
  BY <1>2, <1>3, OpenWrites
<1>5. CASE sgf_puts
  <2> DEFINE r == sgf_putc(Volume, file, Head(appel.reste))
  <2>1. Head(appel.reste) \in CHARS /\ file.length + 1 <= MAX_LENGTH
    BY <1>2, SgfAssumption
  <2>2. Spares(Volume, file.inode, r)
    BY <1>3, <1>4, <2>1, PutcBeside
  <2>3. Leaves(r)
    BY <1>5, Zenon DEF sgf_puts, Advance
  <2> HIDE DEF r
  <2> QED
    BY <1>2, <2>2, <2>3, KindlyLeaves
<1>6. CASE sgf_write
  <2> DEFINE s == Chunk(file, appel.reste)
             r == WriteChunk(Volume, file, s)
  <2>1. s \in Seq(CHARS) /\ Len(s) \in 1 .. Len(appel.reste)
    BY <1>2, ChunkIs
  <2>2. Leaves(r)
    BY <1>6, Zenon DEF sgf_write, Advance
  <2> HIDE DEF s
  <2>3. file.length + Len(s) <= MAX_LENGTH
    BY <1>2, <2>1, SgfAssumption
  <2>4. Spares(Volume, file.inode, r)
    BY <1>3, <1>4, <2>1, <2>3, ChunkBeside
  <2> HIDE DEF r
  <2> QED
    BY <1>2, <2>2, <2>4, KindlyLeaves
<1> QED
  BY <1>5, <1>6

(* sgf_open. *)
LEMMA KindlyOpens ==
  ASSUME SInv, NEW nom \in NOMS, sgf_open_append(nom) \/ sgf_open_write(nom)
  PROVE  Kindly
<1>1. CASE sgf_open_append(nom)
  <2> DEFINE i == find_inode(Volume, nom)
             fl == OFile(i, disk[i], disk[i].last, disk[i].length, APPEND_MODE)
             r == IF fl.length % BLOCK_SIZE # 0
                  THEN sgf_read_bloc(Volume, fl, fl.ptr \div BLOCK_SIZE) ELSE Result(Volume, fl)
  <2>1. Leaves(r)
    BY <1>1 DEF sgf_open_append
  <2> HIDE DEF fl
  <2>2. sgf_read_bloc(Volume, fl, fl.ptr \div BLOCK_SIZE).vol = Volume
    BY ResultFields DEF sgf_read_bloc
  <2>3. r.vol = Volume
    BY <2>2, ResultFields
  <2> HIDE DEF r
  <2> QED
    BY <2>1, <2>3, KindlyReads
<1>2. CASE sgf_open_write(nom)
  <2> DEFINE r == NewFile(Volume, nom)
             a == r.file.inode
  <2>1. mode = "marche" /\ file = NULL /\ Free(Volume.fat) # {} /\ Leaves(r)
    BY <1>2, VolumeIs DEF sgf_open_write, Closed, Ready
  <2>2. Owned(Volume) /\ Leading(Volume)
    BY <2>1, Running
  <2>3. NewFileIn(Volume, nom, r)
    BY <2>1, <2>2, NewFileMade
  <2> HIDE DEF r
  <2>4. /\ Owned(r.vol) /\ a \notin InodesOf(Volume)
        /\ \A j \in InodesOf(r.vol) : j # a => j \in InodesOf(Volume) /\ SameFile(Volume, r.vol, j)
    BY <2>3 DEF NewFileIn
  <2>5. Beside(Volume, r.vol, a)
    BY <2>2, <2>4, SameUntouched DEF Beside
  <2>6. fat' = r.vol.fat /\ disk' = r.vol.disk
    BY <2>1, Zenon DEF Leaves, Becomes
  <2> QED
    BY <2>1, <2>4, <2>5, <2>6, KindlyIf
<1> QED
  BY <1>1, <1>2

(* Any step. *)
LEMMA KindlyStep == ASSUME SInv, [SgfNext]_sgf PROVE Kindly
<1>1. ASSUME UNCHANGED volume PROVE Kindly
  BY <1>1, KindlySame
<1>2. CASE UNCHANGED sgf
  BY <1>1, <1>2 DEF sgf
<1>3. CASE init_sgf \/ sgf_open_write_full \/ WrongMode
  BY <1>1, <1>3 DEF init_sgf, sgf_open_write_full, WrongMode
<1>4. ASSUME NEW nom \in NOMS,
             OpenNull(nom) \/ sgf_open_read(nom) \/ sgf_open_append(nom) \/ sgf_open_write(nom)
      PROVE  Kindly
  <2>1. CASE OpenNull(nom)
    BY <1>1, <2>1, NullSame
  <2>2. CASE sgf_open_read(nom)
    BY <1>1, <2>2 DEF sgf_open_read
  <2> QED
    BY <1>4, <2>1, <2>2, KindlyOpens
<1>5. CASE sgf_getc \/ (Reading /\ \E pos \in -1 .. file.length : sgf_seek(pos))
  <2>1. \/ UNCHANGED volume
        \/ \E r : r.vol = Volume /\ Leaves(r)
    BY <1>5, GetcLeaves, SeekLeaves, Zenon
  <2> QED
    BY <1>1, <2>1, KindlyReads
<1>6. CASE \E op \in {"puts", "write"}, t \in TEXTES : Begin(op, t)
  BY <1>1, <1>6 DEF Begin
<1>7. CASE sgf_puts \/ sgf_write
  BY <1>7, KindlyWrites
<1>8. CASE sgf_close
  <2> DEFINE r == CloseFile(Volume, file)
  <2>1. mode = "marche" /\ file # NULL /\ Leaves(r)
    BY <1>8 DEF sgf_close, Ready
  <2>2. Owned(Volume) /\ OpenFile(Volume, file)
    BY <2>1, Running DEF Consistent
  <2>3. Spares(Volume, file.inode, r)
    BY <2>2, CloseBeside
  <2> HIDE DEF r
  <2> QED
    BY <2>1, <2>3, KindlyLeaves
<1> QED
  BY <1>2, <1>3, <1>4, <1>5, <1>6, <1>7, <1>8 DEF SgfNext, OpenNull

-----------------------------------------------------------------------------
(* What it says of the properties of Sgf. *)
LEMMA SgfParts ==
  ASSUME SInv
  PROVE  /\ IsVolume(Volume) /\ Owned(Volume) /\ Leading(Volume) /\ perte \in BOOLEAN
         /\ Consistent(Volume, file, perte) /\ fat \in Fats
         /\ Inodes = InodesOf(Volume) /\ DirBlocks = DirOf(Volume)
         /\ \A i : Data(i) = DataOf(Volume, i)
<1>1. /\ IsVolume(Volume) /\ Owned(Volume) /\ Leading(Volume) /\ perte \in BOOLEAN
      /\ Consistent(Volume, file, perte)
  BY DEF SInv, State
<1>2. fat \in Fats
  BY <1>1, VolumeIs DEF IsVolume
<1>3. Inodes = InodesOf(Volume) /\ DirBlocks = DirOf(Volume) /\ \A i : Data(i) = DataOf(Volume, i)
  BY VolumeIs DEF Inodes, InodesOf, DirBlocks, DirOf, Data, DataOf
<1> QED
  BY <1>1, <1>2, <1>3

(* What SInv says, as the properties of the runs say it: the types, *)
LEMMA TypesNow == SInv => TypeOK
<1> SUFFICES ASSUME SInv PROVE TypeOK
  OBVIOUS
<1>1. fat \in [Blocs -> FAT_EOF .. DISK_SIZE - 1]
  BY SgfParts DEF Fats, Values
<1>2. DOMAIN disk = Blocs
  <2>1. disk = [i \in Blocs |-> disk[i]]
    BY SgfParts, VolumeIs DEF IsVolume, IsDisk
  <2> QED
    BY <2>1
<1>3. mode \in {"arret", "marche", "panique", "abandon"} /\ perte \in BOOLEAN
  BY DEF SInv, State
<1>4. file = NULL \/ file \in OFiles
  BY SgfParts DEF Consistent, OpenFile
<1>5. appel.op \in {"rien", "puts", "write"} /\ appel.reste \in Seq(CHARS)
  <2>1. CASE appel = Idle
    BY <2>1 DEF Idle
  <2>2. CASE Busy(file, appel)
    BY <2>2 DEF Busy
  <2> QED
    BY <2>1, <2>2 DEF SInv, State
<1> QED
  BY <1>1, <1>2, <1>3, <1>4, <1>5 DEF TypeOK

(* the owner of every block, *)
LEMMA OwnedNow == SInv => BlocksOwned
<1> SUFFICES ASSUME SInv PROVE BlocksOwned
  OBVIOUS
<1> DEFINE v == Volume
<1>1. /\ Owned(v) /\ fat \in Fats /\ v.fat = fat /\ v.disk = disk
      /\ Inodes = InodesOf(v) /\ DirBlocks = DirOf(v)
      /\ \A i : Data(i) = DataOf(v, i)
  BY SgfParts, VolumeIs
<1> HIDE DEF v
<1>2. ASSUME NEW n \in ADR_DIR .. DISK_SIZE - 1, fat[n] # FAT_FREE, fat[n] # FAT_INODE
      PROVE  \/ n \in DirBlocks /\ \A i \in Inodes : n \notin Data(i)
             \/ n \notin DirBlocks /\ Cardinality({i \in Inodes : n \in Data(i)}) = 1
  <2>1. n \in Blocs /\ n >= ADR_DIR
    BY ValuesTyped DEF Blocs
  <2>2. n \in DirOf(v) \/ \E i \in InodesOf(v) : n \in DataOf(v, i)
    BY <1>1, <1>2, <2>1 DEF Owned, Covered
  <2>3. \A i \in InodesOf(v) : n \in DataOf(v, i) => n \notin DirOf(v)
    BY <1>1 DEF Owned, Disjoint
  <2>4. CASE n \in DirOf(v)
    BY <1>1, <2>3, <2>4
  <2>5. CASE n \notin DirOf(v)
    <3>1. PICK i \in InodesOf(v) : n \in DataOf(v, i)
      BY <2>2, <2>5
    <3>2. \A j \in InodesOf(v) : n \in DataOf(v, j) => j = i
      BY <1>1, <3>1 DEF Owned, Disjoint
    <3>3. {j \in Inodes : n \in Data(j)} = {i}
      BY <1>1, <3>1, <3>2
    <3>4. Cardinality({i}) = 1
      BY FS_Singleton
    <3> QED
      BY <1>1, <2>5, <3>3, <3>4
  <2> QED
    BY <2>4, <2>5
<1>3. \A i \in Inodes : ChainEnds(fat, disk[i].first)
  <2> TAKE i \in Inodes
  <2>1. PICK s, n : FileIs(v, i, s, n)
    BY <1>1 DEF Owned, Chained
  <2> QED
    BY <1>1, <2>1, FileFacts
<1>4. \A i \in Inodes : \A n \in Data(i) : fat[n] # FAT_FREE
  BY <1>1, DataMarked
<1>5. ChainEnds(fat, ADR_DIR)
  <2>1. PICK s, n : HasDirectory(v, s, n)
    BY <1>1 DEF Owned, Sound
  <2>2. IsChain(fat, ADR_DIR, s, n) /\ ADR_DIR \in Values
    BY <1>1, <2>1, ValuesTyped DEF HasDirectory, IsDirectory
  <2> QED
    BY <1>1, <2>2, ChainFacts
<1> QED
  BY <1>2, <1>3, <1>4, <1>5 DEF BlocksOwned

(* the name of every inode, *)
LEMMA ListedNow == SInv => InodesListed
<1> SUFFICES ASSUME SInv, ~perte PROVE InodesListed
  BY DEF InodesListed
<1>1. Leading(Volume) /\ AllNamed(Volume) /\ Inodes = InodesOf(Volume)
  BY SgfParts DEF Consistent
<1>2. \A i \in Inodes : i # -1
  BY ValuesTyped DEF Inodes
<1>3. Inodes = {find_inode(Volume, nom) : nom \in NOMS} \ {-1}
  BY <1>1, <1>2 DEF Leading, AllNamed
<1>4. \A a, b \in NOMS : find_inode(Volume, a) = find_inode(Volume, b)
                         /\ find_inode(Volume, a) # -1 => a = b
  BY <1>1 DEF Leading
<1> QED
  BY <1>3, <1>4 DEF InodesListed

(* A length and the last block, of a file of as many blocks. *)
LEMMA LastOf ==
  ASSUME NEW v, Owned(v), NEW i \in InodesOf(v), NEW L \in Nat,
         Cardinality(DataOf(v, i)) = Blocks(L)
  PROVE  v.disk[i].last = IF L = 0 THEN FAT_EOF
                          ELSE Walk(v.fat, v.disk[i].first, Blocks(L) - 1)
<1>1. Blocks(L) \in Nat /\ (Blocks(L) = 0 <=> L = 0)
  BY BlocksAre
<1> QED
  BY <1>1, InodeFacts

(* lengths and chains that agree, *)
LEMMA LengthsNow == SInv => LengthsAgree
<1> SUFFICES ASSUME SInv, ~perte, NEW i \in Inodes PROVE LengthAgrees(i)
  BY DEF LengthsAgree
<1> DEFINE v == Volume
           L == IF Written(i) THEN file.length ELSE disk[i].length
           last == IF L = 0 THEN FAT_EOF ELSE Walk(fat, disk[i].first, Blocks(L) - 1)
<1>1. /\ Owned(v) /\ Consistent(v, file, perte) /\ v.fat = fat /\ v.disk = disk
      /\ i \in InodesOf(v) /\ Data(i) = DataOf(v, i) /\ i \in Blocs
  BY SgfParts, VolumeIs DEF InodesOf
<1> HIDE DEF v
<1>2. v.disk[i].length \in Nat /\ BLOCK_SIZE \in Nat /\ BLOCK_SIZE >= 2
  BY <1>1, InodeFacts, SgfAssumption
<1>3. CASE Written(i)
  <2>1. L = file.length /\ file # NULL /\ ~Reads(file) /\ file.inode = i
    BY <1>3 DEF Written, Reads
  <2>2. Writes(v, file) /\ InProgress(v, file)
    BY <1>1, <2>1, OpenWrites
  <2>3. L \in Nat
    BY <2>1, <2>2, OFileFields DEF Writes
  <2>4. /\ Cardinality(Data(i)) = Blocks(L)
        /\ (L \div BLOCK_SIZE) * BLOCK_SIZE <= disk[i].length /\ disk[i].length <= L
    BY <1>1, <2>1, <2>2 DEF InProgress
  <2>5. /\ file.last = disk[i].last /\ file.current = disk[i].last
    BY <1>1, <2>1, <2>2 DEF Writes
  <2> HIDE DEF L
  <2>6. disk[i].last = last
    BY <1>1, <2>3, <2>4, LastOf
  <2>7. L - disk[i].length \in 0 .. BLOCK_SIZE - 1
    <3> DEFINE d == (L \div BLOCK_SIZE) * BLOCK_SIZE
               k == L % BLOCK_SIZE
               l == disk[i].length
    <3>1. d \in Nat /\ k \in 0 .. BLOCK_SIZE - 1 /\ L = d + k
      BY <2>3, BlocksAre
    <3>2. d <= l /\ l <= L /\ l \in Nat
      BY <1>1, <1>2, <2>4
    <3> HIDE DEF d, k, l
    <3>3. L - l \in 0 .. BLOCK_SIZE - 1
      BY <1>2, <2>3, <3>1, <3>2
    <3> QED
      BY <3>3 DEF l
  <2> HIDE DEF last
  <2> QED
    BY <2>4, <2>5, <2>6, <2>7 DEF LengthAgrees, L, last
<1>4. CASE ~Written(i)
  <2>1. L = disk[i].length
    BY <1>4
  <2>2. Complete(v, i)
    BY <1>1, <1>4 DEF Consistent, Written, Reads
  <2>3. L \in Nat /\ Cardinality(Data(i)) = Blocks(L)
    BY <1>1, <1>2, <2>1, <2>2 DEF Complete
  <2>4. L - disk[i].length \in 0 .. BLOCK_SIZE - 1
    BY <1>2, <2>1, <2>3
  <2> HIDE DEF L
  <2>5. disk[i].last = last
    BY <1>1, <2>3, LastOf
  <2> HIDE DEF last
  <2> QED
    BY <1>4, <2>3, <2>4, <2>5 DEF LengthAgrees, L, last
<1> QED
  BY <1>3, <1>4

(* the block that a reader has in its buffer. *)
LEMMA PositionNow == SInv => ReadPosition
<1> SUFFICES ASSUME SInv, file # NULL, file.mode = READ_MODE, ~perte
             PROVE  /\ file.current = Walk(fat, file.first, Max({0, LastBlock(file.ptr)}))
                    /\ file.ptr % BLOCK_SIZE # 0 => file.buffer = disk[file.current]
  BY DEF ReadPosition
<1>1. ReadAt(Volume, file) /\ file \in OFiles
  BY SgfParts DEF Consistent, OpenFile, Reads
<1>2. file.ptr % BLOCK_SIZE # 0 => file.ptr # 0
  BY <1>1, OFileFields, LastBlocks
<1> QED
  BY <1>1, <1>2, VolumeIs DEF ReadAt

(* A program that reads a file. *)
LEMMA ReaderStep ==
  ASSUME SInv, [SgfNext]_sgf, file # NULL, file.mode = READ_MODE, ~perte
  PROVE  UNCHANGED volume
<1>1. mode = "marche" /\ appel = Idle /\ Reads(file) /\ appel.op = "rien"
  <2>1. mode = "marche" /\ Reads(file)
    BY DEF SInv, State, Reads
  <2>2. appel = Idle
    BY <2>1, Running DEF Busy
  <2> QED
    BY <2>1, <2>2 DEF Idle
<1>2. ASSUME NEW r, r.vol = Volume, Leaves(r) PROVE UNCHANGED volume
  BY <1>2, VolumeIs DEF Leaves, Becomes, volume
<1>3. CASE UNCHANGED sgf
  BY <1>3 DEF sgf
<1>4. CASE init_sgf \/ WrongMode \/ \E op \in {"puts", "write"}, t \in TEXTES : Begin(op, t)
  BY <1>4 DEF init_sgf, WrongMode, Begin
<1>5. ASSUME NEW nom \in NOMS,
             OpenNull(nom) \/ sgf_open_read(nom) \/ sgf_open_append(nom) \/ sgf_open_write(nom)
      PROVE  FALSE
  BY <1>5, NullSame DEF sgf_open_read, sgf_open_append, sgf_open_write, Closed
<1>6. ~sgf_open_write_full /\ ~sgf_puts /\ ~sgf_write
  BY <1>1 DEF sgf_open_write_full, sgf_puts, sgf_write, Closed
<1>7. CASE sgf_getc
  BY <1>2, <1>7, GetcLeaves
<1>8. CASE Reading /\ \E pos \in -1 .. file.length : sgf_seek(pos)
  BY <1>2, <1>8, SeekLeaves
<1>9. CASE sgf_close
  <2> DEFINE r == CloseFile(Volume, file)
  <2>1. Leaves(r)
    BY <1>9 DEF sgf_close
  <2>2. Harmless(Volume, r)
    BY <1>1, Running, CloseReads
  <2> HIDE DEF r
  <2>3. fat' = r.vol.fat /\ disk' = r.vol.disk
    BY <2>1 DEF Leaves, Becomes
  <2>4. r.vol.fat = fat /\ r.vol.disk = disk
    BY <2>2, VolumeIs DEF Harmless
  <2> QED
    BY <2>3, <2>4 DEF volume
<1> QED
  BY <1>3, <1>4, <1>5, <1>6, <1>7, <1>8, <1>9 DEF SgfNext, OpenNull

-----------------------------------------------------------------------------
(* The FAT, the OFILE and the loops keep to their types: ptr, length and   *)
(* the addresses of blocks stay in their ranges, whatever fails.           *)
THEOREM SgfTyped == SgfSpec => []TypeOK
<1>1. SInv => TypeOK
  BY TypesNow
<1> QED
  BY <1>1, SgfInvariant, PTL

(* Every block that is not free has one owner, the directory or one file,  *)
(* and every chain ends: alloc_block(), sgf_append_block(), sgf_remove()   *)
(* and add_inode() lose no block and give none twice, whatever fails.      *)
THEOREM BlocksStayOwned == SgfSpec => []BlocksOwned
<1>1. SInv => BlocksOwned
  BY OwnedNow
<1> QED
  BY <1>1, SgfInvariant, PTL

(* Names and inodes correspond one to one, until a return value has been   *)
(* dropped: alloc_block(), add_inode() and sgf_remove() in one sgf_open(). *)
THEOREM InodesStayListed == SgfSpec => []InodesListed
<1>1. SInv => InodesListed
  BY ListedNow
<1> QED
  BY <1>1, SgfInvariant, PTL

(* Length, chain and last block agree, on the disk for the files at rest,  *)
(* in the OFILE for the one that sgf_putc() or sgf_write() is writing.     *)
THEOREM LengthsStayAgreed == SgfSpec => []LengthsAgree
<1>1. SInv => LengthsAgree
  BY LengthsNow
<1> QED
  BY <1>1, SgfInvariant, PTL

(* The block in the buffer is the one that sgf_read_bloc() and sgf_seek()  *)
(* infer from ptr, so that sgf_getc() reads the right character.           *)
THEOREM ReaderStaysInPlace == SgfSpec => []ReadPosition
<1>1. SInv => ReadPosition
  BY PositionNow
<1> QED
  BY <1>1, SgfInvariant, PTL

(* sgf_read_bloc(), sgf_remove(), get_fat() and write_block() never come   *)
(* off the end of a chain, unless something was lost before.               *)
THEOREM PanicsOnlyAfterLoss == SgfSpec => []PanicOnlyAfterLoss
<1>1. SInv => PanicOnlyAfterLoss
  BY DEF SInv, State, PanicOnlyAfterLoss
<1> QED
  BY <1>1, SgfInvariant, PTL

(* No step of a program that reads changes the disk, although sgf_close()  *)
(* writes the buffer and the inode back.                                   *)
THEOREM ReadingIsHarmless == SgfSpec => ReadingChangesNothing
<1>1. SInv /\ [SgfNext]_sgf =>
        [file # NULL /\ file.mode = READ_MODE /\ ~perte => UNCHANGED volume]_sgf
  BY ReaderStep
<1> QED
  BY <1>1, SgfInvariant, PTL DEF SgfSpec, ReadingChangesNothing

(* No call touches inode, blocks or links of a file other than the open    *)
(* one: not sgf_putc() or sgf_write() that go on when sgf_append_block()   *)
(* has failed, nor sgf_open() that frees the blocks of a file it replaces. *)
THEOREM OthersStayUntouched == SgfSpec => OthersUntouched
<1>1. SInv /\ [SgfNext]_sgf =>
        [\A i \in Inodes \cap Inodes' : file = NULL \/ i # file.inode => Intact(i)]_sgf
  BY KindlyStep DEF Kindly
<1> QED
  BY <1>1, SgfInvariant, PTL DEF SgfSpec, OthersUntouched

-----------------------------------------------------------------------------
(* Contents.  The text of the file i of v, fl being the open file: what    *)
(* Content says, of any volume.                                            *)
WrittenBy(fl, i) == fl # NULL /\ ~Reads(fl) /\ fl.inode = i
LengthIn(v, fl, i) == IF WrittenBy(fl, i) THEN fl.length ELSE v.disk[i].length
Buffered(fl, i, k) ==
  WrittenBy(fl, i) /\ fl.length % BLOCK_SIZE # 0
  /\ (k \div BLOCK_SIZE) = (fl.length \div BLOCK_SIZE)
OnChain(v, i, k) == Octets(v.disk[Walk(v.fat, v.disk[i].first, k \div BLOCK_SIZE)])[k % BLOCK_SIZE]
CharIn(v, fl, i, k) ==
  IF Buffered(fl, i, k) THEN fl.buffer[k % BLOCK_SIZE] ELSE OnChain(v, i, k)
TextIn(v, fl, i) == [k \in 1 .. LengthIn(v, fl, i) |-> CharIn(v, fl, i, k - 1)]

(* Texts of one length with the same characters. *)
LEMMA SameText ==
  ASSUME NEW v, NEW fl, NEW i, NEW w, NEW gl, NEW j,
         LengthIn(v, fl, i) \in Nat, LengthIn(w, gl, j) = LengthIn(v, fl, i),
         \A k \in 0 .. LengthIn(v, fl, i) - 1 : CharIn(w, gl, j, k) = CharIn(v, fl, i, k)
  PROVE  TextIn(w, gl, j) = TextIn(v, fl, i)
<1> DEFINE L == LengthIn(v, fl, i)
<1>1. \A k \in 1 .. L : k - 1 \in 0 .. L - 1
  OBVIOUS
<1>2. \A k \in 1 .. L : CharIn(w, gl, j, k - 1) = CharIn(v, fl, i, k - 1)
  BY <1>1
<1> HIDE DEF L
<1> QED
  BY <1>2 DEF TextIn, L

(* The blocks of a file, by their number: of the file, and distinct. *)
LEMMA BlocksOf ==
  ASSUME NEW v, Owned(v), NEW i \in InodesOf(v), NEW n, n = Cardinality(DataOf(v, i))
  PROVE  /\ n \in Nat /\ i \in Blocs
         /\ \A k \in 0 .. n - 1 : /\ Walk(v.fat, v.disk[i].first, k) \in DataOf(v, i)
                                  /\ Walk(v.fat, v.disk[i].first, k) \in Blocs
                                  /\ Walk(v.fat, v.disk[i].first, k) # i
         /\ \A j, k \in 0 .. n - 1 :
              Walk(v.fat, v.disk[i].first, j) = Walk(v.fat, v.disk[i].first, k) => j = k
<1>1. v.fat \in Fats /\ i \in Blocs
  BY DEF Owned, IsVolume, InodesOf
<1>2. PICK s, n1 : FileIs(v, i, s, n1)
  BY DEF Owned, Chained
<1>3. /\ n1 \in Nat /\ n1 = n /\ s \in [0 .. n - 1 -> Blocs] /\ DataOf(v, i) = ChainSet(s, n)
      /\ \A k \in Nat : Walk(v.fat, v.disk[i].first, k) = IF k < n THEN s[k] ELSE FAT_EOF
  BY <1>1, <1>2, FileFacts
<1>4. \A j, k \in 0 .. n - 1 : s[j] = s[k] => j = k
  <2>1. IsChain(v.fat, v.disk[i].first, s, n)
    BY <1>2, <1>3 DEF FileIs
  <2> QED
    BY <2>1 DEF IsChain
<1>5. \A k \in 0 .. n - 1 : k \in Nat /\ k < n /\ Walk(v.fat, v.disk[i].first, k) = s[k]
  BY <1>3
<1>6. \A k \in 0 .. n - 1 : s[k] \in DataOf(v, i) /\ s[k] \in Blocs
  BY <1>3, Zenon DEF ChainSet
<1>7. \A m \in DataOf(v, i) : m # i
  BY DataMarked
<1> QED
  BY <1>1, <1>3, <1>4, <1>5, <1>6, <1>7

(* What is known of files while no failure was dropped. *)
Sane(v, fl) == Owned(v) /\ Leading(v) /\ Consistent(v, fl, FALSE)

(* Lengths and blocks of the files. *)
LEMMA TextBlocks ==
  ASSUME NEW v, NEW fl, Sane(v, fl), NEW i \in InodesOf(v)
  PROVE  /\ LengthIn(v, fl, i) \in 0 .. MAX_LENGTH /\ LengthIn(v, fl, i) \in Nat
         /\ Cardinality(DataOf(v, i)) = Blocks(LengthIn(v, fl, i))
         /\ \A m \in DataOf(v, i) : v.disk[m] \in Buffers \cup {Blank}
         /\ \A m \in DataOf(v, i) : ~WrittenBy(fl, i) => v.disk[m] \in Buffers
<1>1. CASE WrittenBy(fl, i)
  <2>1. fl \in OFiles /\ InProgress(v, fl) /\ LengthIn(v, fl, i) = fl.length /\ fl.inode = i
    BY <1>1 DEF Sane, Consistent, OpenFile, WrittenBy, LengthIn
  <2>2. PICK s, n : FileIs(v, i, s, n)
    BY DEF Sane, Owned, Chained
  <2>3. v.fat \in Fats
    BY DEF Sane, Owned, IsVolume
  <2>4. DataOf(v, i) = ChainSet(s, n) /\ \A k \in 0 .. n - 1 : v.disk[s[k]] \in Buffers \cup {Blank}
    BY <2>2, <2>3, FileFacts DEF FileIs
  <2> QED
    BY <1>1, <2>1, <2>4, OFileFields DEF InProgress, ChainSet
<1>2. CASE ~WrittenBy(fl, i)
  <2>1. Complete(v, i) /\ LengthIn(v, fl, i) = v.disk[i].length
    BY <1>2 DEF Sane, Consistent, WrittenBy, LengthIn
  <2>2. v.disk[i].length \in 0 .. MAX_LENGTH /\ v.disk[i].length \in Nat
    BY InodeFacts DEF Sane
  <2> QED
    BY <1>2, <2>1, <2>2 DEF Complete
<1> QED
  BY <1>1, <1>2

(* The block that a character is in. *)
LEMMA CharBlock ==
  ASSUME NEW v, NEW fl, Sane(v, fl), NEW i \in InodesOf(v), NEW k \in 0 .. LengthIn(v, fl, i) - 1
  PROVE  LET q == k \div BLOCK_SIZE IN
         /\ k \in Nat /\ q \in Nat /\ k % BLOCK_SIZE \in Indices
         /\ q \in 0 .. Cardinality(DataOf(v, i)) - 1
         /\ Walk(v.fat, v.disk[i].first, q) \in DataOf(v, i)
         /\ Walk(v.fat, v.disk[i].first, q) \in Blocs
<1> DEFINE L == LengthIn(v, fl, i)
           q == k \div BLOCK_SIZE
           n == Cardinality(DataOf(v, i))
<1>1. L \in Nat /\ n = Blocks(L)
  BY TextBlocks
<1>2. k \in Nat /\ k < L
  BY <1>1
<1> HIDE DEF L, n
<1>3. q \in Nat /\ q < Blocks(L)
  BY <1>1, <1>2, BlockWithin
<1>4. k % BLOCK_SIZE \in Indices
  BY <1>2, BlocksAre DEF Indices
<1>5. n \in Nat
  BY BlocksOf DEF n, Sane
<1> HIDE DEF q
<1>6. q \in 0 .. n - 1
  BY <1>1, <1>3, <1>5
<1>7. Walk(v.fat, v.disk[i].first, q) \in DataOf(v, i) /\ Walk(v.fat, v.disk[i].first, q) \in Blocs
  BY <1>6, BlocksOf DEF n, Sane
<1> QED
  BY <1>2, <1>3, <1>4, <1>6, <1>7 DEF q, n

(* A text is a sequence of characters, and of bytes that nobody wrote. *)
LEMMA TextTyped ==
  ASSUME NEW v, NEW fl, Sane(v, fl), NEW i \in InodesOf(v)
  PROVE  /\ TextIn(v, fl, i) \in Seq(CHARS \cup {Junk})
         /\ Len(TextIn(v, fl, i)) = LengthIn(v, fl, i)
         /\ TextIn(v, fl, i) # Blank
<1> DEFINE L == LengthIn(v, fl, i)
           t == TextIn(v, fl, i)
<1>1. L \in Nat
  BY TextBlocks
<1>2. \A k \in 0 .. L - 1 : CharIn(v, fl, i, k) \in CHARS \cup {Junk}
  <2> TAKE k \in 0 .. L - 1
  <2>1. /\ k % BLOCK_SIZE \in Indices
        /\ Walk(v.fat, v.disk[i].first, k \div BLOCK_SIZE) \in DataOf(v, i)
    BY CharBlock
  <2>2. Octets(v.disk[Walk(v.fat, v.disk[i].first, k \div BLOCK_SIZE)]) \in Buffers
    BY <2>1, TextBlocks, OctetsAre
  <2>3. Buffered(fl, i, k) => fl.buffer \in Buffers
    BY OFileFields DEF Buffered, WrittenBy, Sane, Consistent, OpenFile
  <2> QED
    BY <2>1, <2>2, <2>3 DEF CharIn, OnChain, Buffers
<1>3. t \in [1 .. L -> CHARS \cup {Junk}]
  <2>1. \A k \in 1 .. L : k - 1 \in 0 .. L - 1
    BY <1>1
  <2>2. t = [k \in 1 .. L |-> CharIn(v, fl, i, k - 1)]
    BY DEF TextIn
  <2> HIDE DEF t, L
  <2> QED
    BY <1>2, <2>1, <2>2
<1> HIDE DEF t, L
<1>4. t \in Seq(CHARS \cup {Junk}) /\ Len(t) = L
  BY <1>1, <1>3
<1> QED
  BY <1>4, AbstractAssumption DEF t, L

(* A file that is left alone, and not open to be written, reads the same. *)
LEMMA TextKept ==
  ASSUME NEW v, NEW fl, Sane(v, fl), NEW i \in InodesOf(v), ~WrittenBy(fl, i),
         NEW w, NEW gl, ~WrittenBy(gl, i), SameFile(v, w, i)
  PROVE  TextIn(w, gl, i) = TextIn(v, fl, i)
<1>1. LengthIn(v, fl, i) \in Nat /\ LengthIn(w, gl, i) = LengthIn(v, fl, i)
  BY TextBlocks DEF LengthIn, SameFile
<1>2. ASSUME NEW k \in 0 .. LengthIn(v, fl, i) - 1
      PROVE  CharIn(w, gl, i, k) = CharIn(v, fl, i, k)
  <2> DEFINE q == k \div BLOCK_SIZE
  <2>1. q \in Nat /\ Walk(v.fat, v.disk[i].first, q) \in DataOf(v, i)
    BY CharBlock
  <2>2. OnChain(w, i, k) = OnChain(v, i, k)
    <3> HIDE DEF q
    <3>1. /\ Walk(w.fat, w.disk[i].first, q) = Walk(v.fat, v.disk[i].first, q)
          /\ w.disk[Walk(v.fat, v.disk[i].first, q)] = v.disk[Walk(v.fat, v.disk[i].first, q)]
      BY <2>1 DEF SameFile
    <3> QED
      BY <3>1 DEF OnChain, q
  <2> QED
    BY <2>2 DEF CharIn, Buffered
<1> QED
  BY <1>1, <1>2, SameText

-----------------------------------------------------------------------------
(* The place of a character of a text of L characters to which m are added, *)
(* within a block.                                                          *)
LEMMA PlaceAdded ==
  ASSUME NEW L \in Nat, NEW m \in 1 .. BLOCK_SIZE - (L % BLOCK_SIZE), NEW k \in 0 .. L + m - 1
  PROVE  /\ k \in Nat /\ k \div BLOCK_SIZE \in 0 .. L \div BLOCK_SIZE
         /\ k < L /\ k \div BLOCK_SIZE = L \div BLOCK_SIZE =>
              L % BLOCK_SIZE # 0 /\ k % BLOCK_SIZE \in 0 .. (L % BLOCK_SIZE) - 1
         /\ k >= L => /\ k \div BLOCK_SIZE = L \div BLOCK_SIZE
                      /\ k - L + 1 \in 1 .. m
                      /\ k % BLOCK_SIZE = (L % BLOCK_SIZE) + (k - L + 1) - 1
<1> DEFINE B == BLOCK_SIZE
           q == L \div B
           j == L % B
           q1 == k \div B
           j1 == k % B
<1>1. B \in Nat \ {0} /\ B >= 2
  BY SgfAssumption
<1>2. q \in Nat /\ j \in 0 .. B - 1 /\ L = q * B + j /\ q * B \in Nat
  BY BlocksAre
<1>3. k \in Nat /\ m \in Nat
  BY <1>1, <1>2
<1>4. q1 \in Nat /\ j1 \in 0 .. B - 1 /\ k = q1 * B + j1 /\ q1 * B \in Nat
  BY <1>3, BlocksAre
<1>5. m \in 1 .. B - j
  OBVIOUS
<1>6. Blocks(L + m) = q + 1
  <2>1. Blocks(L + m) = Blocks(L) + (IF j = 0 THEN 1 ELSE 0)
    BY BlocksGrow
  <2>2. Blocks(L) = q + (IF j = 0 THEN 0 ELSE 1)
    BY BlocksAre
  <2> HIDE DEF q, j
  <2> QED
    BY <1>2, <2>1, <2>2
<1>7. L + m \in Nat /\ k < L + m
  BY <1>2, <1>3
<1>8. q1 < q + 1
  BY <1>3, <1>6, <1>7, BlockWithin
<1>9. k >= L => k = q * B + (j + (k - L))
  <2> HIDE DEF q, j
  <2> QED
    BY <1>2, <1>3
<1>10. k >= L => j + (k - L) \in 0 .. B - 1
  <2> HIDE DEF q, j
  <2> QED
    BY <1>1, <1>2, <1>3, <1>5, <1>7
<1>11. k >= L => q1 = q /\ j1 = j + (k - L)
  <2> SUFFICES ASSUME k >= L PROVE q1 = q /\ j1 = j + (k - L)
    OBVIOUS
  <2> DEFINE z == j + (k - L)
  <2>1. k = q * B + z /\ z \in 0 .. B - 1
    BY <1>9, <1>10
  <2> HIDE DEF z, q
  <2>2. k \div B = q /\ k % B = z
    BY <1>1, <1>2, <2>1, QuotientOf
  <2> QED
    BY <2>2 DEF z
<1> HIDE DEF B, q, j, q1, j1
<1>12. q1 \in 0 .. q
  BY <1>2, <1>4, <1>8
<1>13. k < L /\ q1 = q => j # 0 /\ j1 \in 0 .. j - 1
  BY <1>2, <1>4
<1>14. k >= L => q1 = q /\ k - L + 1 \in 1 .. m /\ j1 = j + (k - L + 1) - 1
  BY <1>2, <1>3, <1>4, <1>7, <1>11
<1> QED
  BY <1>3, <1>12, <1>13, <1>14 DEF B, q, j, q1, j1

(* The text s is added to the file i that is being written: to the buffer, *)
(* and to the disk if the block is full.                                   *)
BlockIn(v, i, q) == Octets(v.disk[Walk(v.fat, v.disk[i].first, q)])
Grows(v, fl, w, hl, i, s) ==
  LET L == fl.length
      k == L % BLOCK_SIZE
      q == L \div BLOCK_SIZE IN
  /\ WrittenBy(hl, i) /\ hl.length = L + Len(s)
  /\ \A j \in 0 .. k - 1 : hl.buffer[j] = fl.buffer[j]
  /\ \A j \in 1 .. Len(s) : hl.buffer[k + j - 1] = s[j]
  /\ \A n \in 0 .. q - 1 : BlockIn(w, i, n) = BlockIn(v, i, n)
  /\ (L + Len(s)) % BLOCK_SIZE = 0 => BlockIn(w, i, q) = hl.buffer

(* Nothing of the text is lost then, and s follows it. *)
LEMMA TextGrown ==
  ASSUME NEW v, NEW fl, Sane(v, fl), NEW i \in InodesOf(v), WrittenBy(fl, i),
         NEW s \in Seq(CHARS), Len(s) \in 1 .. BLOCK_SIZE - (fl.length % BLOCK_SIZE),
         NEW w, NEW hl, Grows(v, fl, w, hl, i, s)
  PROVE  TextIn(w, hl, i) = TextIn(v, fl, i) \o s
<1> DEFINE L == fl.length
           m == Len(s)
           B == BLOCK_SIZE
           k == L % B
           q == L \div B
           M == L + m
<1>1. L = LengthIn(v, fl, i) /\ L \in Nat
  BY TextBlocks DEF LengthIn
<1>2. m \in 1 .. B - k /\ m \in Nat
  OBVIOUS
<1>3. /\ WrittenBy(hl, i) /\ hl.length = M
      /\ \A j \in 0 .. k - 1 : hl.buffer[j] = fl.buffer[j]
      /\ \A j \in 1 .. m : hl.buffer[k + j - 1] = s[j]
      /\ \A n \in 0 .. q - 1 : BlockIn(w, i, n) = BlockIn(v, i, n)
      /\ M % B = 0 => BlockIn(w, i, q) = hl.buffer
  BY DEF Grows
<1>4. LengthIn(w, hl, i) = M
  BY <1>3 DEF LengthIn
<1>5. /\ M \in Nat
      /\ M % B # 0 => M \div B = q
      /\ q \in Nat /\ k \in 0 .. B - 1
  <2>1. IF k + m = B THEN M % B = 0 ELSE M \div B = q
    BY <1>1, <1>2, BlocksGrow
  <2>2. q \in Nat /\ k \in 0 .. B - 1
    BY <1>1, BlocksAre
  <2>3. M \in Nat
    BY <1>1, <1>2
  <2> HIDE DEF M, k, q
  <2> QED
    BY <2>1, <2>2, <2>3
<1> HIDE DEF L, m
<1>14. ASSUME NEW n \in 0 .. M - 1
       PROVE  /\ n \in Nat /\ n \div B \in 0 .. q
              /\ n < L /\ n \div B = q => k # 0 /\ n % B \in 0 .. k - 1
              /\ n >= L => n \div B = q /\ n - L + 1 \in 1 .. m /\ n % B = k + (n - L + 1) - 1
  <2>1. n \in 0 .. L + m - 1
    BY <1>1, <1>2, <1>14
  <2>2. m \in 1 .. BLOCK_SIZE - (L % BLOCK_SIZE)
    BY <1>2
  <2> QED
    BY <1>1, <2>1, <2>2, PlaceAdded
<1> HIDE DEF B, k, q, M
<1>6. ASSUME NEW n \in 0 .. M - 1
      PROVE  CharIn(w, hl, i, n) = IF n \div B = q THEN hl.buffer[n % B] ELSE OnChain(v, i, n)
  <2>1. n \div B \in 0 .. q
    BY <1>14
  <2>2. CASE n \div B = q
    <3>1. CASE M % B = 0
      <4>1. ~Buffered(hl, i, n)
        BY <1>3, <3>1 DEF Buffered, B
      <4>2. OnChain(w, i, n) = hl.buffer[n % B]
        BY <1>3, <2>2, <3>1 DEF OnChain, BlockIn, B
      <4> QED
        BY <2>2, <4>1, <4>2 DEF CharIn
    <3>2. CASE M % B # 0
      <4>1. Buffered(hl, i, n)
        BY <1>3, <1>5, <2>2, <3>2 DEF Buffered, B
      <4> QED
        BY <2>2, <4>1 DEF CharIn, B
    <3> QED
      BY <3>1, <3>2
  <2>3. CASE n \div B # q
    <3>1. n \div B \in 0 .. q - 1
      BY <1>5, <2>1, <2>3
    <3>2. ~Buffered(hl, i, n)
      BY <1>3, <1>5, <2>3 DEF Buffered, B
    <3>3. OnChain(w, i, n) = OnChain(v, i, n)
      BY <1>3, <3>1 DEF OnChain, BlockIn, B
    <3> QED
      BY <2>3, <3>2, <3>3 DEF CharIn
  <2> QED
    BY <2>2, <2>3
<1>7. ASSUME NEW n \in 0 .. L - 1 PROVE CharIn(w, hl, i, n) = CharIn(v, fl, i, n)
  <2>1. n \in 0 .. M - 1 /\ n < L
    BY <1>1, <1>2 DEF M
  <2>2. n \div B = q => k # 0 /\ n % B \in 0 .. k - 1
    BY <1>14, <2>1
  <2>3. CASE n \div B = q
    <3>1. Buffered(fl, i, n)
      BY <2>2, <2>3 DEF Buffered, B, k, q, L
    <3>2. hl.buffer[n % B] = fl.buffer[n % B]
      BY <1>3, <2>2, <2>3
    <3> QED
      BY <1>6, <2>1, <2>3, <3>1, <3>2 DEF CharIn, B
  <2>4. CASE n \div B # q
    <3>1. ~Buffered(fl, i, n)
      BY <2>4 DEF Buffered, B, k, q, L
    <3> QED
      BY <1>6, <2>1, <2>4, <3>1 DEF CharIn
  <2> QED
    BY <2>3, <2>4
<1>8. ASSUME NEW n \in 0 .. M - 1, n >= L PROVE CharIn(w, hl, i, n) = s[n - L + 1]
  <2>1. n \div B = q /\ n - L + 1 \in 1 .. m /\ n % B = k + (n - L + 1) - 1
    BY <1>8, <1>14
  <2>2. hl.buffer[n % B] = s[n - L + 1]
    <3> DEFINE j == n - L + 1
    <3>1. j \in 1 .. m /\ n % B = k + j - 1
      BY <2>1
    <3> HIDE DEF j
    <3>2. hl.buffer[k + j - 1] = s[j]
      BY <1>3, <3>1
    <3> QED
      BY <3>1, <3>2 DEF j
  <2> QED
    BY <1>6, <2>1, <2>2
<1> DEFINE t == TextIn(v, fl, i)
           u == TextIn(w, hl, i)
<1>9. u = [n \in 1 .. M |-> CharIn(w, hl, i, n - 1)]
  BY <1>4 DEF TextIn
<1>10. /\ t \in Seq(CHARS \cup {Junk}) /\ Len(t) = L
       /\ \A n \in 1 .. L : t[n] = CharIn(v, fl, i, n - 1)
  BY <1>1, TextTyped DEF TextIn
<1> HIDE DEF t, u
<1>11. s \in Seq(CHARS) /\ Len(s) = m
  BY DEF m
<1>12. t \o s = [n \in 1 .. M |-> IF n <= L THEN t[n] ELSE s[n - L]]
  <2>1. /\ t \o s \in Seq(CHARS \cup {Junk}) /\ Len(t \o s) = M
        /\ \A n \in 1 .. M : (t \o s)[n] = IF n <= L THEN t[n] ELSE s[n - L]
    <3>1. s \in Seq(CHARS \cup {Junk})
      BY <1>11
    <3>2. /\ t \o s \in Seq(CHARS \cup {Junk}) /\ Len(t \o s) = Len(t) + Len(s)
          /\ \A n \in 1 .. Len(t) + Len(s) :
               (t \o s)[n] = IF n <= Len(t) THEN t[n] ELSE s[n - Len(t)]
      BY <1>10, <3>1, ConcatProperties
    <3> QED
      BY <1>10, <1>11, <3>2 DEF M
  <2>2. \A x \in Seq(CHARS \cup {Junk}) : x = [n \in 1 .. Len(x) |-> x[n]]
    OBVIOUS
  <2>3. t \o s = [n \in 1 .. M |-> (t \o s)[n]]
    BY <2>1, <2>2, Zenon
  <2> QED
    BY <2>1, <2>3
<1>13. \A n \in 1 .. M : CharIn(w, hl, i, n - 1) = IF n <= L THEN t[n] ELSE s[n - L]
  <2> TAKE n \in 1 .. M
  <2>1. CASE n <= L
    <3>1. n - 1 \in 0 .. L - 1 /\ n \in 1 .. L
      BY <1>1, <1>5, <2>1
    <3> QED
      BY <1>7, <1>10, <2>1, <3>1
  <2>2. CASE ~(n <= L)
    <3>1. n - 1 \in 0 .. M - 1 /\ n - 1 >= L /\ (n - 1) - L + 1 = n - L
      BY <1>1, <1>5, <2>2
    <3>2. CharIn(w, hl, i, n - 1) = s[(n - 1) - L + 1]
      BY <1>8, <3>1
    <3> QED
      BY <2>2, <3>1, <3>2
  <2> QED
    BY <2>1, <2>2
<1> QED
  BY <1>9, <1>12, <1>13 DEF t, u

(* A step on the file i: the other files and all names stay. *)
OneFile(v, w, i) ==
  /\ InodesOf(w) = InodesOf(v) /\ SameNames(v, w)
  /\ \A j \in InodesOf(v) : j # i => SameFile(v, w, j)

(* Such steps, one after the other. *)
LEMMA OneFileTwice ==
  ASSUME NEW u, NEW v, NEW w, NEW i, OneFile(u, v, i), OneFile(v, w, i)
  PROVE  OneFile(u, w, i)
BY SameFileTwice DEF OneFile, SameNames

(* A file whose blocks stay where they are. *)
LEMMA SameWalk ==
  ASSUME NEW v, NEW w, NEW i, w.fat = v.fat, w.disk[i].first = v.disk[i].first
  PROVE  /\ DataOf(w, i) = DataOf(v, i)
         /\ \A k \in Nat : Walk(w.fat, w.disk[i].first, k) = Walk(v.fat, v.disk[i].first, k)
BY DEF DataOf

(* A flush changes one file, and of it the last block. *)
LEMMA FlushBlocks ==
  ASSUME NEW v, Owned(v), NEW gl, Writes(v, gl), NEW i, i = gl.inode,
         NEW n, n = Cardinality(DataOf(v, i)), n # 0, NEW w, FlushedTo(v, gl, w)
  PROVE  /\ OneFile(v, w, i) /\ n \in Nat
         /\ BlockIn(w, i, n - 1) = gl.buffer
         /\ \A k \in 0 .. n - 2 : BlockIn(w, i, k) = BlockIn(v, i, k)
<1> DEFINE c == gl.current
<1>1. gl \in OFiles /\ i \in InodesOf(v) /\ i \in Blocs /\ c = v.disk[i].last
  BY DEF Writes, InodesOf
<1>2. c \in DataOf(v, i) /\ c \in Blocs /\ c # i
  BY <1>1, CurrentIsBlock, DataMarked
<1> HIDE DEF c
<1>3. /\ w.fat = v.fat /\ SameNames(v, w) /\ InodesOf(w) = InodesOf(v)
      /\ w.disk[i] = [v.disk[i] EXCEPT !.length = gl.length]
      /\ w.disk[c] = gl.buffer
      /\ \A m \in Blocs : m # i /\ m # c => w.disk[m] = v.disk[m]
  BY DEF FlushedTo, c
<1>4. ASSUME NEW j \in InodesOf(v), j # i PROVE SameFile(v, w, j)
  <2>1. j \in Blocs /\ j # c
    BY <1>1, <1>2, DataMarked DEF InodesOf
  <2>2. w.disk[j] = v.disk[j]
    BY <1>3, <1>4, <2>1
  <2>3. \A m \in DataOf(v, j) : m \in Blocs /\ m # i /\ m # c
    BY <1>1, <1>2, <1>4, DataMarked DEF Owned, Disjoint
  <2> QED
    BY <1>3, <2>2, <2>3, SameWalk DEF SameFile
<1>5. PICK s, n1 : FileIs(v, i, s, n1)
  BY <1>1 DEF Owned, Chained
<1>6. v.disk[i] \in InodeRecords /\ gl.length \in 0 .. MAX_LENGTH
  BY <1>1, <1>5, OFileFields DEF FileIs
<1>7. w.disk[i].first = v.disk[i].first
  BY <1>3, <1>6, InodeSet
<1>8. \A k \in Nat : Walk(w.fat, w.disk[i].first, k) = Walk(v.fat, v.disk[i].first, k)
  BY <1>3, <1>7, SameWalk
<1>9. /\ n \in Nat
      /\ \A k \in 0 .. n - 1 : /\ Walk(v.fat, v.disk[i].first, k) \in Blocs
                               /\ Walk(v.fat, v.disk[i].first, k) # i
      /\ \A j, k \in 0 .. n - 1 :
           Walk(v.fat, v.disk[i].first, j) = Walk(v.fat, v.disk[i].first, k) => j = k
  BY <1>1, BlocksOf
<1>10. v.disk[i].last = Walk(v.fat, v.disk[i].first, n - 1)
  <2>1. v.fat \in Fats
    BY DEF Owned, IsVolume
  <2>2. /\ n1 \in Nat /\ n1 = n /\ (n1 # 0 => v.disk[i].last = s[n1 - 1])
        /\ \A k \in Nat : Walk(v.fat, v.disk[i].first, k) = IF k < n1 THEN s[k] ELSE FAT_EOF
    BY <1>5, <2>1, FileFacts
  <2>3. n - 1 \in Nat /\ n - 1 < n
    BY <1>9
  <2> QED
    BY <2>2, <2>3
<1>11. BlockIn(w, i, n - 1) = gl.buffer
  <2>1. n - 1 \in Nat
    BY <1>9
  <2>2. Walk(w.fat, w.disk[i].first, n - 1) = c
    BY <1>1, <1>8, <1>10, <2>1
  <2>3. gl.buffer \in Buffers
    BY <1>1, OFileFields
  <2>4. gl.buffer # Blank
    BY <2>3, SgfAssumption DEF Buffers, Indices
  <2> QED
    BY <1>3, <2>2, <2>4 DEF BlockIn, Octets
<1>12. ASSUME NEW k \in 0 .. n - 2 PROVE BlockIn(w, i, k) = BlockIn(v, i, k)
  <2> DEFINE b == Walk(v.fat, v.disk[i].first, k)
  <2>1. k \in 0 .. n - 1 /\ k # n - 1 /\ n - 1 \in 0 .. n - 1 /\ k \in Nat
    BY <1>9
  <2>2. b \in Blocs /\ b # i /\ b # c
    BY <1>1, <1>9, <1>10, <2>1
  <2>3. w.disk[b] = v.disk[b] /\ Walk(w.fat, w.disk[i].first, k) = b
    BY <1>3, <1>8, <2>1, <2>2
  <2> QED
    BY <2>3 DEF BlockIn
<1> QED
  BY <1>3, <1>4, <1>9, <1>11, <1>12 DEF OneFile

(* A block more changes one file, and none of its blocks. *)
LEMMA AppendBlocks ==
  ASSUME NEW v, Owned(v), NEW fl, NEW i, i = fl.inode, i \in InodesOf(v),
         NEW n, n = Cardinality(DataOf(v, i)), NEW w, NEW a, AppendedTo(v, fl, w, a)
  PROVE  /\ OneFile(v, w, i) /\ Owned(w)
         /\ n \in Nat /\ Cardinality(DataOf(w, i)) = n + 1
         /\ \A k \in 0 .. n - 1 : BlockIn(w, i, k) = BlockIn(v, i, k)
<1>1. /\ a \notin DataOf(v, i)
      /\ Owned(w) /\ SameNames(v, w) /\ InodesOf(w) = InodesOf(v)
      /\ DataOf(w, i) = DataOf(v, i) \cup {a}
      /\ \A k \in Nat : Walk(w.fat, w.disk[i].first, k)
           = IF k = n THEN a ELSE Walk(v.fat, v.disk[i].first, k)
      /\ \A j \in InodesOf(v) : j # i => SameFile(v, w, j)
      /\ \A m \in Blocs : m # i => w.disk[m] = v.disk[m]
  BY DEF AppendedTo
<1>2. /\ n \in Nat
      /\ \A k \in 0 .. n - 1 : /\ Walk(v.fat, v.disk[i].first, k) \in Blocs
                               /\ Walk(v.fat, v.disk[i].first, k) # i
  BY BlocksOf
<1>3. Cardinality(DataOf(w, i)) = n + 1
  <2>1. DataOf(v, i) \in SUBSET Blocs
    BY DataMarked
  <2>2. IsFiniteSet(DataOf(v, i))
    BY <2>1, BlocsFinite
  <2> QED
    BY <1>1, <2>2, FS_AddElement
<1>4. ASSUME NEW k \in 0 .. n - 1 PROVE BlockIn(w, i, k) = BlockIn(v, i, k)
  <2> DEFINE b == Walk(v.fat, v.disk[i].first, k)
  <2>1. k \in Nat /\ k # n
    BY <1>2
  <2>2. Walk(w.fat, w.disk[i].first, k) = b /\ b \in Blocs /\ b # i
    BY <1>1, <1>2, <2>1
  <2> QED
    BY <1>1, <2>2 DEF BlockIn
<1> QED
  BY <1>1, <1>2, <1>3, <1>4 DEF OneFile

(* A call that writes the text s at the end of the file fl. *)
Continues(v, fl, r, s) ==
  /\ OneFile(v, r.vol, fl.inode)
  /\ r.file.inode = fl.inode /\ r.file.mode = fl.mode /\ r.file.ptr = fl.ptr + Len(s)
  /\ Grows(v, fl, r.vol, r.file, fl.inode, s)

(* The texts of all files, then. *)
LEMMA WrittenTexts ==
  ASSUME NEW v, NEW fl, Sane(v, fl), fl # NULL, ~Reads(fl),
         NEW s \in Seq(CHARS), Len(s) \in 1 .. BLOCK_SIZE - (fl.length % BLOCK_SIZE),
         NEW r, Continues(v, fl, r, s), NEW j \in InodesOf(v)
  PROVE  TextIn(r.vol, r.file, j) = IF j = fl.inode THEN TextIn(v, fl, j) \o s
                                    ELSE TextIn(v, fl, j)
<1> DEFINE i == fl.inode
<1>1. i \in InodesOf(v)
  BY DEF Sane, Consistent, OpenFile
<1>2. CASE j = i
  <2>1. WrittenBy(fl, j) /\ Grows(v, fl, r.vol, r.file, j, s)
    BY <1>2 DEF WrittenBy, Continues
  <2> QED
    BY <1>2, <2>1, TextGrown
<1>3. CASE j # i
  <2>1. ~WrittenBy(fl, j) /\ ~WrittenBy(r.file, j) /\ SameFile(v, r.vol, j)
    BY <1>3 DEF WrittenBy, Continues, OneFile
  <2> QED
    BY <1>3, <2>1, TextKept
<1> QED
  BY <1>2, <1>3

(* What is known of the file that is written. *)
LEMMA AtItsEnd ==
  ASSUME NEW v, NEW fl, Sane(v, fl), fl # NULL, ~Reads(fl)
  PROVE  LET L == fl.length IN
         /\ Owned(v) /\ Writes(v, fl) /\ fl \in OFiles /\ fl.inode \in InodesOf(v)
         /\ fl.ptr = L /\ L \in Nat /\ L \in 0 .. MAX_LENGTH
         /\ L % BLOCK_SIZE \in 0 .. BLOCK_SIZE - 1 /\ L \div BLOCK_SIZE \in Nat
         /\ BLOCK_SIZE \in Nat /\ BLOCK_SIZE >= 2
         /\ Cardinality(DataOf(v, fl.inode))
              = (L \div BLOCK_SIZE) + (IF L % BLOCK_SIZE = 0 THEN 0 ELSE 1)
<1> DEFINE L == fl.length
<1>1. Writes(v, fl) /\ fl.ptr = L /\ InProgress(v, fl) /\ Owned(v)
  BY OpenWrites DEF Sane
<1>2. fl \in OFiles /\ fl.inode \in InodesOf(v)
  BY <1>1 DEF Writes
<1>3. L \in Nat /\ L \in 0 .. MAX_LENGTH
  BY <1>2, OFileFields
<1>4. Cardinality(DataOf(v, fl.inode)) = Blocks(L)
  BY <1>1 DEF InProgress
<1> HIDE DEF L
<1>5. /\ L % BLOCK_SIZE \in 0 .. BLOCK_SIZE - 1 /\ L \div BLOCK_SIZE \in Nat
      /\ Blocks(L) = (L \div BLOCK_SIZE) + (IF L % BLOCK_SIZE = 0 THEN 0 ELSE 1)
  BY <1>3, BlocksAre
<1>6. BLOCK_SIZE \in Nat /\ BLOCK_SIZE >= 2
  BY SgfAssumption
<1> QED
  BY <1>1, <1>2, <1>3, <1>4, <1>5, <1>6, Zenon DEF L

(* The OFILE, the character c being put at k. *)
Put(fl, k, c) == [fl EXCEPT !.buffer[k] = c, !.length = @ + 1]
(* Its fields. *)
LEMMA PutFields ==
  ASSUME NEW fl \in OFiles, NEW k \in Indices, NEW c \in CHARS, fl.length + 1 <= MAX_LENGTH,
         NEW put, put = Put(fl, k, c)
  PROVE  /\ put \in OFiles /\ put.length = fl.length + 1 /\ put.ptr = fl.ptr
         /\ put.inode = fl.inode /\ put.mode = fl.mode
         /\ put.current = fl.current /\ put.last = fl.last
         /\ put.buffer[k] = c /\ \A j \in Indices : j # k => put.buffer[j] = fl.buffer[j]
<1>1. fl.length + 1 \in 0 .. MAX_LENGTH
  BY OFileFields
<1>2. fl.buffer \in [Indices -> CHARS \cup {Junk}]
  BY DEF OFiles
<1> QED
  BY <1>1, <1>2 DEF OFiles, Put

(* The position one further. *)
LEMMA FurtherFields ==
  ASSUME NEW gl \in OFiles, gl.ptr + 1 \in 0 .. MAX_LENGTH
  PROVE  /\ Further(gl) \in OFiles
         /\ Further(gl).ptr = gl.ptr + 1 /\ Further(gl).inode = gl.inode
         /\ Further(gl).mode = gl.mode /\ Further(gl).length = gl.length
         /\ Further(gl).buffer = gl.buffer
BY DEF OFiles, Further

(* What makes a text grow, as the cases of sgf_putc() and sgf_write() show *)
(* it: gl is the OFILE with s in its buffer, w the volume after the call.  *)
LEMMA GrowsTo ==
  ASSUME NEW v, NEW fl, Sane(v, fl), fl # NULL, ~Reads(fl), NEW s \in Seq(CHARS),
         NEW w, NEW gl \in OFiles, gl.inode = fl.inode, gl.mode = fl.mode,
         gl.length = fl.length + Len(s), NEW k, k = fl.length % BLOCK_SIZE,
         \A j \in 0 .. k - 1 : gl.buffer[j] = fl.buffer[j],
         \A j \in 1 .. Len(s) : gl.buffer[k + j - 1] = s[j],
         NEW q, q = fl.length \div BLOCK_SIZE,
         \A n \in 0 .. q - 1 : BlockIn(w, fl.inode, n) = BlockIn(v, fl.inode, n),
         (fl.length + Len(s)) % BLOCK_SIZE = 0 => BlockIn(w, fl.inode, q) = gl.buffer
  PROVE  Grows(v, fl, w, gl, fl.inode, s)
<1>1. WrittenBy(gl, fl.inode)
  BY NullAssumption DEF WrittenBy, Reads
<1> QED
  BY <1>1 DEF Grows

(* sgf_putc() adds its character to the text. *)
LEMMA PutcText ==
  ASSUME NEW v, NEW fl, Sane(v, fl), fl # NULL, ~Reads(fl), NEW c \in CHARS,
         fl.length + 1 <= MAX_LENGTH, NEW r, r = sgf_putc(v, fl, c), ~r.perdu
  PROVE  Continues(v, fl, r, <<c>>)
<1> DEFINE L == fl.length
           k == fl.ptr % BLOCK_SIZE
           q == L \div BLOCK_SIZE
           i == fl.inode
           put == Put(fl, k, c)
           M == L + 1
           n == Cardinality(DataOf(v, i))
           x == IF k = BLOCK_SIZE - 1 THEN Flush(v, put)
                ELSE IF k = 0 THEN sgf_append_block(v, put)
                ELSE Result(v, put)
<1>1. /\ Owned(v) /\ Writes(v, fl) /\ fl \in OFiles /\ i \in InodesOf(v)
      /\ fl.ptr = L /\ L \in Nat /\ k = L % BLOCK_SIZE
      /\ k \in 0 .. BLOCK_SIZE - 1 /\ q \in Nat /\ BLOCK_SIZE \in Nat /\ BLOCK_SIZE >= 2
      /\ n = q + (IF k = 0 THEN 0 ELSE 1)
  BY AtItsEnd
<1>2. M \in 0 .. MAX_LENGTH /\ M \in Nat
  <2>1. MAX_LENGTH \in Nat /\ L + 1 <= MAX_LENGTH
    BY SgfAssumption
  <2> HIDE DEF L
  <2> QED
    BY <1>1, <2>1
<1>3. IF k + 1 = BLOCK_SIZE THEN TRUE ELSE M % BLOCK_SIZE # 0
  <2>1. 1 \in 1 .. BLOCK_SIZE - (L % BLOCK_SIZE)
    BY <1>1
  <2> HIDE DEF L
  <2>2. (L % BLOCK_SIZE) + 1 # BLOCK_SIZE => (L + 1) % BLOCK_SIZE = (L % BLOCK_SIZE) + 1
    BY <1>1, <2>1, BlocksGrow
  <2> HIDE DEF k
  <2> QED
    BY <1>1, <2>2
<1>4. /\ put \in OFiles /\ put.length = M /\ put.ptr = L /\ put.inode = i /\ put.mode = fl.mode
      /\ put.current = fl.current /\ put.last = fl.last
      /\ put.buffer[k] = c /\ \A j \in 0 .. k - 1 : put.buffer[j] = fl.buffer[j]
  <2>1. k \in Indices
    BY <1>1 DEF Indices
  <2> HIDE DEF k
  <2>2. /\ put \in OFiles /\ put.length = M /\ put.ptr = fl.ptr /\ put.inode = i
        /\ put.mode = fl.mode /\ put.current = fl.current /\ put.last = fl.last
        /\ put.buffer[k] = c /\ \A j \in Indices : j # k => put.buffer[j] = fl.buffer[j]
    BY <1>1, <2>1, PutFields
  <2> HIDE DEF put
  <2>3. \A j \in 0 .. k - 1 : j \in Indices /\ j # k
    BY <1>1 DEF Indices
  <2> QED
    BY <1>1, <2>2, <2>3
<1>5. r = [x EXCEPT !.file.ptr = @ + 1]
  BY DEF sgf_putc, Put
<1> HIDE DEF put, L, k, q, M, n, i
<1>6. ASSUME NEW w, NEW gl \in OFiles, x = Result(w, gl), OneFile(v, w, i),
             gl.inode = i, gl.mode = fl.mode, gl.ptr = L, gl.length = M, gl.buffer = put.buffer,
             \A b \in 0 .. q - 1 : BlockIn(w, i, b) = BlockIn(v, i, b),
             M % BLOCK_SIZE = 0 => BlockIn(w, i, q) = gl.buffer
      PROVE  Continues(v, fl, r, <<c>>)
  <2> DEFINE hl == Further(gl)
  <2>1. r = Result(w, hl)
    BY <1>5, <1>6, Stepped
  <2>2. r.vol = w /\ r.file = hl
    BY <2>1, ResultFields
  <2>3. gl.ptr + 1 \in 0 .. MAX_LENGTH
    BY <1>2, <1>6 DEF M
  <2>4. /\ hl \in OFiles /\ hl.ptr = L + 1 /\ hl.inode = i /\ hl.mode = fl.mode
        /\ hl.length = M /\ hl.buffer = put.buffer
    BY <1>6, <2>3, FurtherFields
  <2> HIDE DEF hl
  <2>5. <<c>> \in Seq(CHARS) /\ Len(<<c>>) = 1 /\ <<c>>[1] = c
    OBVIOUS
  <2> DEFINE s == <<c>>
  <2> HIDE DEF s
  <2>6. s \in Seq(CHARS) /\ Len(s) = 1 /\ s[1] = c
    BY <2>5 DEF s
  <2>7. \A j \in 1 .. Len(s) : hl.buffer[k + j - 1] = s[j]
    BY <1>1, <1>4, <2>4, <2>6
  <2>8. hl.length = fl.length + Len(s) /\ M = fl.length + Len(s)
    BY <2>4, <2>6 DEF M, L
  <2>9. k = fl.length % BLOCK_SIZE /\ q = fl.length \div BLOCK_SIZE /\ i = fl.inode
    BY <1>1 DEF q, i, L
  <2>10. \A j \in 0 .. k - 1 : hl.buffer[j] = fl.buffer[j]
    BY <1>4, <2>4
  <2>11. M % BLOCK_SIZE = 0 => BlockIn(w, i, q) = hl.buffer
    BY <1>6, <2>4
  <2>12. Grows(v, fl, w, hl, fl.inode, s)
    BY <1>6, <2>4, <2>6, <2>7, <2>8, <2>9, <2>10, <2>11, GrowsTo
  <2> QED
    BY <1>1, <1>6, <2>2, <2>4, <2>6, <2>9, <2>12 DEF Continues, s
<1>7. CASE k = BLOCK_SIZE - 1
  <2> DEFINE w == x.vol
  <2>1. x = Flush(v, put) /\ k # 0
    BY <1>1, <1>7
  <2> HIDE DEF x
  <2>2. Writes(v, put)
    BY <1>1, <1>4 DEF Writes, Reads, i
  <2>3. n = q + 1 /\ n # 0 /\ n - 1 = q
    BY <1>1, <2>1
  <2>4. put.current \in DataOf(v, put.inode)
    BY <1>1, <1>4, <2>2, <2>3, CurrentIsBlock DEF n
  <2>5. FlushedTo(v, put, w) /\ x = Result(w, put)
    BY <1>1, <1>4, <2>1, <2>4, Flushed
  <2> HIDE DEF w
  <2>6. /\ OneFile(v, w, i) /\ BlockIn(w, i, n - 1) = put.buffer
        /\ \A b \in 0 .. n - 2 : BlockIn(w, i, b) = BlockIn(v, i, b)
    BY <1>1, <1>4, <2>2, <2>3, <2>5, FlushBlocks DEF n
  <2>7. \A b \in 0 .. q - 1 : b \in 0 .. n - 2
    BY <1>1, <2>3
  <2> QED
    BY <1>4, <1>6, <2>3, <2>5, <2>6, <2>7
<1>8. CASE k = 0 /\ k # BLOCK_SIZE - 1
  <2> DEFINE w == x.vol
             a == alloc_block(v.fat)
             gl == Linked(put, a)
  <2>1. x = sgf_append_block(v, put)
    BY <1>8
  <2> HIDE DEF x
  <2>2. Free(v.fat) # {}
    <3> SUFFICES ASSUME Free(v.fat) = {} PROVE FALSE
      OBVIOUS
    <3>1. x = Lost(v, put)
      BY <2>1, <2>2 DEF sgf_append_block
    <3>2. r = Lost(v, Further(put))
      BY <1>5, <3>1, Stepped
    <3> QED
      BY <3>2, ResultFlags
  <2>3. put.current = v.disk[put.inode].last /\ put.inode \in InodesOf(v)
    BY <1>1, <1>4 DEF Writes, i
  <2>4. AppendedTo(v, put, w, a) /\ x = Result(w, gl)
    <3>1. a = alloc_block(v.fat) /\ put \in OFiles
      BY <1>4
    <3> HIDE DEF a
    <3>2. AppendedTo(v, put, x.vol, a) /\ x = Result(x.vol, Linked(put, a))
      <4>1. Owned(v) /\ put \in OFiles /\ a = alloc_block(v.fat)
        BY <1>1, <3>1
      <4> HIDE DEF w
      <4> QED
        BY <2>1, <2>2, <2>3, <4>1, BlockAppended
    <3> QED
      BY <3>2
  <2> HIDE DEF w, a
  <2>5. OneFile(v, w, i) /\ \A b \in 0 .. n - 1 : BlockIn(w, i, b) = BlockIn(v, i, b)
    BY <1>1, <1>4, <2>4, AppendBlocks DEF n
  <2>6. a \in Blocs
    BY <2>4 DEF AppendedTo
  <2>7. /\ gl \in OFiles /\ gl.inode = i /\ gl.mode = fl.mode /\ gl.ptr = L /\ gl.length = M
        /\ gl.buffer = put.buffer
    BY <1>4, <2>6 DEF Linked, OFiles
  <2> HIDE DEF gl
  <2>8. n = q /\ M % BLOCK_SIZE # 0
    BY <1>1, <1>3, <1>8
  <2> QED
    BY <1>6, <2>4, <2>5, <2>7, <2>8
<1>9. CASE k # 0 /\ k # BLOCK_SIZE - 1
  <2>1. x = Result(v, put)
    BY <1>9
  <2> HIDE DEF x
  <2>2. OneFile(v, v, i)
    BY DEF OneFile, SameNames, SameFile
  <2>3. M % BLOCK_SIZE # 0
    BY <1>1, <1>3, <1>9
  <2> QED
    BY <1>4, <1>6, <2>1, <2>2, <2>3
<1> QED
  BY <1>7, <1>8, <1>9

(* The buffer after characters were copied to it. *)
LEMMA FilledBuffer ==
  ASSUME NEW hl \in OFiles, NEW n \in 0 .. MAX_LENGTH, NEW k \in Indices, NEW s \in Seq(CHARS),
         Len(s) \in 1 .. BLOCK_SIZE - k
  PROVE  LET b == Filled(hl, n, k, s).buffer IN
         /\ \A j \in 0 .. k - 1 : b[j] = hl.buffer[j]
         /\ \A j \in 1 .. Len(s) : b[k + j - 1] = s[j]
<1> DEFINE m == Len(s)
           f == [j \in Indices |-> IF j \in k .. k + m - 1 THEN s[j - k + 1] ELSE hl.buffer[j]]
<1>1. Filled(hl, n, k, s).buffer = f
  BY DEF Filled, OFiles
<1>2. k \in Nat /\ k \in 0 .. BLOCK_SIZE - 1 /\ BLOCK_SIZE \in Nat /\ m \in 1 .. BLOCK_SIZE - k
  BY SgfAssumption DEF Indices
<1> HIDE DEF m
<1>3. ASSUME NEW j \in 0 .. k - 1 PROVE f[j] = hl.buffer[j]
  <2>1. j \in Indices /\ j \notin k .. k + m - 1
    BY <1>2 DEF Indices
  <2> QED
    BY <2>1
<1>4. ASSUME NEW j \in 1 .. m PROVE f[k + j - 1] = s[j]
  <2> DEFINE z == k + j - 1
  <2>1. z \in Indices /\ z \in k .. k + m - 1 /\ z - k + 1 = j
    BY <1>2 DEF Indices
  <2> HIDE DEF z
  <2>2. f[z] = s[z - k + 1]
    BY <2>1
  <2> QED
    BY <2>1, <2>2 DEF z
<1> HIDE DEF f
<1> QED
  BY <1>1, <1>3, <1>4 DEF m

(* An outcome whose loss is replaced. *)
LEMMA LossyFields ==
  ASSUME NEW w, NEW gl, NEW b
  PROVE  /\ Lossy(Result(w, gl), b).vol = w /\ Lossy(Result(w, gl), b).file = gl
         /\ Lossy(Result(w, gl), b).perdu = b /\ Lossy(Panic(w, gl), b).perdu = b
<1> DEFINE no == FALSE
           yes == TRUE
<1>1. Result(w, gl) = Outcome(w, gl, no, no) /\ Panic(w, gl) = Outcome(w, gl, no, yes)
  BY Outcomes, Zenon
<1> HIDE DEF no, yes
<1>2. \A pd, pa : Lossy(Outcome(w, gl, pd, pa), b) = Outcome(w, gl, b, pa)
  BY OutcomeSet DEF Lossy
<1>3. Lossy(Result(w, gl), b) = Outcome(w, gl, b, no) /\ Lossy(Panic(w, gl), b) = Outcome(w, gl, b, yes)
  BY <1>1, <1>2
<1> QED
  BY <1>3, OutcomeSet

(* sgf_write() adds its part of the text, whole. *)
LEMMA ChunkText ==
  ASSUME NEW v, NEW fl, Sane(v, fl), fl # NULL, ~Reads(fl), NEW s \in Seq(CHARS),
         Len(s) \in 1 .. BLOCK_SIZE - (fl.ptr % BLOCK_SIZE),
         fl.length + Len(s) <= MAX_LENGTH, NEW r, r = WriteChunk(v, fl, s), ~r.perdu
  PROVE  Continues(v, fl, r, s)
<1> DEFINE L == fl.length
           k == fl.ptr % BLOCK_SIZE
           q == L \div BLOCK_SIZE
           i == fl.inode
           M == L + Len(s)
           n == Cardinality(DataOf(v, i))
           r0 == IF k = 0 THEN sgf_append_block(v, fl) ELSE Result(v, fl)
           x == Flush(r0.vol, Filled(r0.file, M, k, s))
<1>1. /\ Owned(v) /\ Writes(v, fl) /\ fl \in OFiles /\ i \in InodesOf(v)
      /\ fl.ptr = L /\ L \in Nat /\ k = L % BLOCK_SIZE
      /\ k \in 0 .. BLOCK_SIZE - 1 /\ q \in Nat /\ BLOCK_SIZE \in Nat /\ BLOCK_SIZE >= 2
      /\ n = q + (IF k = 0 THEN 0 ELSE 1)
  BY AtItsEnd
<1>2. M \in 0 .. MAX_LENGTH /\ k \in Indices /\ Len(s) \in 1 .. BLOCK_SIZE - k /\ Len(s) \in Nat
  <2>1. MAX_LENGTH \in Nat /\ L + Len(s) <= MAX_LENGTH /\ Len(s) \in Nat
        /\ Len(s) \in 1 .. BLOCK_SIZE - k
    BY SgfAssumption
  <2> HIDE DEF L, k
  <2> QED
    BY <1>1, <2>1 DEF Indices
<1>3. r = Lossy(x, r0.perdu)
  BY Zenon DEF WriteChunk, Filled, Lossy
<1>4. r.perdu = r0.perdu
  <2> DEFINE u == r0.vol
             gl == Filled(r0.file, M, k, s)
  <2>1. x = Result(x.vol, gl) \/ x = Panic(u, gl)
    <3>1. x = Flush(u, gl)
      OBVIOUS
    <3> HIDE DEF u, gl, x
    <3>2. x = Panic(u, gl) \/ \E w : x = Result(w, gl)
      BY <3>1, Zenon DEF Flush
    <3>3. \A w : Result(w, gl).vol = w
      BY ResultFields
    <3> QED
      BY <3>2, <3>3
  <2> HIDE DEF u, gl, x, r0
  <2> QED
    BY <1>3, <2>1, LossyFields
<1> HIDE DEF L, k, q, M, n, i
<1>5. ASSUME NEW u, Owned(u), NEW hl, Writes(u, hl), r0.vol = u, r0.file = hl,
             hl.inode = i, hl.mode = fl.mode, hl.buffer = fl.buffer, OneFile(v, u, i),
             Cardinality(DataOf(u, i)) = q + 1,
             \A b \in 0 .. q - 1 : BlockIn(u, i, b) = BlockIn(v, i, b)
      PROVE  Continues(v, fl, r, s)
  <2> DEFINE gl == Filled(hl, M, k, s)
             w == x.vol
  <2>1. hl \in OFiles /\ k \in Nat
    BY <1>1, <1>5 DEF Writes
  <2>2. /\ gl \in OFiles /\ gl.length = M /\ gl.ptr = M /\ gl.inode = hl.inode
        /\ gl.current = hl.current /\ gl.last = hl.last /\ gl.mode = hl.mode
    BY <1>2, <2>1, FilledFields
  <2>3. /\ \A j \in 0 .. k - 1 : gl.buffer[j] = hl.buffer[j]
        /\ \A j \in 1 .. Len(s) : gl.buffer[k + j - 1] = s[j]
    BY <1>2, <2>1, FilledBuffer
  <2>4. x = Flush(u, gl)
    BY <1>5
  <2> HIDE DEF gl, x
  <2>5. Writes(u, gl) /\ gl.inode \in InodesOf(u)
    BY <1>5, <2>2 DEF Writes, Reads
  <2>6. q + 1 # 0 /\ (q + 1) - 1 = q /\ (q + 1) - 2 = q - 1
    BY <1>1
  <2>7. gl.current \in DataOf(u, gl.inode)
    BY <1>5, <2>2, <2>5, <2>6, CurrentIsBlock
  <2>8. FlushedTo(u, gl, w) /\ x = Result(w, gl)
    BY <1>5, <2>2, <2>4, <2>5, <2>7, Flushed
  <2> HIDE DEF w
  <2>9. /\ OneFile(u, w, i) /\ BlockIn(w, i, q) = gl.buffer
        /\ \A b \in 0 .. q - 1 : BlockIn(w, i, b) = BlockIn(u, i, b)
    <3> DEFINE c == q + 1
    <3>1. c = Cardinality(DataOf(u, i)) /\ c # 0 /\ c - 1 = q /\ c - 2 = q - 1
      BY <1>5, <2>6
    <3> HIDE DEF c
    <3>2. /\ OneFile(u, w, i) /\ BlockIn(w, i, c - 1) = gl.buffer
          /\ \A b \in 0 .. c - 2 : BlockIn(w, i, b) = BlockIn(u, i, b)
      BY <1>5, <2>2, <2>5, <2>8, <3>1, FlushBlocks
    <3> QED
      BY <3>1, <3>2
  <2>10. OneFile(v, w, i)
    BY <1>5, <2>9, OneFileTwice
  <2>11. r.vol = w /\ r.file = gl
    BY <1>3, <2>8, LossyFields
  <2>12. M = fl.length + Len(s) /\ k = fl.length % BLOCK_SIZE /\ q = fl.length \div BLOCK_SIZE
         /\ i = fl.inode
    BY <1>1 DEF M, L, q, i
  <2>13. Grows(v, fl, w, gl, fl.inode, s)
    <3>1. gl \in OFiles /\ gl.inode = fl.inode /\ gl.mode = fl.mode
          /\ gl.length = fl.length + Len(s)
      BY <1>5, <2>2, <2>12
    <3>2. /\ \A j \in 0 .. k - 1 : gl.buffer[j] = fl.buffer[j]
          /\ \A j \in 1 .. Len(s) : gl.buffer[k + j - 1] = s[j]
      BY <1>5, <2>3
    <3>3. /\ \A b \in 0 .. q - 1 : BlockIn(w, fl.inode, b) = BlockIn(v, fl.inode, b)
          /\ (fl.length + Len(s)) % BLOCK_SIZE = 0 => BlockIn(w, fl.inode, q) = gl.buffer
      BY <1>5, <2>9, <2>12
    <3>4. k = fl.length % BLOCK_SIZE /\ q = fl.length \div BLOCK_SIZE
      BY <2>12
    <3> QED
      BY <3>1, <3>2, <3>3, <3>4, GrowsTo
  <2>14. gl.ptr = fl.ptr + Len(s)
    BY <1>1, <2>2, <2>12 DEF L
  <2> QED
    BY <1>5, <2>2, <2>10, <2>11, <2>12, <2>13, <2>14 DEF Continues
<1>6. CASE k = 0
  <2> DEFINE u == r0.vol
             a == alloc_block(v.fat)
             hl == Linked(fl, a)
  <2>1. r0 = sgf_append_block(v, fl)
    BY <1>6
  <2> HIDE DEF r0, x
  <2>2. Free(v.fat) # {}
    <3> SUFFICES ASSUME Free(v.fat) = {} PROVE FALSE
      OBVIOUS
    <3>1. r0 = Lost(v, fl)
      BY <2>1, <2>2 DEF sgf_append_block
    <3> QED
      BY <1>4, <3>1, ResultFlags
  <2>3. fl.current = v.disk[fl.inode].last /\ fl.inode \in InodesOf(v)
    BY <1>1 DEF Writes, i
  <2>4. AppendedTo(v, fl, u, a) /\ r0 = Result(u, hl)
    <3>1. a = alloc_block(v.fat) /\ Owned(v) /\ fl \in OFiles
      BY <1>1
    <3> HIDE DEF a, u
    <3>2. AppendedTo(v, fl, r0.vol, a) /\ r0 = Result(r0.vol, Linked(fl, a))
      BY <2>1, <2>2, <2>3, <3>1, BlockAppended
    <3> QED
      BY <3>2 DEF u
  <2> HIDE DEF u, a
  <2>5. n = q
    BY <1>1, <1>6
  <2>6. /\ OneFile(v, u, i) /\ Owned(u) /\ Cardinality(DataOf(u, i)) = q + 1
        /\ \A b \in 0 .. q - 1 : BlockIn(u, i, b) = BlockIn(v, i, b)
    BY <1>1, <2>4, <2>5, AppendBlocks DEF n, i
  <2>7. /\ a \in Blocs /\ a \in DataOf(u, i) /\ u.disk[i].last = a /\ i \in InodesOf(u)
    BY <1>1, <2>4 DEF AppendedTo, i
  <2>8. /\ hl \in OFiles /\ hl.inode = i /\ hl.mode = fl.mode /\ hl.buffer = fl.buffer
        /\ hl.current = a /\ hl.last = a
    BY <1>1, <2>7 DEF Linked, OFiles, i
  <2> HIDE DEF hl
  <2>9. Writes(u, hl)
    BY <2>7, <2>8 DEF Writes, Reads
  <2>10. r0.vol = u /\ r0.file = hl
    BY <2>4, ResultFields
  <2> QED
    BY <1>5, <2>6, <2>8, <2>9, <2>10
<1>7. CASE k # 0
  <2>1. r0 = Result(v, fl)
    BY <1>7
  <2> HIDE DEF r0, x
  <2>2. r0.vol = v /\ r0.file = fl
    BY <2>1, ResultFields
  <2>3. OneFile(v, v, i)
    BY DEF OneFile, SameNames, SameFile
  <2>4. Cardinality(DataOf(v, i)) = q + 1
    BY <1>1, <1>7 DEF n
  <2>5. fl.inode = i
    BY DEF i
  <2> QED
    BY <1>1, <1>5, <2>2, <2>3, <2>4, <2>5
<1> QED
  BY <1>6, <1>7

-----------------------------------------------------------------------------
(* A call that leaves every name and every text as it was. *)
SameTexts(v, fl, w, gl) ==
  /\ InodesOf(w) = InodesOf(v) /\ SameNames(v, w)
  /\ \A j \in InodesOf(v) : TextIn(w, gl, j) = TextIn(v, fl, j)

(* The texts are those of the FAT and the blocks, and of the file that is  *)
(* being written.                                                          *)
LEMMA TextsDepend ==
  ASSUME NEW v, Owned(v), NEW w, IsVolume(w), w.fat = v.fat, w.disk = v.disk,
         NEW fl, NEW gl, (\A j : ~WrittenBy(fl, j) /\ ~WrittenBy(gl, j)) \/ gl = fl
  PROVE  SameTexts(v, fl, w, gl)
<1>1. InodesOf(w) = InodesOf(v) /\ SameNames(v, w)
  BY SameOwned
<1>2. ASSUME NEW j, gl = fl \/ (~WrittenBy(fl, j) /\ ~WrittenBy(gl, j))
      PROVE  TextIn(w, gl, j) = TextIn(v, fl, j)
  <2>1. LengthIn(w, gl, j) = LengthIn(v, fl, j)
    BY <1>2 DEF LengthIn
  <2>2. \A k : CharIn(w, gl, j, k) = CharIn(v, fl, j, k)
    BY <1>2 DEF CharIn, Buffered, OnChain
  <2> QED
    BY <2>1, <2>2 DEF TextIn
<1> QED
  BY <1>1, <1>2 DEF SameTexts

(* A text that is in its blocks reads from there as it did with its last   *)
(* block in the buffer.                                                    *)
LEMMA WrittenOut ==
  ASSUME NEW v, NEW gl, NEW i, WrittenBy(gl, i), NEW L \in Nat, L = gl.length,
         NEW w, w.disk[i].length = L, NEW q, q = L \div BLOCK_SIZE,
         \A b \in 0 .. q - 1 : BlockIn(w, i, b) = BlockIn(v, i, b),
         L % BLOCK_SIZE # 0 => BlockIn(w, i, q) = gl.buffer
  PROVE  TextIn(w, NULL, i) = TextIn(v, gl, i)
<1>1. LengthIn(v, gl, i) = L /\ LengthIn(w, NULL, i) = L
  BY DEF LengthIn, WrittenBy
<1>2. ASSUME NEW k \in 0 .. L - 1 PROVE CharIn(w, NULL, i, k) = CharIn(v, gl, i, k)
  <2> DEFINE b == k \div BLOCK_SIZE
  <2>1. 1 \in 1 .. BLOCK_SIZE - (L % BLOCK_SIZE) /\ k \in 0 .. L + 1 - 1
    <3>1. L % BLOCK_SIZE \in 0 .. BLOCK_SIZE - 1 /\ BLOCK_SIZE \in Nat
      BY BlocksAre, SgfAssumption
    <3> QED
      BY <3>1
  <2>2. /\ b \in 0 .. q /\ q \in Nat
        /\ b = q => L % BLOCK_SIZE # 0
    <3>1. k < L /\ q \in Nat
      BY BlocksAre
    <3> QED
      BY <2>1, <3>1, PlaceAdded
  <2>3. CharIn(w, NULL, i, k) = BlockIn(w, i, b)[k % BLOCK_SIZE]
    BY DEF CharIn, Buffered, WrittenBy, OnChain, BlockIn
  <2>4. CharIn(v, gl, i, k) = IF b = q /\ L % BLOCK_SIZE # 0 THEN gl.buffer[k % BLOCK_SIZE]
                              ELSE BlockIn(v, i, b)[k % BLOCK_SIZE]
    BY DEF CharIn, Buffered, OnChain, BlockIn
  <2> HIDE DEF b
  <2>5. CASE b = q
    BY <2>2, <2>3, <2>4, <2>5
  <2>6. CASE b # q
    <3>1. b \in 0 .. q - 1
      BY <2>2, <2>6
    <3> QED
      BY <2>3, <2>4, <2>6, <3>1
  <2> QED
    BY <2>5, <2>6
<1> QED
  BY <1>1, <1>2, SameText

(* sgf_close() loses nothing of any text. *)
LEMMA CloseText ==
  ASSUME NEW v, NEW fl, Sane(v, fl), fl # NULL, NEW r, r = CloseFile(v, fl)
  PROVE  /\ r.file = NULL /\ r.perdu = FALSE /\ r.panique = FALSE
         /\ SameTexts(v, fl, r.vol, NULL)
<1> DEFINE k == fl.ptr % BLOCK_SIZE
           i == fl.inode
           x == IF k # 0 THEN Flush(v, fl) ELSE Result(v, fl)
<1>1. /\ Owned(v) /\ Leading(v) /\ Consistent(v, fl, FALSE)
      /\ fl \in OFiles /\ i \in InodesOf(v)
  BY DEF Sane, Consistent, OpenFile
<1>2. r = Closing(x)
  BY DEF CloseFile, Closing
<1>3. ASSUME NEW w, r = Result(w, NULL)
      PROVE  r.vol = w /\ r.file = NULL /\ r.perdu = FALSE /\ r.panique = FALSE
  <2>1. r.vol = w /\ r.file = NULL
    BY <1>3, ResultFields
  <2>2. Result(w, NULL).perdu = FALSE /\ Result(w, NULL).panique = FALSE
    BY ResultFlags
  <2> QED
    BY <1>3, <2>1, <2>2, Zenon
<1>4. CASE Reads(fl)
  <2>1. Good(r, FALSE) /\ Harmless(v, r)
    BY <1>1, <1>4, CloseReads
  <2>2. IsVolume(r.vol) /\ r.vol.fat = v.fat /\ r.vol.disk = v.disk
    BY <2>1 DEF Good, Owned, Harmless
  <2>3. \A j : ~WrittenBy(fl, j) /\ ~WrittenBy(NULL, j)
    BY <1>4 DEF WrittenBy
  <2>4. SameTexts(v, fl, r.vol, NULL)
    BY <1>1, <2>2, <2>3, TextsDepend
  <2>5. x = Panic(v, fl) \/ \E w : x = Result(w, fl)
    BY Zenon DEF Flush
  <2> HIDE DEF x
  <2>6. r = Panic(v, NULL) \/ \E w : r = Result(w, NULL)
    BY <1>2, <2>5, Closes
  <2>7. r.file = NULL
    BY <2>6, ResultFields
  <2> QED
    BY <2>1, <2>4, <2>7 DEF Harmless
<1>5. CASE ~Reads(fl)
  <2> DEFINE L == fl.length
             q == L \div BLOCK_SIZE
             n == Cardinality(DataOf(v, i))
  <2>1. /\ Writes(v, fl) /\ InProgress(v, fl) /\ fl.ptr = L /\ L \in Nat
        /\ k = L % BLOCK_SIZE /\ k \in 0 .. BLOCK_SIZE - 1 /\ q \in Nat
        /\ n = q + (IF k = 0 THEN 0 ELSE 1)
    BY <1>1, <1>5, AtItsEnd, OpenWrites
  <2>2. WrittenBy(fl, i) /\ \A j : j # i => ~WrittenBy(fl, j) /\ ~WrittenBy(NULL, j)
    BY <1>5 DEF WrittenBy
  <2>3. CASE k = 0
    <3>1. r = Result(v, NULL)
      BY <1>2, <2>3, Closes
    <3>2. v.disk[i].length = L
      <4> DEFINE d == q * BLOCK_SIZE
                 l == v.disk[i].length
      <4>1. d \in Nat /\ L = d + (L % BLOCK_SIZE)
        <5> HIDE DEF L
        <5> QED
          BY <2>1, BlocksAre
      <4>2. l \in Nat /\ d <= l /\ l <= L
        BY <1>1, <2>1, InodeFacts DEF InProgress
      <4> HIDE DEF d, L
      <4>3. l = L
        BY <2>1, <2>3, <4>1, <4>2
      <4> QED
        BY <4>3
    <3>3. TextIn(v, NULL, i) = TextIn(v, fl, i)
      <4>1. L = fl.length /\ q = L \div BLOCK_SIZE /\ L % BLOCK_SIZE = 0
        BY <2>1, <2>3
      <4> HIDE DEF L, q, i, k
      <4> QED
        BY <2>1, <2>2, <3>2, <4>1, WrittenOut
    <3>4. \A j \in InodesOf(v) : j # i => TextIn(v, NULL, j) = TextIn(v, fl, j)
      <4>1. \A j : SameFile(v, v, j)
        BY DEF SameFile
      <4> QED
        BY <2>2, <4>1, TextKept
    <3>5. SameTexts(v, fl, v, NULL)
      BY <3>3, <3>4 DEF SameTexts, SameNames
    <3> QED
      BY <1>3, <3>1, <3>5
  <2>4. CASE k # 0
    <3> DEFINE w == x.vol
    <3>1. x = Flush(v, fl) /\ n # 0 /\ n - 1 = q /\ n - 2 = q - 1
      <4> HIDE DEF n, q, k
      <4> QED
        BY <2>1, <2>4
    <3> HIDE DEF x
    <3>2. fl.current \in DataOf(v, fl.inode)
      BY <1>1, <2>1, <3>1, CurrentIsBlock
    <3>3. FlushedTo(v, fl, w) /\ x = Result(w, fl)
      BY <1>1, <3>1, <3>2, Flushed
    <3> HIDE DEF w
    <3>4. r = Result(w, NULL)
      BY <1>2, <3>3, Closes
    <3>5. /\ OneFile(v, w, i) /\ BlockIn(w, i, q) = fl.buffer
          /\ \A b \in 0 .. q - 1 : BlockIn(w, i, b) = BlockIn(v, i, b)
      <4> HIDE DEF q
      <4>1. /\ OneFile(v, w, i) /\ BlockIn(w, i, n - 1) = fl.buffer
            /\ \A b \in 0 .. n - 2 : BlockIn(w, i, b) = BlockIn(v, i, b)
        <5> HIDE DEF n
        <5> QED
          BY <1>1, <2>1, <3>1, <3>3, FlushBlocks DEF n
      <4> QED
        BY <3>1, <4>1
    <3>6. w.disk[i].length = L
      <4>1. v.disk[i] \in InodeRecords /\ L \in 0 .. MAX_LENGTH
        BY <1>1, InodeFacts, OFileFields
      <4>2. w.disk[i] = [v.disk[i] EXCEPT !.length = L]
        BY <3>3 DEF FlushedTo
      <4> QED
        BY <4>1, <4>2, InodeSet
    <3>7. TextIn(w, NULL, i) = TextIn(v, fl, i)
      <4>1. L = fl.length /\ q = L \div BLOCK_SIZE
        OBVIOUS
      <4> HIDE DEF L, q, i, k
      <4> QED
        BY <2>1, <2>2, <3>5, <3>6, <4>1, WrittenOut
    <3>8. \A j \in InodesOf(v) : j # i => TextIn(w, NULL, j) = TextIn(v, fl, j)
      BY <2>2, <3>5, TextKept DEF OneFile
    <3>9. SameTexts(v, fl, w, NULL)
      BY <3>5, <3>7, <3>8 DEF SameTexts, OneFile
    <3> QED
      BY <1>3, <3>4, <3>9
  <2> QED
    BY <2>3, <2>4
<1> QED
  BY <1>4, <1>5

(* The file i is open to append, and all texts are as they were. *)
KeptText(v, i, r) ==
  /\ r.vol = v /\ r.file # NULL /\ ~Reads(r.file) /\ r.file.inode = i
  /\ r.file.ptr = LengthIn(v, NULL, i) /\ SameTexts(v, NULL, v, r.file)

(* sgf_open() to append: the last block of the file is in the buffer now. *)
LEMMA AppendText ==
  ASSUME NEW v, Sane(v, NULL), NEW i \in InodesOf(v),
         NEW fl, fl = OFile(i, v.disk[i], v.disk[i].last, v.disk[i].length, APPEND_MODE),
         NEW r, r = IF fl.length % BLOCK_SIZE # 0
                    THEN sgf_read_bloc(v, fl, fl.ptr \div BLOCK_SIZE) ELSE Result(v, fl)
  PROVE  KeptText(v, i, r) /\ r.perdu = FALSE /\ r.panique = FALSE
<1> DEFINE ino == v.disk[i]
           L == ino.length
           q == L \div BLOCK_SIZE
<1>0. Owned(v) /\ Leading(v) /\ Consistent(v, NULL, FALSE) /\ \A j \in InodesOf(v) : Complete(v, j)
  BY DEF Sane, Consistent
<1>1. /\ i \in Blocs /\ ino \in InodeRecords /\ L \in Nat /\ L \in 0 .. MAX_LENGTH
      /\ ino.last \in DataOf(v, i) \cup {FAT_EOF} /\ ino.last \in Blocs \cup {FAT_EOF}
      /\ LET n == Cardinality(DataOf(v, i)) IN
         IF n = 0 THEN ino.last = FAT_EOF ELSE ino.last = Walk(v.fat, ino.first, n - 1)
  BY <1>0, InodeFacts
<1>2. /\ fl \in OFiles /\ fl # NULL /\ fl.inode = i /\ fl.current = ino.last /\ fl.ptr = L
      /\ fl.mode = APPEND_MODE /\ fl.length = L /\ fl.first = ino.first /\ fl.last = ino.last
  <2>1. fl = OFile(i, ino, ino.last, ino.length, APPEND_MODE)
    OBVIOUS
  <2> HIDE DEF ino
  <2> QED
    BY <1>1, <2>1, OFileIs
<1>3. LengthIn(v, NULL, i) = L
  BY DEF LengthIn, WrittenBy
<1>4. ASSUME NEW gl \in OFiles, gl.inode = i, gl.ptr = L, gl.length = L, gl.mode = fl.mode,
             L % BLOCK_SIZE # 0 => BlockIn(v, i, q) = gl.buffer, r = Result(v, gl)
      PROVE  KeptText(v, i, r) /\ r.perdu = FALSE /\ r.panique = FALSE
  <2>1. r.vol = v /\ r.file = gl
    BY <1>4, ResultFields
  <2>2. Result(v, gl).perdu = FALSE /\ Result(v, gl).panique = FALSE
    BY ResultFlags
  <2>3. r.perdu = FALSE /\ r.panique = FALSE
    BY <1>4, <2>2, Zenon
  <2>4. gl # NULL /\ ~Reads(gl)
    BY <1>2, <1>4, NullAssumption DEF Reads, READ_MODE, APPEND_MODE
  <2>5. WrittenBy(gl, i) /\ \A j : j # i => ~WrittenBy(gl, j) /\ ~WrittenBy(NULL, j)
    BY <1>4, <2>4 DEF WrittenBy
  <2>6. TextIn(v, NULL, i) = TextIn(v, gl, i)
    <3>1. L = gl.length /\ q = L \div BLOCK_SIZE /\ v.disk[i].length = L
      BY <1>4
    <3> HIDE DEF L, q
    <3> QED
      BY <1>1, <1>4, <2>5, <3>1, WrittenOut
  <2>7. \A j \in InodesOf(v) : j # i => TextIn(v, gl, j) = TextIn(v, NULL, j)
    <3>1. \A j : SameFile(v, v, j)
      BY DEF SameFile
    <3> QED
      BY <2>5, <3>1, TextKept DEF WrittenBy
  <2>8. SameTexts(v, NULL, v, gl)
    BY <2>6, <2>7 DEF SameTexts, SameNames
  <2> QED
    BY <1>3, <1>4, <2>1, <2>3, <2>4, <2>8, Zenon DEF KeptText
<1>5. CASE L % BLOCK_SIZE = 0
  <2>1. r = Result(v, fl)
    BY <1>2, <1>5
  <2> QED
    BY <1>2, <1>4, <1>5, <2>1, Zenon
<1>6. CASE L % BLOCK_SIZE # 0
  <2>1. r = sgf_read_bloc(v, fl, q)
    BY <1>2, <1>6
  <2>2. q \in Nat /\ Blocks(L) = q + 1 /\ BlockAt(L) = q
    <3> HIDE DEF L
    <3> QED
      BY <1>1, <1>6, BlocksAre, LastBlocks
  <2>3. ino.last = Walk(v.fat, ino.first, q)
    <3>1. Cardinality(DataOf(v, i)) = Blocks(L)
      BY <1>0 DEF Complete
    <3> HIDE DEF q, L, ino
    <3>2. Cardinality(DataOf(v, i)) = q + 1 /\ q + 1 # 0 /\ (q + 1) - 1 = q
      BY <2>2, <3>1
    <3> QED
      BY <1>1, <3>2
  <2> HIDE DEF q
  <2>4. q < Blocks(fl.length) /\ BlockAt(fl.ptr) = q
    BY <1>2, <2>2
  <2> HIDE DEF L
  <2>5. Complete(v, fl.inode) /\ fl.current = Walk(v.fat, fl.first, BlockAt(fl.ptr))
    BY <1>0, <1>2, <2>3, <2>4
  <2>6. fl.current \in DataOf(v, fl.inode) \cup {FAT_EOF}
    BY <1>1, <1>2
  <2>7. fl.length = v.disk[fl.inode].length /\ fl.first = v.disk[fl.inode].first
        /\ fl.inode \in InodesOf(v)
    BY <1>2 DEF L
  <2>8. Fetched(v, fl, q, FALSE, r)
    BY <1>0, <1>2, <2>1, <2>2, <2>4, <2>5, <2>6, <2>7, ReadStep
  <2>9. PICK adr \in DataOf(v, i), b \in Buffers :
          r = Result(v, Loaded(fl, adr, b)) /\ adr = Walk(v.fat, ino.first, q) /\ b = v.disk[adr]
    BY <1>2, <2>8 DEF Fetched
  <2>10. adr \in Blocs
    BY <1>0, DataMarked
  <2> DEFINE gl == Loaded(fl, adr, b)
  <2>11. /\ gl \in OFiles /\ gl.length = fl.length /\ gl.buffer = b
         /\ gl.inode = fl.inode /\ gl.ptr = fl.ptr /\ gl.mode = fl.mode
    BY <1>2, <2>10, LoadedFields
  <2>12. r = Result(v, gl)
    BY <2>9
  <2> HIDE DEF gl
  <2>13. BlockIn(v, i, q) = b
    BY <2>9, OctetsAre DEF BlockIn
  <2> QED
    BY <1>2, <1>4, <2>11, <2>12, <2>13 DEF q
<1> QED
  BY <1>5, <1>6, Zenon

(* What is opened to write is empty, and the others are as they were.      *)
EmptyText(v, nom, r) ==
  LET w == r.vol
      a == r.file.inode IN
  /\ Owned(w) /\ Leading(w) /\ a \in Blocs
  /\ r.file # NULL /\ ~Reads(r.file) /\ r.file.ptr = 0
  /\ a \in InodesOf(w) /\ find_inode(w, nom) = a /\ TextIn(w, r.file, a) = <<>>
  /\ \A x : x # nom => find_inode(w, x) = find_inode(v, x)
  /\ \A j \in InodesOf(w) : j # a => /\ j \in InodesOf(v)
                                     /\ TextIn(w, r.file, j) = TextIn(v, NULL, j)

(* sgf_open() to write, when the name was entered. *)
LEMMA NewText ==
  ASSUME NEW v, Sane(v, NULL), Free(v.fat) # {}, NEW nom \in NOMS,
         NEW r, r = NewFile(v, nom), ~r.perdu
  PROVE  EmptyText(v, nom, r) /\ r.panique = FALSE
<1> DEFINE w == r.vol
           fl == r.file
           a == fl.inode
<1>1. Owned(v) /\ Leading(v) /\ Consistent(v, NULL, FALSE)
  BY DEF Sane
<1>2. NewFileIn(v, nom, r)
  BY <1>1, NewFileMade
<1>3. /\ Owned(w) /\ Leading(w) /\ a \in InodesOf(w) /\ a \in Blocs
      /\ \A j \in InodesOf(w) : j # a => j \in InodesOf(v) /\ SameFile(v, w, j)
      /\ \A x : x # nom => find_inode(w, x) = find_inode(v, x)
      /\ find_inode(w, nom) = a
      /\ fl = OFile(a, EmptyInode, FAT_EOF, 0, WRITE_MODE)
  BY <1>2 DEF NewFileIn
<1>4. r.panique = FALSE
  BY <1>2, Zenon DEF NewFileIn
<1>5. EmptyInode \in InodeRecords /\ 0 \in 0 .. MAX_LENGTH /\ EmptyInode.length = 0
  BY SgfAssumption DEF EmptyInode, InodeRecords
<1> HIDE DEF w, fl, a
<1>6. fl # NULL /\ fl.inode = a /\ fl.ptr = 0 /\ fl.mode = WRITE_MODE /\ fl.length = 0
  BY <1>3, <1>5, OFileIs
<1>7. ~Reads(fl) /\ WrittenBy(fl, a) /\ \A j : j # a => ~WrittenBy(fl, j)
  BY <1>6 DEF Reads, READ_MODE, WRITE_MODE, WrittenBy
<1>8. TextIn(w, fl, a) = <<>>
  <2>1. LengthIn(w, fl, a) = 0
    BY <1>6, <1>7 DEF LengthIn
  <2> QED
    BY <2>1 DEF TextIn
<1>9. ASSUME NEW j \in InodesOf(w), j # a
      PROVE  j \in InodesOf(v) /\ TextIn(w, fl, j) = TextIn(v, NULL, j)
  <2>1. j \in InodesOf(v) /\ SameFile(v, w, j) /\ ~WrittenBy(fl, j) /\ ~WrittenBy(NULL, j)
    BY <1>3, <1>7, <1>9 DEF WrittenBy
  <2> QED
    BY <2>1, TextKept
<1> QED
  BY <1>3, <1>4, <1>6, <1>7, <1>8, <1>9, Zenon DEF EmptyText, w, fl, a

-----------------------------------------------------------------------------
(* The same file is open, at the same position, with another block loaded. *)
SameOpen(fl, gl) ==
  /\ gl \in OFiles /\ gl.inode = fl.inode /\ gl.mode = fl.mode /\ gl.ptr = fl.ptr
  /\ gl.length = fl.length

(* sgf_read_bloc() gives the block that is asked for. *)
LEMMA BlockRead ==
  ASSUME NEW v, NEW fl, Sane(v, fl), fl # NULL, Reads(fl),
         NEW nubloc \in Nat, nubloc < Blocks(fl.length),
         NEW r0, r0 = sgf_read_bloc(v, fl, nubloc)
  PROVE  \E gl : /\ r0 = Result(v, gl) /\ SameOpen(fl, gl)
                 /\ gl.buffer = BlockIn(v, fl.inode, nubloc)
<1> DEFINE i == fl.inode
<1>1. /\ Owned(v) /\ fl \in OFiles /\ i \in InodesOf(v)
      /\ fl.current \in DataOf(v, i) \cup {FAT_EOF}
      /\ fl.length = v.disk[i].length /\ fl.first = v.disk[i].first
      /\ Complete(v, i) /\ ReadAt(v, fl)
  BY DEF Sane, Consistent, OpenFile
<1>2. fl.current = Walk(v.fat, fl.first, BlockAt(fl.ptr))
  BY <1>1 DEF ReadAt, BlockAt
<1>3. Fetched(v, fl, nubloc, FALSE, r0)
  BY <1>1, <1>2, ReadStep
<1>4. PICK adr \in DataOf(v, i), b \in Buffers :
        /\ r0 = Result(v, Loaded(fl, adr, b))
        /\ adr = Walk(v.fat, fl.first, nubloc) /\ b = v.disk[adr]
  BY <1>3 DEF Fetched
<1>5. adr \in Blocs
  BY <1>1, DataMarked
<1> DEFINE gl == Loaded(fl, adr, b)
<1>6. SameOpen(fl, gl) /\ gl.buffer = b
  BY <1>1, <1>5, LoadedFields DEF SameOpen
<1>7. r0 = Result(v, gl)
  BY <1>4
<1> HIDE DEF gl
<1>8. BlockIn(v, i, nubloc) = b
  BY <1>1, <1>4, OctetsAre DEF BlockIn
<1> QED
  BY <1>6, <1>7, <1>8

(* sgf_getc(): the character of the text at ptr. *)
LEMMA GetcText ==
  ASSUME NEW v, NEW fl, Sane(v, fl), fl # NULL, Reads(fl), fl.ptr < fl.length,
         NEW r0, r0 = IF fl.ptr % BLOCK_SIZE = 0
                      THEN sgf_read_bloc(v, fl, fl.ptr \div BLOCK_SIZE) ELSE Result(v, fl)
  PROVE  \E gl : /\ r0 = Result(v, gl) /\ SameOpen(fl, gl)
                 /\ gl.buffer[fl.ptr % BLOCK_SIZE] = TextIn(v, fl, fl.inode)[fl.ptr + 1]
<1> DEFINE i == fl.inode
           x == fl.ptr
           q == x \div BLOCK_SIZE
<1>1. /\ Owned(v) /\ fl \in OFiles /\ i \in InodesOf(v)
      /\ fl.length = v.disk[i].length /\ fl.first = v.disk[i].first
      /\ Complete(v, i) /\ ReadAt(v, fl)
  BY DEF Sane, Consistent, OpenFile
<1>2. x \in Nat /\ fl.length \in Nat /\ x < fl.length
  BY <1>1, OFileFields
<1>3. ~WrittenBy(fl, i) /\ LengthIn(v, fl, i) = fl.length
  BY <1>1 DEF WrittenBy, LengthIn
<1>4. TextIn(v, fl, i)[x + 1] = BlockIn(v, i, q)[x % BLOCK_SIZE]
  <2>1. x + 1 \in 1 .. LengthIn(v, fl, i) /\ (x + 1) - 1 = x
    BY <1>2, <1>3
  <2>2. TextIn(v, fl, i)[x + 1] = CharIn(v, fl, i, x)
    <3> HIDE DEF x
    <3>1. TextIn(v, fl, i)[x + 1] = CharIn(v, fl, i, (x + 1) - 1)
      BY <2>1 DEF TextIn
    <3> QED
      BY <2>1, <3>1
  <2> QED
    BY <1>3, <2>2 DEF CharIn, Buffered, OnChain, BlockIn
<1>5. q \in Nat /\ q < Blocks(fl.length)
  <2> HIDE DEF x
  <2> QED
    BY <1>2, BlockWithin
<1>6. CASE x % BLOCK_SIZE = 0
  <2>1. r0 = sgf_read_bloc(v, fl, q)
    BY <1>6
  <2>2. PICK gl : r0 = Result(v, gl) /\ SameOpen(fl, gl) /\ gl.buffer = BlockIn(v, i, q)
    <3> HIDE DEF q
    <3> QED
      BY <1>5, <2>1, BlockRead
  <2> QED
    BY <1>4, <2>2
<1>7. CASE x % BLOCK_SIZE # 0
  <2>1. r0 = Result(v, fl) /\ SameOpen(fl, fl)
    BY <1>1, <1>7 DEF SameOpen
  <2>2. x # 0 /\ BlockAt(x) = q
    <3> HIDE DEF x
    <3> QED
      BY <1>2, <1>7, LastBlocks
  <2>3. fl.current = Walk(v.fat, v.disk[i].first, q) /\ fl.buffer = v.disk[fl.current]
    BY <1>1, <2>2 DEF ReadAt, BlockAt
  <2>4. Walk(v.fat, v.disk[i].first, q) \in DataOf(v, i)
    <3>1. x \in 0 .. LengthIn(v, fl, i) - 1
      BY <1>2, <1>3
    <3> QED
      BY <1>1, <3>1, CharBlock
  <2>5. v.disk[fl.current] \in Buffers
    BY <1>1, <2>3, <2>4 DEF Complete
  <2>6. fl.buffer = BlockIn(v, i, q)
    BY <2>3, <2>5, OctetsAre DEF BlockIn
  <2> QED
    BY <1>4, <2>1, <2>6
<1> QED
  BY <1>6, <1>7

(* The block of a position of the file is one of its blocks. *)
LEMMA SeekWithin ==
  ASSUME NEW p \in Nat, NEW L \in Nat, p < L
  PROVE  SeekBlock(p) \in Nat /\ SeekBlock(p) < Blocks(L)
<1>1. SeekBlock(p) = BlockAt(p) /\ BlockAt(p) \in Nat
  BY LastBlocks
<1>2. CASE p = 0
  <2>1. Blocks(L) \in Nat /\ Blocks(L) # 0
    BY <1>2, BlocksAre
  <2>2. BlockAt(p) = 0
    BY <1>2, LastBlocks
  <2> QED
    BY <1>1, <2>1, <2>2
<1>3. CASE p # 0
  <2> DEFINE x == p - 1
  <2>1. x \in Nat /\ x < L
    BY <1>3
  <2>2. BlockAt(p) = x \div BLOCK_SIZE
    BY <1>3, LastBlocks
  <2> HIDE DEF x
  <2> QED
    BY <1>1, <2>1, <2>2, BlockWithin
<1> QED
  BY <1>2, <1>3

(* sgf_seek() within the file goes on with the same file. *)
LEMMA SeekText ==
  ASSUME NEW v, NEW fl, Sane(v, fl), fl # NULL, Reads(fl), NEW p \in Nat, p < fl.length,
         NEW r0, r0 = IF SeekBlock(p) # LastBlock(fl.ptr)
                      THEN sgf_read_bloc(v, fl, SeekBlock(p)) ELSE Result(v, fl)
  PROVE  \E gl : r0 = Result(v, gl) /\ SameOpen(fl, gl)
<1>1. fl \in OFiles
  BY DEF Sane, Consistent, OpenFile
<1>2. SeekBlock(p) \in Nat /\ SeekBlock(p) < Blocks(fl.length)
  BY <1>1, OFileFields, SeekWithin
<1>3. CASE SeekBlock(p) # LastBlock(fl.ptr)
  BY <1>2, <1>3, BlockRead
<1>4. CASE ~(SeekBlock(p) # LastBlock(fl.ptr))
  BY <1>1, <1>4 DEF SameOpen
<1> QED
  BY <1>3, <1>4

-----------------------------------------------------------------------------
(* What the files of v are for a program, fl being the open file: Files    *)
(* and Handle, of any volume.                                              *)
FilesIn(v, fl, pe) ==
  [nom \in NOMS |-> IF pe \/ find_inode(v, nom) < 0 THEN Blank
                    ELSE TextIn(v, fl, find_inode(v, nom))]
NameIn(v, i) == CHOOSE nom \in NOMS : find_inode(v, nom) = i
HandleIn(v, fl, pe) ==
  IF pe \/ fl = NULL THEN NULL
  ELSE [nom |-> NameIn(v, fl.inode), pos |-> fl.ptr,
        mode |-> IF Reads(fl) THEN "lecture" ELSE "ecriture"]

(* What is known of volume and file while no failure was dropped. *)
LEMMA SaneNow ==
  ASSUME SInv, ~perte
  PROVE  Sane(Volume, file) /\ perte = FALSE
<1>1. perte \in BOOLEAN /\ Owned(Volume) /\ Leading(Volume) /\ Consistent(Volume, file, perte)
  BY SgfParts
<1>2. perte = FALSE
  BY <1>1
<1> QED
  BY <1>1, <1>2 DEF Sane

(* They are what Sgf says. *)
LEMMA FilesAre ==
  SInv => Files = FilesIn(Volume, file, perte) /\ Handle = HandleIn(Volume, file, perte)
<1> SUFFICES ASSUME SInv
             PROVE  Files = FilesIn(Volume, file, perte) /\ Handle = HandleIn(Volume, file, perte)
  OBVIOUS
<1>1. Handle = HandleIn(Volume, file, perte)
  BY DEF Handle, HandleIn, NameOf, NameIn, Reads
<1>2. CASE perte
  BY <1>1, <1>2 DEF Files, FilesIn
<1>3. CASE ~perte
  <2>1. Leading(Volume) /\ Inodes = InodesOf(Volume)
    BY SgfParts
  <2>2. Content = [i \in Inodes |-> TextIn(Volume, file, i)]
    <3>1. \A i : Written(i) <=> WrittenBy(file, i)
      BY DEF Written, WrittenBy, Reads
    <3>2. \A i : (IF Written(i) THEN file.length ELSE disk[i].length) = LengthIn(Volume, file, i)
      BY <3>1, VolumeIs DEF LengthIn
    <3>3. ASSUME NEW i
          PROVE  LET length == IF Written(i) THEN file.length ELSE disk[i].length
                     InBuffer(k) == /\ Written(i) /\ length % BLOCK_SIZE # 0
                                    /\ (k \div BLOCK_SIZE) = (length \div BLOCK_SIZE)
                 IN  [k \in 1 .. length |->
                        IF InBuffer(k - 1) THEN file.buffer[(k - 1) % BLOCK_SIZE]
                        ELSE Octets(disk[Walk(fat, disk[i].first, (k - 1) \div BLOCK_SIZE)])
                               [(k - 1) % BLOCK_SIZE]] = TextIn(Volume, file, i)
      <4> DEFINE length == IF Written(i) THEN file.length ELSE disk[i].length
                 InBuffer(k) == /\ Written(i) /\ length % BLOCK_SIZE # 0
                                /\ (k \div BLOCK_SIZE) = (length \div BLOCK_SIZE)
                 Char(k) == IF InBuffer(k) THEN file.buffer[k % BLOCK_SIZE]
                            ELSE Octets(disk[Walk(fat, disk[i].first, k \div BLOCK_SIZE)])
                                   [k % BLOCK_SIZE]
      <4>1. length = LengthIn(Volume, file, i)
        BY <3>2
      <4>2. \A k : InBuffer(k) <=> Buffered(file, i, k)
        BY <3>1 DEF Buffered
      <4>3. \A k : Char(k) = CharIn(Volume, file, i, k)
        <5> HIDE DEF InBuffer
        <5> QED
          BY <4>2, VolumeIs DEF CharIn, OnChain
      <4> HIDE DEF Char, length
      <4>4. [k \in 1 .. length |-> Char(k - 1)] = TextIn(Volume, file, i)
        BY <4>1, <4>3 DEF TextIn
      <4> QED
        BY <4>4 DEF Char, length
    <3> QED
      BY <3>3 DEF Content
  <2>3. \A nom : ~(find_inode(Volume, nom) < 0) => find_inode(Volume, nom) \in Inodes
    BY <2>1 DEF Leading
  <2>4. Files = FilesIn(Volume, file, perte)
    BY <1>3, <2>2, <2>3 DEF Files, FilesIn
  <2> QED
    BY <1>1, <2>4
<1> QED
  BY <1>2, <1>3

(* And so in the next state. *)
LEMMA FilesNext ==
  SInv' => Files' = FilesIn(Volume', file', perte') /\ Handle' = HandleIn(Volume', file', perte')
<1> DEFINE P == Files = FilesIn(Volume, file, perte) /\ Handle = HandleIn(Volume, file, perte)
<1>1. SInv => P
  BY FilesAre
<1> HIDE DEF P
<1>2. SInv' => P'
  BY <1>1, PTL
<1> QED
  BY <1>2 DEF P

(* Texts that stay, for the program. *)
LEMMA FilesSame ==
  ASSUME NEW v, NEW fl, Leading(v), NEW w, NEW gl, SameTexts(v, fl, w, gl)
  PROVE  FilesIn(w, gl, FALSE) = FilesIn(v, fl, FALSE)
<1>1. \A nom : ~(find_inode(v, nom) < 0) => find_inode(v, nom) \in InodesOf(v)
  BY DEF Leading
<1>2. \A nom : find_inode(w, nom) = find_inode(v, nom)
  BY DEF SameTexts, SameNames
<1> QED
  BY <1>1, <1>2 DEF FilesIn, SameTexts

(* A block is no negative number. *)
LEMMA BlocNatural ==
  ASSUME NEW i \in Blocs
  PROVE  i \in Nat /\ ~(i < 0) /\ i # -1
<1>1. i \in Values /\ i >= 0
  BY ValuesTyped DEF Blocs
<1> QED
  BY <1>1, ValuesTyped DEF Blocs

(* The name of a file is the only one that leads to it. *)
LEMMA NameFound ==
  ASSUME NEW v, Leading(v), NEW nom \in NOMS, NEW i \in Blocs, find_inode(v, nom) = i
  PROVE  NameIn(v, i) = nom
<1>1. i # -1
  BY BlocNatural
<1>2. \A x \in NOMS : find_inode(v, x) = i => x = nom
  BY <1>1 DEF Leading
<1> QED
  BY <1>2 DEF NameIn

(* The file that is open has a name, and is there under it. *)
LEMMA OpenNamed ==
  ASSUME NEW v, NEW fl, Sane(v, fl), fl # NULL
  PROVE  LET nom == NameIn(v, fl.inode) IN
         /\ nom \in NOMS /\ find_inode(v, nom) = fl.inode
         /\ fl.inode \in InodesOf(v) /\ fl.inode \in Blocs
         /\ FilesIn(v, fl, FALSE)[nom] = TextIn(v, fl, fl.inode)
<1>1. fl.inode \in InodesOf(v) /\ fl.inode \in Blocs /\ AllNamed(v) /\ Leading(v)
  BY DEF Sane, Consistent, OpenFile, InodesOf
<1>2. PICK nom \in NOMS : find_inode(v, nom) = fl.inode
  BY <1>1 DEF AllNamed
<1>3. NameIn(v, fl.inode) = nom
  BY <1>1, <1>2, NameFound
<1>4. ~(fl.inode < 0)
  BY <1>1, BlocNatural
<1> QED
  BY <1>1, <1>2, <1>3, <1>4 DEF FilesIn

(* The handle of an open file. *)
LEMMA HandleOpen ==
  ASSUME NEW v, NEW fl, fl # NULL
  PROVE  HandleIn(v, fl, FALSE) = [nom |-> NameIn(v, fl.inode), pos |-> fl.ptr,
                                   mode |-> IF Reads(fl) THEN "lecture" ELSE "ecriture"]
BY DEF HandleIn

(* The program's files once r has gone on writing s: the text follows. *)
WrittenFiles(v, fl, r, s) ==
  LET h == HandleIn(v, fl, FALSE) IN
  /\ FilesIn(r.vol, r.file, FALSE) = [FilesIn(v, fl, FALSE) EXCEPT ![h.nom] = @ \o s]
  /\ HandleIn(r.vol, r.file, FALSE) = [h EXCEPT !.pos = @ + Len(s)]

(* A call that goes on writing, for the program: its text follows. *)
LEMMA FilesWritten ==
  ASSUME NEW v, NEW fl, Sane(v, fl), fl # NULL, ~Reads(fl),
         NEW s \in Seq(CHARS), Len(s) \in 1 .. BLOCK_SIZE - (fl.length % BLOCK_SIZE),
         NEW r, Continues(v, fl, r, s)
  PROVE  WrittenFiles(v, fl, r, s)
<1> DEFINE i == fl.inode
           h == HandleIn(v, fl, FALSE)
           f == FilesIn(v, fl, FALSE)
           g == FilesIn(r.vol, r.file, FALSE)
           nom == NameIn(v, i)
<1>1. /\ nom \in NOMS /\ find_inode(v, nom) = i /\ i \in InodesOf(v) /\ i \in Blocs
      /\ f[nom] = TextIn(v, fl, i) /\ Leading(v)
  BY OpenNamed DEF Sane
<1>2. /\ r.file.inode = i /\ r.file.mode = fl.mode /\ r.file.ptr = fl.ptr + Len(s)
      /\ WrittenBy(r.file, i)
      /\ \A x : find_inode(r.vol, x) = find_inode(v, x)
  BY DEF Continues, OneFile, SameNames, Grows
<1>3. h = [nom |-> nom, pos |-> fl.ptr, mode |-> "ecriture"]
  BY HandleOpen
<1>4. HandleIn(r.vol, r.file, FALSE) = [nom |-> nom, pos |-> fl.ptr + Len(s), mode |-> "ecriture"]
  <2>1. NameIn(r.vol, i) = nom
    BY <1>2 DEF NameIn
  <2>2. r.file # NULL /\ ~Reads(r.file)
    BY <1>2 DEF WrittenBy
  <2> HIDE DEF nom, i
  <2> QED
    BY <1>2, <2>1, <2>2, HandleOpen
<1>5. \A j \in InodesOf(v) :
        TextIn(r.vol, r.file, j) = IF j = i THEN TextIn(v, fl, j) \o s ELSE TextIn(v, fl, j)
  BY WrittenTexts
<1>6. ASSUME NEW x \in NOMS PROVE g[x] = IF x = nom THEN f[x] \o s ELSE f[x]
  <2> DEFINE j == find_inode(v, x)
  <2>1. CASE j < 0
    <3>1. x # nom
      BY <1>1, <2>1, BlocNatural
    <3> QED
      BY <1>2, <2>1, <3>1 DEF FilesIn
  <2>2. CASE ~(j < 0)
    <3>1. j \in InodesOf(v) /\ j # -1
      BY <1>1, <2>2 DEF Leading
    <3>2. j = i <=> x = nom
      BY <1>1, <3>1 DEF Leading
    <3>3. f[x] = TextIn(v, fl, j) /\ g[x] = TextIn(r.vol, r.file, j)
      BY <1>2, <2>2 DEF FilesIn
    <3> QED
      BY <1>5, <3>1, <3>2, <3>3
  <2> QED
    BY <2>1, <2>2
<1>7. g = [f EXCEPT ![nom] = @ \o s]
  <2>1. f = [x \in NOMS |-> f[x]] /\ g = [x \in NOMS |-> g[x]]
    BY DEF FilesIn
  <2> HIDE DEF f, g, nom
  <2> QED
    BY <1>1, <1>6, <2>1
<1>8. h.nom = nom /\ [h EXCEPT !.pos = @ + Len(s)]
                       = [nom |-> nom, pos |-> fl.ptr + Len(s), mode |-> "ecriture"]
  <2> HIDE DEF h, nom
  <2> QED
    BY <1>3
<1> QED
  BY <1>4, <1>7, <1>8 DEF WrittenFiles

(* A file opened to write, for the program. *)
LEMMA FilesCreated ==
  ASSUME NEW v, Sane(v, NULL), Free(v.fat) # {}, NEW nom \in NOMS,
         NEW r, r = NewFile(v, nom), ~r.perdu
  PROVE  /\ FilesIn(r.vol, r.file, FALSE) = [FilesIn(v, NULL, FALSE) EXCEPT ![nom] = <<>>]
         /\ HandleIn(r.vol, r.file, FALSE) = [nom |-> nom, pos |-> 0, mode |-> "ecriture"]
<1> DEFINE w == r.vol
           fl == r.file
           a == fl.inode
           f == FilesIn(v, NULL, FALSE)
           g == FilesIn(w, fl, FALSE)
<1>1. /\ Leading(w) /\ a \in Blocs /\ fl # NULL /\ ~Reads(fl) /\ fl.ptr = 0
      /\ a \in InodesOf(w) /\ find_inode(w, nom) = a /\ TextIn(w, fl, a) = <<>>
      /\ \A x : x # nom => find_inode(w, x) = find_inode(v, x)
      /\ \A j \in InodesOf(w) : j # a => TextIn(w, fl, j) = TextIn(v, NULL, j)
  <2>1. EmptyText(v, nom, r)
    BY NewText
  <2> QED
    BY <2>1 DEF EmptyText
<1> HIDE DEF w, fl, a
<1>2. a # -1 /\ ~(a < 0)
  BY <1>1, BlocNatural
<1>3. HandleIn(w, fl, FALSE) = [nom |-> nom, pos |-> 0, mode |-> "ecriture"]
  <2>1. NameIn(w, fl.inode) = nom
    BY <1>1, NameFound DEF a
  <2> QED
    BY <1>1, <2>1, HandleOpen
<1>4. g[nom] = <<>>
  BY <1>1, <1>2 DEF FilesIn
<1>5. ASSUME NEW x \in NOMS, x # nom PROVE g[x] = f[x]
  <2> DEFINE j == find_inode(w, x)
  <2>1. j = find_inode(v, x)
    BY <1>1, <1>5
  <2>2. CASE j < 0
    BY <2>1, <2>2 DEF FilesIn
  <2>3. CASE ~(j < 0)
    <3>1. j \in InodesOf(w)
      BY <1>1, <2>3 DEF Leading
    <3>2. j # a
      BY <1>1, <1>2, <1>5 DEF Leading
    <3> QED
      BY <1>1, <2>1, <2>3, <3>1, <3>2 DEF FilesIn
  <2> QED
    BY <2>2, <2>3
<1>6. g = [f EXCEPT ![nom] = <<>>]
  <2>1. f = [x \in NOMS |-> f[x]] /\ g = [x \in NOMS |-> g[x]]
    BY DEF FilesIn
  <2> HIDE DEF f, g
  <2> QED
    BY <1>4, <1>5, <2>1
<1> QED
  BY <1>3, <1>6 DEF w, fl

-----------------------------------------------------------------------------
(* The program sees neither names nor texts change, nor the open file. *)
LEMMA FilesStay ==
  ASSUME SInv, SInv', UNCHANGED <<volume, file, perte>>
  PROVE  Files' = Files /\ Handle' = Handle
<1>1. Volume' = Volume
  BY DEF Volume, volume
<1> QED
  BY <1>1, FilesAre, FilesNext

(* After a failure that was dropped, nothing is said of them. *)
LEMMA FilesLost ==
  ASSUME SInv', perte'
  PROVE  Files' = [nom \in NOMS |-> Blank] /\ Handle' = NULL
<1>1. FilesIn(Volume', file', perte') = [nom \in NOMS |-> Blank]
  BY DEF FilesIn
<1>2. HandleIn(Volume', file', perte') = NULL
  BY DEF HandleIn
<1> QED
  BY <1>1, <1>2, FilesNext

(* What a call leaves, for the program, as long as none is dropped. *)
LEMMA AfterCall ==
  ASSUME SInv, SInv', ~perte, NEW r, Owned(r.vol), Leading(r.vol), Leaves(r),
         r.panique = FALSE, r.perdu = FALSE
  PROVE  /\ Files' = FilesIn(r.vol, r.file, FALSE) /\ Handle' = HandleIn(r.vol, r.file, FALSE)
         /\ perte' = FALSE /\ mode' = mode
<1>1. /\ Volume' = [fat |-> r.vol.fat, disk |-> r.vol.disk, passe |-> <<>>]
      /\ file' = r.file
  BY DEF Leaves, Becomes, Volume
<1>2. perte' = FALSE /\ mode' = mode
  <2>1. perte = FALSE
    BY SaneNow
  <2> QED
    BY <2>1, Zenon DEF Leaves
<1>3. IsVolume(Volume')
  BY DEF SInv, State
<1> DEFINE w == Volume'
<1>4. w.fat = r.vol.fat /\ w.disk = r.vol.disk
  BY <1>1
<1> HIDE DEF w
<1>5. SameTexts(r.vol, r.file, w, r.file)
  BY <1>3, <1>4, TextsDepend DEF w
<1>6. FilesIn(w, r.file, FALSE) = FilesIn(r.vol, r.file, FALSE)
  <2> DEFINE u == r.vol
             gl == r.file
  <2>1. Leading(u) /\ SameTexts(u, gl, w, gl)
    BY <1>5
  <2> HIDE DEF u, gl
  <2>2. FilesIn(w, gl, FALSE) = FilesIn(u, gl, FALSE)
    BY <2>1, FilesSame
  <2> QED
    BY <2>2 DEF u, gl
<1>7. HandleIn(w, r.file, FALSE) = HandleIn(r.vol, r.file, FALSE)
  <2>1. \A i : NameIn(w, i) = NameIn(r.vol, i)
    BY <1>5 DEF SameTexts, SameNames, NameIn
  <2> QED
    BY <2>1 DEF HandleIn
<1> QED
  BY <1>1, <1>2, <1>6, <1>7, FilesNext DEF w

(* The open file, for the program. *)
LEMMA HandleNow ==
  ASSUME SInv, ~perte, file # NULL
  PROVE  LET nom == NameIn(Volume, file.inode) IN
         /\ Handle = [nom |-> nom, pos |-> file.ptr,
                      mode |-> IF Reads(file) THEN "lecture" ELSE "ecriture"]
         /\ Handle # NULL /\ nom \in NOMS /\ file.ptr \in Nat /\ file.length \in Nat
         /\ Files[nom] = TextIn(Volume, file, file.inode)
         /\ Len(Files[nom]) = file.length
<1> DEFINE nom == NameIn(Volume, file.inode)
<1>1. Sane(Volume, file) /\ perte = FALSE
  BY SaneNow
<1>2. /\ nom \in NOMS /\ file.inode \in InodesOf(Volume)
      /\ FilesIn(Volume, file, FALSE)[nom] = TextIn(Volume, file, file.inode)
  BY <1>1, OpenNamed
<1>3. /\ file.ptr \in Nat /\ file.length \in Nat
      /\ Reads(file) => file.length = Volume.disk[file.inode].length
  BY <1>1, OFileFields DEF Sane, Consistent, OpenFile
<1>4. LengthIn(Volume, file, file.inode) = file.length
  BY <1>3 DEF LengthIn, WrittenBy
<1>5. Len(TextIn(Volume, file, file.inode)) = file.length
  BY <1>1, <1>2, <1>4, TextTyped
<1>6. Files = FilesIn(Volume, file, FALSE) /\ Handle = HandleIn(Volume, file, FALSE)
  BY <1>1, FilesAre, Zenon
<1>7. Handle = [nom |-> nom, pos |-> file.ptr,
                mode |-> IF Reads(file) THEN "lecture" ELSE "ecriture"]
  BY <1>6, HandleOpen
<1> HIDE DEF nom
<1>8. Handle # NULL
  <2>1. Handle \in [nom : NOMS, pos : Nat, mode : {"lecture", "ecriture"}]
    BY <1>2, <1>3, <1>7
  <2> QED
    BY <2>1, AbstractAssumption
<1> QED
  BY <1>2, <1>3, <1>5, <1>6, <1>7, <1>8 DEF nom

(* No file is open, for the program. *)
LEMMA HandleNone ==
  ASSUME SInv, file = NULL
  PROVE  Handle = NULL
BY FilesAre DEF HandleIn

(* The reader is at another position, and nothing else has changed. *)
LEMMA ReaderMoved ==
  ASSUME SInv, SInv', ~perte, file # NULL, Reads(file),
         NEW gl, SameOpen(file, gl), NEW p \in 0 .. MAX_LENGTH, Leaves(Result(Volume, At(gl, p)))
  PROVE  Files' = Files /\ Handle' = [Handle EXCEPT !.pos = p] /\ perte' = FALSE
<1> DEFINE hl == At(gl, p)
           r == Result(Volume, hl)
<1>1. Sane(Volume, file) /\ perte = FALSE /\ Owned(Volume) /\ Leading(Volume) /\ IsVolume(Volume)
  BY SaneNow, SgfParts
<1>2. hl \in OFiles /\ hl.inode = file.inode /\ hl.mode = file.mode /\ hl.ptr = p
  BY AtFields DEF SameOpen
<1> HIDE DEF hl
<1>3. hl # NULL /\ Reads(hl)
  BY <1>2, NullAssumption DEF Reads
<1>4. r.vol = Volume /\ r.file = hl
  BY ResultFields
<1>5. r.panique = FALSE /\ r.perdu = FALSE
  BY ResultFlags, Zenon
<1>6. Leaves(r)
  BY DEF hl
<1> HIDE DEF r
<1>7. /\ Files' = FilesIn(Volume, hl, FALSE) /\ Handle' = HandleIn(Volume, hl, FALSE)
      /\ perte' = FALSE
  BY <1>1, <1>4, <1>5, <1>6, AfterCall
<1>8. FilesIn(Volume, hl, FALSE) = FilesIn(Volume, file, FALSE)
  <2>1. SameTexts(Volume, file, Volume, hl)
    BY <1>1, <1>3, TextsDepend DEF WrittenBy
  <2> QED
    BY <1>1, <2>1, FilesSame
<1>9. HandleIn(Volume, hl, FALSE) = [HandleIn(Volume, file, FALSE) EXCEPT !.pos = p]
  <2>1. /\ HandleIn(Volume, hl, FALSE)
             = [nom |-> NameIn(Volume, hl.inode), pos |-> hl.ptr, mode |-> "lecture"]
        /\ HandleIn(Volume, file, FALSE)
             = [nom |-> NameIn(Volume, file.inode), pos |-> file.ptr, mode |-> "lecture"]
    BY <1>3, HandleOpen
  <2> DEFINE n == NameIn(Volume, file.inode)
             h == HandleIn(Volume, file, FALSE)
             k == HandleIn(Volume, hl, FALSE)
  <2>2. h = [nom |-> n, pos |-> file.ptr, mode |-> "lecture"]
        /\ k = [nom |-> n, pos |-> p, mode |-> "lecture"]
    BY <1>2, <2>1
  <2> HIDE DEF n, h, k
  <2>3. k = [h EXCEPT !.pos = p]
    BY <2>2
  <2> QED
    BY <2>3 DEF h, k
<1> QED
  BY <1>1, <1>7, <1>8, <1>9, FilesAre

-----------------------------------------------------------------------------
(* Each call does what Fichiers says of it. *)

(* No loop over a text is under way. *)
LEMMA NothingLeft == appel = Idle => appel.reste = <<>>
BY DEF Idle

(* A call that reads. *)
LEMMA Readers ==
  ASSUME SInv, ~perte, Reading
  PROVE  /\ mode = "marche" /\ appel = Idle /\ appel.reste = <<>> /\ file # NULL /\ Reads(file)
         /\ Sane(Volume, file) /\ perte = FALSE
         /\ file \in OFiles /\ file.ptr \in Nat /\ file.length \in Nat
         /\ file.ptr <= file.length /\ file.length <= MAX_LENGTH /\ MAX_LENGTH \in Nat
         /\ Handle # NULL /\ Handle.pos = file.ptr /\ Handle.mode = "lecture"
         /\ Handle.nom = NameIn(Volume, file.inode)
         /\ Len(Files[Handle.nom]) = file.length
         /\ Files[Handle.nom] = TextIn(Volume, file, file.inode)
<1>1. mode = "marche" /\ appel = Idle /\ appel.reste = <<>> /\ file # NULL /\ Reads(file)
  BY NothingLeft DEF Reading, Ready, Reads
<1>2. Sane(Volume, file) /\ perte = FALSE
  BY SaneNow
<1>3. file \in OFiles /\ file.ptr <= file.length
  BY <1>1, <1>2 DEF Sane, Consistent, OpenFile
<1>4. file.ptr \in Nat /\ file.length \in Nat /\ file.length <= MAX_LENGTH /\ MAX_LENGTH \in Nat
  BY <1>3, OFileFields
<1>5. /\ Handle = [nom |-> NameIn(Volume, file.inode), pos |-> file.ptr, mode |-> "lecture"]
      /\ Handle # NULL
      /\ Files[NameIn(Volume, file.inode)] = TextIn(Volume, file, file.inode)
      /\ Len(Files[NameIn(Volume, file.inode)]) = file.length
  BY <1>1, HandleNow
<1>6. Handle.pos = file.ptr /\ Handle.mode = "lecture" /\ Handle.nom = NameIn(Volume, file.inode)
  BY <1>5
<1> QED
  BY <1>1, <1>2, <1>3, <1>4, <1>5, <1>6

(* sgf_getc() reads the next character, or finds the end. *)
LEMMA GetcRefined == ASSUME SInv, SInv', ~perte, sgf_getc PROVE Abstract!Read
<1>1. Reading /\ appel' = appel
  BY DEF sgf_getc
<1>2. /\ appel.reste = <<>> /\ file # NULL /\ Reads(file)
      /\ Sane(Volume, file) /\ perte = FALSE
      /\ file.ptr \in Nat /\ file.length \in Nat
      /\ file.ptr <= file.length /\ file.length <= MAX_LENGTH /\ MAX_LENGTH \in Nat
      /\ Handle # NULL /\ Handle.pos = file.ptr /\ Handle.mode = "lecture"
      /\ Len(Files[Handle.nom]) = file.length
      /\ Files[Handle.nom] = TextIn(Volume, file, file.inode)
  BY <1>1, Readers
<1>3. CASE file.ptr >= file.length
  <2>1. ret' = Abstract!Reply("getc", 0, -1) /\ UNCHANGED <<volume, mode, file, perte>>
    BY <1>3 DEF sgf_getc, Reply, Abstract!Reply
  <2>2. Files' = Files /\ Handle' = Handle /\ perte' = FALSE
    BY <1>2, <2>1, FilesStay
  <2>3. Handle.pos = Len(Files[Handle.nom])
    BY <1>2, <1>3
  <2> QED
    BY <1>1, <1>2, <2>1, <2>2, <2>3
    DEF Abstract!Read, Abstract!Reading, Abstract!Idle, Abstract!Text
<1>4. CASE ~(file.ptr >= file.length)
  <2> DEFINE x == file.ptr
             r0 == IF x % BLOCK_SIZE = 0 THEN sgf_read_bloc(Volume, file, x \div BLOCK_SIZE)
                   ELSE Result(Volume, file)
  <2>1. /\ ret' = IF r0.panique THEN ret ELSE Reply("getc", 0, r0.file.buffer[x % BLOCK_SIZE])
        /\ Leaves(Stepping(r0))
    BY <1>4, Zenon DEF sgf_getc, Stepping
  <2>2. PICK gl : /\ r0 = Result(Volume, gl) /\ SameOpen(file, gl)
                  /\ gl.buffer[x % BLOCK_SIZE] = TextIn(Volume, file, file.inode)[x + 1]
    <3>1. file.ptr < file.length
      BY <1>2, <1>4
    <3> QED
      BY <1>2, <3>1, GetcText
  <2> HIDE DEF r0
  <2>3. r0.file = gl /\ r0.panique = FALSE
    <3>1. r0.file = gl
      BY <2>2, ResultFields
    <3>2. Result(Volume, gl).panique = FALSE
      BY ResultFlags
    <3> QED
      BY <2>2, <3>1, <3>2, Zenon
  <2>4. ret' = Abstract!Reply("getc", 0, Files[Handle.nom][Handle.pos + 1])
    <3>1. ret' = Reply("getc", 0, r0.file.buffer[x % BLOCK_SIZE])
      BY <2>1, <2>3
    <3> QED
      BY <1>2, <2>2, <2>3, <3>1 DEF Reply, Abstract!Reply
  <2>5. Leaves(Result(Volume, At(gl, x + 1)))
    <3>1. Further(gl) = At(gl, x + 1)
      BY <2>2, FurtherIs DEF SameOpen
    <3>2. Stepping(Result(Volume, gl)) = Result(Volume, At(gl, x + 1))
      BY <3>1, Stepped DEF Stepping
    <3> QED
      BY <2>1, <2>2, <3>2, Zenon
  <2>6. x + 1 \in 0 .. MAX_LENGTH
    BY <1>2, <1>4
  <2>7. Files' = Files /\ Handle' = [Handle EXCEPT !.pos = x + 1] /\ perte' = FALSE
    BY <1>2, <2>2, <2>5, <2>6, ReaderMoved
  <2>8. Handle' = [Handle EXCEPT !.pos = @ + 1]
    BY <1>2, <2>7
  <2>9. Handle.pos # Len(Files[Handle.nom])
    BY <1>2, <1>4
  <2> QED
    BY <1>1, <1>2, <2>4, <2>7, <2>8, <2>9
    DEF Abstract!Read, Abstract!Reading, Abstract!Idle, Abstract!Text
<1> QED
  BY <1>3, <1>4

(* sgf_seek() moves the reader, or leaves it. *)
LEMMA SeekRefined ==
  ASSUME SInv, SInv', ~perte, Reading, NEW pos \in -1 .. file.length, sgf_seek(pos)
  PROVE  Abstract!Seek
<1>1. appel' = appel
  BY DEF sgf_seek
<1>2. /\ appel.reste = <<>> /\ file # NULL /\ Reads(file)
      /\ Sane(Volume, file) /\ perte = FALSE
      /\ file.ptr \in Nat /\ file.length \in Nat
      /\ file.ptr <= file.length /\ file.length <= MAX_LENGTH /\ MAX_LENGTH \in Nat
      /\ Handle # NULL /\ Handle.pos = file.ptr /\ Handle.mode = "lecture"
      /\ Len(Files[Handle.nom]) = file.length
  BY Readers
<1>3. CASE pos < 0 \/ pos >= file.length
  <2>1. ret' = Abstract!Reply("seek", pos, -1) /\ UNCHANGED <<volume, mode, file, perte>>
    BY <1>3 DEF sgf_seek, SeekRefused, Reply, Abstract!Reply
  <2>2. Files' = Files /\ Handle' = Handle /\ perte' = FALSE
    BY <1>2, <2>1, FilesStay
  <2>3. ret'.op = "seek" /\ ret'.arg = pos
    BY <2>1 DEF Abstract!Reply
  <2>4. pos \notin 0 .. Len(Files[Handle.nom]) - 1
    BY <1>2, <1>3
  <2> QED
    BY <1>1, <1>2, <2>1, <2>2, <2>3, <2>4
    DEF Abstract!Seek, Abstract!Reading, Abstract!Idle, Abstract!Text
<1>4. CASE ~(pos < 0 \/ pos >= file.length)
  <2> DEFINE r0 == IF SeekBlock(pos) # LastBlock(file.ptr)
                   THEN sgf_read_bloc(Volume, file, SeekBlock(pos)) ELSE Result(Volume, file)
  <2>1. ret' = Reply("seek", pos, 0) /\ Leaves(Moved(r0, pos))
    BY <1>4, Zenon DEF sgf_seek, Moved
  <2>6. ret' = Abstract!Reply("seek", pos, 0) /\ ret'.op = "seek" /\ ret'.arg = pos
    BY <2>1 DEF Reply, Abstract!Reply
  <2>2. pos \in Nat /\ pos < file.length /\ pos \in 0 .. MAX_LENGTH
        /\ pos \in 0 .. Len(Files[Handle.nom]) - 1
    BY <1>2, <1>4
  <2>3. PICK gl : r0 = Result(Volume, gl) /\ SameOpen(file, gl)
    BY <1>2, <2>2, SeekText
  <2> HIDE DEF r0
  <2>4. Leaves(Result(Volume, At(gl, pos)))
    BY <2>1, <2>3, Moves, Zenon
  <2>5. Files' = Files /\ Handle' = [Handle EXCEPT !.pos = pos] /\ perte' = FALSE
    BY <1>2, <2>2, <2>3, <2>4, ReaderMoved
  <2> QED
    BY <1>1, <1>2, <2>2, <2>5, <2>6
    DEF Abstract!Seek, Abstract!Reading, Abstract!Idle, Abstract!Text
<1> QED
  BY <1>3, <1>4

(* The program with no file open. *)
LEMMA NoneOpen ==
  ASSUME SInv, ~perte, Closed
  PROVE  /\ mode = "marche" /\ appel = Idle /\ appel.reste = <<>> /\ file = NULL
         /\ Sane(Volume, NULL) /\ perte = FALSE /\ Handle = NULL
         /\ Owned(Volume) /\ Leading(Volume) /\ IsVolume(Volume)
         /\ Files = FilesIn(Volume, NULL, FALSE)
<1>1. mode = "marche" /\ appel = Idle /\ appel.reste = <<>> /\ file = NULL
  BY NothingLeft DEF Closed, Ready
<1>2. Sane(Volume, NULL) /\ perte = FALSE
  BY <1>1, SaneNow
<1>3. Files = FilesIn(Volume, NULL, FALSE) /\ Handle = NULL
  BY <1>1, <1>2, FilesAre, HandleNone
<1> QED
  BY <1>1, <1>2, <1>3, SgfParts

(* The file that a name leads to. *)
LEMMA FileThere ==
  ASSUME SInv, ~perte, Closed, NEW nom \in NOMS, NEW i, i = find_inode(Volume, nom), i >= 0
  PROVE  /\ i \in InodesOf(Volume) /\ i \in Blocs /\ NameIn(Volume, i) = nom
         /\ Files[nom] = TextIn(Volume, NULL, i) /\ Files[nom] # Blank
         /\ Len(Files[nom]) = LengthIn(Volume, NULL, i)
<1>1. /\ mode = "marche" /\ Sane(Volume, NULL) /\ Leading(Volume)
      /\ Files = FilesIn(Volume, NULL, FALSE)
  BY NoneOpen
<1>2. i \in InodesOf(Volume) /\ i \in Blocs
  BY <1>1, NameLeads DEF InodesOf
<1>3. NameIn(Volume, i) = nom /\ ~(i < 0)
  BY <1>1, <1>2, NameFound, BlocNatural
<1>4. Files[nom] = TextIn(Volume, NULL, i)
  BY <1>1, <1>3 DEF FilesIn
<1> QED
  BY <1>1, <1>2, <1>3, <1>4, TextTyped

(* A name that is not in the directory, or no such mode. *)
LEMMA OpenNullRefined ==
  ASSUME SInv, SInv', ~perte, NEW nom \in NOMS, OpenNull(nom)
  PROVE  Abstract!Open
<1>1. Closed /\ UNCHANGED <<volume, mode, file, appel, perte>>
  BY NullSame
<1>2. /\ appel.reste = <<>> /\ perte = FALSE /\ Handle = NULL
      /\ Files = FilesIn(Volume, NULL, FALSE)
  BY <1>1, NoneOpen
<1>3. Files' = Files /\ Handle' = Handle
  BY <1>1, FilesStay
<1>4. \/ /\ Files[nom] = Blank
         /\ \E op \in {"open_read", "open_append"} : ret' = Abstract!Reply(op, nom, NULL)
      \/ ret' = Abstract!Reply("open", nom, NULL)
  <2>1. CASE OpenUnknown(nom)
    BY <2>1 DEF OpenUnknown, Reply, Abstract!Reply
  <2>2. ASSUME NEW op \in {"open_read", "open_append"}, OpenFails(op, nom)
        PROVE  Files[nom] = Blank /\ ret' = Abstract!Reply(op, nom, NULL)
    BY <1>2, <2>2 DEF OpenFails, FilesIn, Reply, Abstract!Reply
  <2> QED
    BY <2>1, <2>2 DEF OpenNull
<1> QED
  BY <1>1, <1>2, <1>3, <1>4 DEF Abstract!Open, Abstract!OpenNone, Abstract!Idle

(* sgf_open() to read: at the beginning of the text. *)
LEMMA OpenReadRefined ==
  ASSUME SInv, SInv', ~perte, NEW nom \in NOMS, sgf_open_read(nom)
  PROVE  Abstract!Open
<1> DEFINE i == find_inode(Volume, nom)
<1>1. /\ Closed /\ i >= 0 /\ ret' = Abstract!Reply("open_read", nom, 0)
      /\ UNCHANGED <<volume, mode, appel, perte>>
      /\ file' = OFile(i, Volume.disk[i], Volume.disk[i].first, 0, READ_MODE)
  BY VolumeIs DEF sgf_open_read, Reply, Abstract!Reply
<1> HIDE DEF i
<1>2. /\ appel.reste = <<>> /\ perte = FALSE /\ Handle = NULL
      /\ Owned(Volume) /\ Leading(Volume) /\ IsVolume(Volume)
      /\ Files = FilesIn(Volume, NULL, FALSE)
  BY <1>1, NoneOpen
<1>3. i \in InodesOf(Volume) /\ i \in Blocs /\ NameIn(Volume, i) = nom /\ Files[nom] # Blank
  BY <1>1, FileThere DEF i
<1> DEFINE fl == OFile(i, Volume.disk[i], Volume.disk[i].first, 0, READ_MODE)
<1>4. fl # NULL /\ fl.inode = i /\ fl.ptr = 0 /\ Reads(fl)
  <2> DEFINE ino == Volume.disk[i]
  <2>1. /\ ino \in InodeRecords /\ ino.first \in Blocs \cup {FAT_EOF}
        /\ 0 \in 0 .. MAX_LENGTH
    BY <1>2, <1>3, InodeFacts, SgfAssumption
  <2>2. fl = OFile(i, ino, ino.first, 0, READ_MODE)
    OBVIOUS
  <2> HIDE DEF ino, fl
  <2>3. fl # NULL /\ fl.inode = i /\ fl.ptr = 0 /\ fl.mode = READ_MODE
    BY <1>3, <2>1, <2>2, OFileIs
  <2> QED
    BY <2>3 DEF Reads, fl
<1>5. file' = fl
  BY <1>1
<1> HIDE DEF fl
<1>6. Volume' = Volume /\ perte' = FALSE
  BY <1>1, <1>2 DEF Volume, volume
<1>7. Files' = FilesIn(Volume, fl, FALSE) /\ Handle' = HandleIn(Volume, fl, FALSE)
  BY <1>5, <1>6, FilesNext
<1>8. FilesIn(Volume, fl, FALSE) = FilesIn(Volume, NULL, FALSE)
  <2>1. SameTexts(Volume, NULL, Volume, fl)
    BY <1>2, <1>4, TextsDepend DEF WrittenBy
  <2> QED
    BY <1>2, <2>1, FilesSame
<1>9. HandleIn(Volume, fl, FALSE) = [nom |-> nom, pos |-> 0, mode |-> "lecture"]
  BY <1>3, <1>4, HandleOpen
<1> QED
  BY <1>1, <1>2, <1>3, <1>6, <1>7, <1>8, <1>9
  DEF Abstract!Open, Abstract!OpenRead, Abstract!Idle, Abstract!At

(* sgf_open() to append: at the end of the text. *)
LEMMA OpenAppendRefined ==
  ASSUME SInv, SInv', ~perte, NEW nom \in NOMS, sgf_open_append(nom)
  PROVE  Abstract!Open
<1> DEFINE i == find_inode(Volume, nom)
           fl == OFile(i, Volume.disk[i], Volume.disk[i].last, Volume.disk[i].length, APPEND_MODE)
           r == IF fl.length % BLOCK_SIZE # 0
                THEN sgf_read_bloc(Volume, fl, fl.ptr \div BLOCK_SIZE) ELSE Result(Volume, fl)
<1>1. /\ Closed /\ i >= 0 /\ ret' = Abstract!Reply("open_append", nom, 0)
      /\ Leaves(r) /\ appel' = appel
  BY VolumeIs DEF sgf_open_append, Reply, Abstract!Reply
<1> HIDE DEF i
<1>2. /\ appel.reste = <<>> /\ perte = FALSE /\ Handle = NULL /\ Sane(Volume, NULL)
      /\ Owned(Volume) /\ Leading(Volume) /\ IsVolume(Volume)
      /\ Files = FilesIn(Volume, NULL, FALSE)
  BY <1>1, NoneOpen
<1>3. /\ i \in InodesOf(Volume) /\ NameIn(Volume, i) = nom /\ Files[nom] # Blank
      /\ Len(Files[nom]) = LengthIn(Volume, NULL, i)
  BY <1>1, FileThere DEF i
<1>4. KeptText(Volume, i, r) /\ r.perdu = FALSE /\ r.panique = FALSE
  <2> HIDE DEF fl
  <2>1. fl = OFile(i, Volume.disk[i], Volume.disk[i].last, Volume.disk[i].length, APPEND_MODE)
    BY DEF fl
  <2>2. r = IF fl.length % BLOCK_SIZE # 0
            THEN sgf_read_bloc(Volume, fl, fl.ptr \div BLOCK_SIZE) ELSE Result(Volume, fl)
    OBVIOUS
  <2> HIDE DEF r
  <2> QED
    BY <1>2, <1>3, <2>1, <2>2, AppendText
<1> HIDE DEF r
<1> DEFINE gl == r.file
<1>5. /\ r.vol = Volume /\ gl # NULL /\ ~Reads(gl) /\ gl.inode = i
      /\ gl.ptr = LengthIn(Volume, NULL, i) /\ SameTexts(Volume, NULL, Volume, gl)
  BY <1>4 DEF KeptText
<1>6. /\ Files' = FilesIn(Volume, gl, FALSE) /\ Handle' = HandleIn(Volume, gl, FALSE)
      /\ perte' = FALSE
  BY <1>1, <1>2, <1>4, <1>5, AfterCall
<1> HIDE DEF gl
<1>7. FilesIn(Volume, gl, FALSE) = FilesIn(Volume, NULL, FALSE)
  BY <1>2, <1>5, FilesSame
<1>8. HandleIn(Volume, gl, FALSE) = [nom |-> nom, pos |-> Len(Files[nom]), mode |-> "ecriture"]
  <2>1. HandleIn(Volume, gl, FALSE) = [nom |-> NameIn(Volume, gl.inode), pos |-> gl.ptr,
                                       mode |-> IF Reads(gl) THEN "lecture" ELSE "ecriture"]
    BY <1>5, HandleOpen
  <2> QED
    BY <1>3, <1>5, <2>1
<1> QED
  BY <1>1, <1>2, <1>3, <1>6, <1>7, <1>8
  DEF Abstract!Open, Abstract!OpenAppend, Abstract!Idle, Abstract!At

(* The program with a file open to write. *)
LEMMA Writers ==
  ASSUME SInv, ~perte, file # NULL, ~Reads(file)
  PROVE  /\ Sane(Volume, file) /\ perte = FALSE /\ Owned(Volume) /\ Leading(Volume)
         /\ Handle = HandleIn(Volume, file, FALSE) /\ Files = FilesIn(Volume, file, FALSE)
         /\ Handle # NULL /\ Handle.mode = "ecriture" /\ file.ptr = file.length
<1>1. Sane(Volume, file) /\ perte = FALSE
  BY SaneNow
<1>2. Handle # NULL /\ Handle.mode = "ecriture"
  <2>1. /\ Handle # NULL
        /\ Handle = [nom |-> NameIn(Volume, file.inode), pos |-> file.ptr,
                     mode |-> IF Reads(file) THEN "lecture" ELSE "ecriture"]
    BY HandleNow
  <2> QED
    BY <2>1
<1>3. file.ptr = file.length
  BY <1>1 DEF Sane, Consistent, OpenFile
<1> QED
  BY <1>1, <1>2, <1>3, FilesAre, SgfParts

(* When something is lost nothing is promised, and nothing seen. *)
LEMMA FailRefined ==
  ASSUME SInv, SInv', ~perte, perte', file = NULL \/ ~Reads(file)
  PROVE  Abstract!Fail
<1>1. Files' = [n \in NOMS |-> Blank] /\ Handle' = NULL
  BY FilesLost
<1>2. perte = FALSE /\ perte' = TRUE
  <2>1. perte' \in BOOLEAN
    BY DEF SInv, State
  <2> QED
    BY <2>1, SaneNow
<1>3. Handle = NULL \/ Handle.mode = "ecriture"
  BY HandleNone, Writers
<1> QED
  BY <1>1, <1>2, <1>3 DEF Abstract!Fail, Abstract!NoReply, Abstract!Reply, NoReply, Reply

(* sgf_open() to write: the file of that name is empty now. *)
LEMMA OpenWriteRefined ==
  ASSUME SInv, SInv', ~perte, NEW nom \in NOMS, sgf_open_write(nom)
  PROVE  Abstract!Open \/ Abstract!Fail
<1> DEFINE r == NewFile(Volume, nom)
<1>1. /\ Closed /\ Free(Volume.fat) # {} /\ ret' = Abstract!Reply("open_write", nom, 0)
      /\ Leaves(r) /\ appel' = appel
  BY VolumeIs DEF sgf_open_write, Reply, Abstract!Reply
<1>2. /\ appel.reste = <<>> /\ perte = FALSE /\ Handle = NULL /\ Sane(Volume, NULL)
      /\ file = NULL /\ Owned(Volume) /\ Leading(Volume)
      /\ Files = FilesIn(Volume, NULL, FALSE)
  BY <1>1, NoneOpen
<1>3. r.perdu \in BOOLEAN
  BY <1>1, <1>2, NewFileMade, Zenon DEF NewFileIn
<1>4. CASE r.perdu
  <2> HIDE DEF r
  <2>1. perte'
    BY <1>1, <1>4, Zenon DEF Leaves
  <2> QED
    BY <1>2, <2>1, FailRefined
<1>5. CASE ~r.perdu
  <2>1. EmptyText(Volume, nom, r) /\ r.panique = FALSE
    BY <1>1, <1>2, <1>5, NewText
  <2>2. /\ FilesIn(r.vol, r.file, FALSE) = [FilesIn(Volume, NULL, FALSE) EXCEPT ![nom] = <<>>]
        /\ HandleIn(r.vol, r.file, FALSE) = [nom |-> nom, pos |-> 0, mode |-> "ecriture"]
    BY <1>1, <1>2, <1>5, FilesCreated
  <2> HIDE DEF r
  <2>3. Owned(r.vol) /\ Leading(r.vol)
    BY <2>1 DEF EmptyText
  <2>4. r.perdu = FALSE
    BY <1>3, <1>5, Zenon
  <2>5. /\ Files' = [Files EXCEPT ![nom] = <<>>]
        /\ Handle' = [nom |-> nom, pos |-> 0, mode |-> "ecriture"] /\ perte' = FALSE
    BY <1>1, <1>2, <2>1, <2>2, <2>3, <2>4, AfterCall
  <2> QED
    BY <1>1, <1>2, <2>5 DEF Abstract!Open, Abstract!OpenWrite, Abstract!Idle, Abstract!At
<1> QED
  BY <1>4, <1>5

(* sgf_puts() or sgf_write() is called. *)
LEMMA BeginRefined ==
  ASSUME SInv, SInv', ~perte, NEW op \in {"puts", "write"}, NEW t \in TEXTES, Begin(op, t)
  PROVE  Abstract!Ask
<1>1. /\ appel = Idle /\ file # NULL /\ ~Reads(file)
      /\ appel' = [op |-> op, reste |-> t] /\ UNCHANGED <<volume, mode, file, ret, perte>>
  BY DEF Begin, Writing, Ready, Reads
<1>2. perte = FALSE /\ Handle # NULL /\ Handle.mode = "ecriture" /\ appel.reste = <<>>
  BY <1>1, Writers, NothingLeft
<1>3. appel'.reste = t /\ t \in Seq(CHARS) \ {<<>>}
  BY <1>1, SgfAssumption
<1>4. Files' = Files /\ Handle' = Handle
  BY <1>1, FilesStay
<1> QED
  BY <1>1, <1>2, <1>3, <1>4 DEF Abstract!Ask, Abstract!Idle

(* A turn of their loops: what it writes comes next. *)
LEMMA AdvanceRefined ==
  ASSUME SInv, SInv', ~perte, mode = "marche", appel.op # "rien",
         NEW n \in 1 .. Len(appel.reste), NEW s, s = SubSeq(appel.reste, 1, n), Len(s) = n,
         s \in Seq(CHARS), Len(s) \in 1 .. BLOCK_SIZE - (file.length % BLOCK_SIZE),
         NEW r, Wrote(r, FALSE, file.length + n), Advance(r, n),
         ~r.perdu => Continues(Volume, file, r, s)
  PROVE  Abstract!Write \/ Abstract!Fail
<1>1. /\ file # NULL /\ ~Reads(file) /\ appel.reste \in Seq(CHARS)
      /\ Len(appel.reste) \in Nat \ {0}
  BY BusyWrites
<1>2. /\ Sane(Volume, file) /\ perte = FALSE
      /\ Handle = HandleIn(Volume, file, FALSE) /\ Files = FilesIn(Volume, file, FALSE)
  BY <1>1, Writers
<1>3. appel.reste # <<>>
  BY <1>1
<1>4. /\ Leaves(r) /\ ret' = ret
      /\ appel' = IF r.panique \/ n = Len(appel.reste) THEN Idle ELSE Shorter(appel, n)
  BY Zenon DEF Advance, Shorter
<1>5. /\ Owned(r.vol) /\ Leading(r.vol) /\ r.perdu \in BOOLEAN /\ r.panique \in BOOLEAN
      /\ r.panique => r.perdu
  BY Zenon DEF Wrote, Good
<1>6. CASE r.perdu
  <2>1. perte'
    BY <1>4, <1>6, Zenon DEF Leaves
  <2> QED
    BY <1>1, <2>1, FailRefined
<1>7. CASE ~r.perdu
  <2>1. r.perdu = FALSE /\ r.panique = FALSE
    BY <1>5, <1>7, Zenon
  <2>2. /\ FilesIn(r.vol, r.file, FALSE) = [Files EXCEPT ![Handle.nom] = @ \o s]
        /\ HandleIn(r.vol, r.file, FALSE) = [Handle EXCEPT !.pos = @ + Len(s)]
    <3>1. WrittenFiles(Volume, file, r, s)
      BY <1>1, <1>2, <1>7, FilesWritten
    <3> QED
      BY <1>2, <3>1, Zenon DEF WrittenFiles
  <2>3. /\ Files' = [Files EXCEPT ![Handle.nom] = @ \o s]
        /\ Handle' = [Handle EXCEPT !.pos = @ + n] /\ perte' = FALSE
    <3>1. /\ Files' = FilesIn(r.vol, r.file, FALSE) /\ Handle' = HandleIn(r.vol, r.file, FALSE)
          /\ perte' = FALSE
      BY <1>4, <1>5, <2>1, AfterCall
    <3> QED
      BY <2>2, <3>1, Zenon
  <2>4. appel'.reste = SubSeq(appel.reste, n + 1, Len(appel.reste))
    <3>1. CASE n = Len(appel.reste)
      <4>1. appel' = Idle
        BY <1>4, <3>1, Zenon
      <4>2. SubSeq(appel.reste, n + 1, Len(appel.reste)) = <<>>
        BY <1>1, <3>1
      <4> QED
        BY <4>1, <4>2, NothingLeft DEF Idle
    <3>2. CASE n # Len(appel.reste)
      <4>1. appel' = Shorter(appel, n)
        BY <1>4, <2>1, <3>2, Zenon
      <4>2. appel \in [op : {"puts", "write"}, reste : Seq(CHARS) \ {<<>>}]
        BY BusyWrites DEF Busy
      <4> QED
        BY <4>1, <4>2 DEF Shorter
    <3> QED
      BY <3>1, <3>2
  <2>5. Abstract!Write
    BY <1>2, <1>3, <1>4, <2>3, <2>4 DEF Abstract!Write
  <2> QED
    BY <2>5
<1> QED
  BY <1>6, <1>7

(* sgf_puts(): one character. *)
LEMMA PutsRefined ==
  ASSUME SInv, SInv', ~perte, sgf_puts
  PROVE  Abstract!Write \/ Abstract!Fail
<1> DEFINE t == appel.reste
           c == Head(t)
           s == <<c>>
           r == sgf_putc(Volume, file, c)
<1>1. mode = "marche" /\ appel.op # "rien" /\ Advance(r, 1)
  BY DEF sgf_puts
<1>2. /\ file # NULL /\ ~Reads(file) /\ t \in Seq(CHARS) /\ Len(t) \in Nat \ {0}
      /\ file.length \in Nat /\ file.length + Len(t) <= MAX_LENGTH
  BY <1>1, BusyWrites
<1>3. 1 \in 1 .. Len(t) /\ file.length + 1 <= MAX_LENGTH /\ c \in CHARS
  BY <1>2, SgfAssumption
<1>4. /\ Sane(Volume, file) /\ Owned(Volume) /\ Leading(Volume) /\ Consistent(Volume, file, FALSE)
  BY <1>2, Writers DEF Sane
<1>5. s = SubSeq(t, 1, 1) /\ s \in Seq(CHARS) /\ Len(s) = 1
  BY <1>2, <1>3
<1>6. Len(s) \in 1 .. BLOCK_SIZE - (file.length % BLOCK_SIZE)
  <2>1. file.length % BLOCK_SIZE \in 0 .. BLOCK_SIZE - 1 /\ BLOCK_SIZE \in Nat
    BY <1>2, BlocksAre, SgfAssumption
  <2> QED
    BY <1>5, <2>1
<1> HIDE DEF c
<1>7. Wrote(r, FALSE, file.length + 1)
  BY <1>2, <1>3, <1>4, PutcStep
<1>8. ~r.perdu => Continues(Volume, file, r, s)
  BY <1>2, <1>3, <1>4, PutcText
<1> HIDE DEF r, s, t
<1> QED
  BY <1>1, <1>3, <1>5, <1>6, <1>7, <1>8, AdvanceRefined DEF t

(* sgf_write(): what goes in the block. *)
LEMMA WriteRefined ==
  ASSUME SInv, SInv', ~perte, sgf_write
  PROVE  Abstract!Write \/ Abstract!Fail
<1> DEFINE t == appel.reste
           s == Chunk(file, t)
           n == Len(s)
           r == WriteChunk(Volume, file, s)
<1>1. mode = "marche" /\ appel.op # "rien" /\ Advance(r, n)
  BY DEF sgf_write
<1>2. /\ file # NULL /\ ~Reads(file) /\ t \in Seq(CHARS) /\ Len(t) \in Nat \ {0}
      /\ file.length \in Nat /\ file.ptr \in Nat
      /\ file.length + Len(t) <= MAX_LENGTH
  BY <1>1, BusyWrites
<1>3. /\ s \in Seq(CHARS) /\ n \in 1 .. Len(t)
      /\ n \in 1 .. BLOCK_SIZE - (file.ptr % BLOCK_SIZE)
  BY <1>2, ChunkIs
<1>4. s = SubSeq(t, 1, n)
  <2> DEFINE m == Min({Len(t), BLOCK_SIZE - (file.ptr % BLOCK_SIZE)})
  <2>1. s = SubSeq(t, 1, m)
    BY DEF Chunk
  <2>2. m \in 1 .. Len(t)
    <3> DEFINE a == Len(t)
               b == BLOCK_SIZE - (file.ptr % BLOCK_SIZE)
    <3>1. a \in Nat \ {0} /\ b \in Nat \ {0}
      <4>1. file.ptr % BLOCK_SIZE \in 0 .. BLOCK_SIZE - 1 /\ BLOCK_SIZE \in Nat
        BY <1>2, BlocksAre, SgfAssumption
      <4> QED
        BY <1>2, <4>1
    <3>2. m = Min({a, b})
      OBVIOUS
    <3> HIDE DEF a, b, m
    <3>3. \E x \in {a, b} : \A y \in {a, b} : x <= y
      BY <3>1
    <3>4. m \in {a, b} /\ \A y \in {a, b} : m <= y
      BY <3>2, <3>3 DEF Min
    <3>5. m \in 1 .. a
      BY <3>1, <3>4
    <3> QED
      BY <3>5 DEF a
  <2> HIDE DEF m, s
  <2>3. Len(SubSeq(t, 1, m)) = m
    BY <1>2, <2>2
  <2> QED
    BY <2>1, <2>3
<1> HIDE DEF s, n
<1>5. file.length + n <= MAX_LENGTH
  BY <1>2, <1>3, SgfAssumption
<1>6. /\ Sane(Volume, file) /\ Owned(Volume) /\ Leading(Volume) /\ Consistent(Volume, file, FALSE)
      /\ file.ptr = file.length
  BY <1>2, Writers DEF Sane
<1>7. Wrote(r, FALSE, file.length + n)
  BY <1>2, <1>3, <1>5, <1>6, ChunkStep DEF n
<1>8. ~r.perdu => Continues(Volume, file, r, s)
  BY <1>2, <1>3, <1>5, <1>6, ChunkText DEF n
<1> HIDE DEF r
<1>9. Len(s) \in 1 .. BLOCK_SIZE - (file.length % BLOCK_SIZE) /\ Len(s) = n
  BY <1>3, <1>6 DEF n
<1> QED
  BY <1>1, <1>3, <1>4, <1>7, <1>8, <1>9, AdvanceRefined

(* sgf_close(): all that was written is there. *)
LEMMA CloseRefined ==
  ASSUME SInv, SInv', ~perte, sgf_close
  PROVE  Abstract!Close
<1> DEFINE r == CloseFile(Volume, file)
<1>1. appel = Idle /\ file # NULL /\ Leaves(r) /\ UNCHANGED <<appel, ret>>
  BY DEF sgf_close, Ready
<1>2. Sane(Volume, file) /\ perte = FALSE /\ appel.reste = <<>>
  BY <1>1, SaneNow, NothingLeft
<1>3. /\ r.file = NULL /\ r.perdu = FALSE /\ r.panique = FALSE
      /\ SameTexts(Volume, file, r.vol, NULL)
  BY <1>1, <1>2, CloseText
<1>4. Owned(r.vol) /\ Leading(r.vol)
  <2>1. Owned(Volume) /\ Leading(Volume) /\ Consistent(Volume, file, FALSE)
    BY <1>2 DEF Sane
  <2>2. Good(r, FALSE)
    BY <1>1, <2>1, CloseReads, CloseWrites
  <2> QED
    BY <2>2 DEF Good
<1> HIDE DEF r
<1>5. /\ Files' = FilesIn(r.vol, NULL, FALSE) /\ Handle' = HandleIn(r.vol, NULL, FALSE)
      /\ perte' = FALSE
  BY <1>1, <1>2, <1>3, <1>4, AfterCall
<1>6. FilesIn(r.vol, NULL, FALSE) = FilesIn(Volume, file, FALSE)
  BY <1>2, <1>3, FilesSame DEF Sane
<1>7. HandleIn(r.vol, NULL, FALSE) = NULL
  BY DEF HandleIn
<1> QED
  BY <1>1, <1>2, <1>5, <1>6, <1>7, FilesAre DEF Abstract!Close, Abstract!Idle

(* A call that the mode of the file forbids ends the program: the texts    *)
(* are what they would be if it had closed its file, or its buffer is lost. *)
LEMMA WrongModeRefined ==
  ASSUME SInv, SInv', ~perte, WrongMode
  PROVE  Abstract!Close \/ Abstract!Fail
<1>1. /\ appel = Idle /\ file # NULL /\ file' = NULL /\ UNCHANGED <<volume, appel, ret>>
      /\ perte' = (perte \/ (Writing /\ file.ptr % BLOCK_SIZE # 0))
  BY DEF WrongMode, Ready
<1>2. CASE perte'
  <2>1. ~Reads(file)
    BY <1>1, <1>2 DEF Writing, Reads
  <2> QED
    BY <1>2, <2>1, FailRefined
<1>3. CASE ~perte'
  <2>1. Sane(Volume, file) /\ perte = FALSE /\ appel.reste = <<>>
    BY <1>1, SaneNow, NothingLeft
  <2>2. perte' = FALSE /\ Volume' = Volume /\ Leading(Volume) /\ Owned(Volume) /\ IsVolume(Volume)
    BY <1>1, <1>3, <2>1, SgfParts DEF Volume, volume
  <2>3. SameTexts(Volume, file, Volume, NULL)
    <3>1. CASE Reads(file)
      BY <2>2, <3>1, TextsDepend DEF WrittenBy
    <3>2. CASE ~Reads(file)
      <4> DEFINE r == CloseFile(Volume, file)
      <4>1. SameTexts(Volume, file, r.vol, NULL)
        BY <1>1, <2>1, CloseText
      <4>2. ~(file.ptr % BLOCK_SIZE # 0)
        BY <1>1, <1>3, <3>2 DEF WrongMode, Writing, Reads
      <4>3. r = [Result(Volume, file) EXCEPT !.file = NULL]
        BY <4>2 DEF CloseFile
      <4>4. r.vol = Volume
        BY <4>3 DEF Result
      <4> QED
        BY <4>1, <4>4
    <3> QED
      BY <3>1, <3>2
  <2>4. Files' = FilesIn(Volume, NULL, FALSE) /\ Handle' = HandleIn(Volume, NULL, FALSE)
    BY <1>1, <2>2, FilesNext
  <2>5. FilesIn(Volume, NULL, FALSE) = FilesIn(Volume, file, FALSE)
    BY <2>2, <2>3, FilesSame
  <2>6. HandleIn(Volume, NULL, FALSE) = NULL
    BY DEF HandleIn
  <2> QED
    BY <1>1, <2>1, <2>2, <2>4, <2>5, <2>6, FilesAre DEF Abstract!Close, Abstract!Idle
<1> QED
  BY <1>2, <1>3

-----------------------------------------------------------------------------
(* A formatted disk holds no file. *)
LEMMA FicInitial == SgfInit => Abstract!FicInit
<1> SUFFICES ASSUME SgfInit PROVE Abstract!FicInit
  OBVIOUS
<1>1. appel.reste = <<>> /\ file = NULL /\ ret = Abstract!NoReply /\ perte = FALSE
  BY NothingLeft DEF SgfInit, NoReply, Reply, Abstract!NoReply, Abstract!Reply
<1>2. SInv
  BY SgfInitial
<1>3. Handle = NULL
  BY <1>1, <1>2, HandleNone
<1>4. Files = FilesIn(Volume, file, perte) /\ Leading(Volume)
  BY <1>2, FilesAre, SgfParts
<1>5. InodesOf(Volume) = {}
  <2>1. Volume.fat = create_empty_fat
    BY VolumeIs DEF SgfInit, Formatted, FormattedVolume
  <2>2. \A n \in Blocs : Volume.fat[n] # FAT_INODE
    BY <2>1, ValuesTyped DEF create_empty_fat
  <2> QED
    BY <2>2 DEF InodesOf
<1>6. ASSUME NEW nom \in NOMS PROVE Files[nom] = Blank
  <2>1. find_inode(Volume, nom) = -1
    BY <1>4, <1>5 DEF Leading
  <2>2. find_inode(Volume, nom) < 0
    BY <2>1
  <2> QED
    BY <1>4, <2>2 DEF FilesIn
<1> QED
  BY <1>1, <1>3, <1>6 DEF Abstract!FicInit

(* After a failure that was dropped, the program changes nothing any more. *)
LEMMA LostStays ==
  ASSUME SInv, SInv', [SgfNext]_sgf, perte
  PROVE  UNCHANGED Abstract!fichiers
<1>1. perte'
  <2>1. ASSUME NEW r, Leaves(r) PROVE perte'
    BY <2>1, Zenon DEF Leaves
  <2>2. CASE UNCHANGED perte
    BY <2>2
  <2>3. CASE \E nom \in NOMS : sgf_open_append(nom) \/ sgf_open_write(nom)
    BY <2>1, <2>3, Zenon DEF sgf_open_append, sgf_open_write
  <2>4. CASE sgf_getc
    BY <2>1, <2>2, <2>4, Zenon DEF sgf_getc
  <2>5. CASE \E pos \in -1 .. file.length : sgf_seek(pos)
    BY <2>1, <2>2, <2>5, Zenon DEF sgf_seek, SeekRefused
  <2>6. CASE sgf_puts \/ sgf_write
    BY <2>1, <2>6, Zenon DEF sgf_puts, sgf_write, Advance
  <2>7. CASE sgf_close
    BY <2>1, <2>7, Zenon DEF sgf_close
  <2>8. CASE WrongMode
    BY <2>8, Zenon DEF WrongMode
  <2> QED
    BY <2>2, <2>3, <2>4, <2>5, <2>6, <2>7, <2>8, Zenon
    DEF SgfNext, sgf, init_sgf, OpenUnknown, OpenFails, sgf_open_read, sgf_open_write_full, Begin
<1>2. Files' = [nom \in NOMS |-> Blank] /\ Handle' = NULL
  BY <1>1, FilesLost
<1>3. Files = [nom \in NOMS |-> Blank] /\ Handle = NULL
  <2>1. Files = FilesIn(Volume, file, perte) /\ Handle = HandleIn(Volume, file, perte)
    BY FilesAre
  <2> QED
    BY <2>1 DEF FilesIn, HandleIn
<1>4. perte = TRUE /\ perte' = TRUE
  <2>1. perte \in BOOLEAN /\ perte' \in BOOLEAN
    BY DEF SInv, State
  <2> QED
    BY <1>1, <2>1
<1> QED
  BY <1>2, <1>3, <1>4 DEF Abstract!fichiers

(* Mounting a disk, or a panic before anything is written. *)
LEMMA FilesUntouched ==
  ASSUME SInv, SInv', ~perte, UNCHANGED <<volume, file, appel, ret, perte>>
  PROVE  UNCHANGED Abstract!fichiers
BY FilesStay DEF Abstract!fichiers

(* Each step of Sgf is one of Fichiers, or changes nothing there. *)
LEMMA FicStep ==
  ASSUME SInv, SInv', [SgfNext]_sgf
  PROVE  [Abstract!FicNext]_(Abstract!fichiers)
<1>1. CASE perte
  BY <1>1, LostStays
<1>2. CASE ~perte
  <2>1. ASSUME Abstract!Open \/ Abstract!Read \/ Abstract!Seek \/ Abstract!Ask
               \/ Abstract!Write \/ Abstract!Close \/ Abstract!Fail
        PROVE  Abstract!FicNext
    BY <2>1 DEF Abstract!FicNext
  <2>2. CASE UNCHANGED sgf
    BY <1>2, <2>2, FilesUntouched DEF sgf
  <2>3. CASE init_sgf
    <3>1. file = NULL /\ appel = Idle
      BY <2>3 DEF init_sgf, SInv, State
    <3>2. UNCHANGED <<volume, file, appel, ret, perte>>
      BY <2>3, <3>1 DEF init_sgf
    <3> QED
      BY <1>2, <3>2, FilesUntouched
  <2>4. CASE sgf_open_write_full
    BY <1>2, <2>4, FilesUntouched DEF sgf_open_write_full
  <2>5. ASSUME NEW nom \in NOMS,
               OpenNull(nom) \/ sgf_open_read(nom) \/ sgf_open_append(nom) \/ sgf_open_write(nom)
        PROVE  Abstract!Open \/ Abstract!Fail
    BY <1>2, <2>5, OpenNullRefined, OpenReadRefined, OpenAppendRefined, OpenWriteRefined
  <2>6. CASE sgf_getc
    BY <1>2, <2>1, <2>6, GetcRefined
  <2>7. CASE Reading /\ \E pos \in -1 .. file.length : sgf_seek(pos)
    BY <1>2, <2>1, <2>7, SeekRefined
  <2>8. CASE \E op \in {"puts", "write"}, t \in TEXTES : Begin(op, t)
    BY <1>2, <2>1, <2>8, BeginRefined
  <2>9. CASE sgf_puts
    BY <1>2, <2>1, <2>9, PutsRefined
  <2>10. CASE sgf_write
    BY <1>2, <2>1, <2>10, WriteRefined
  <2>11. CASE sgf_close
    BY <1>2, <2>1, <2>11, CloseRefined
  <2>12. CASE WrongMode
    BY <1>2, <2>1, <2>12, WrongModeRefined
  <2> QED
    BY <2>1, <2>2, <2>3, <2>4, <2>5, <2>6, <2>7, <2>8, <2>9, <2>10, <2>11, <2>12
    DEF SgfNext, OpenNull
<1> QED
  BY <1>1, <1>2

(* The calls of sgf-io.h do what they promise, on a disk of any size: as   *)
(* long as no failure is dropped, a file reads as it was written, whatever *)
(* is opened, overwritten, appended to or read in between, and no call     *)
(* changes another file.  A failure that is dropped happens only where a   *)
(* file is opened to be written or is being written.                       *)
THEOREM FilesRefined == SgfSpec => FilesSpec
<1>1. SgfInit => Abstract!FicInit
  BY FicInitial
<1>2. SInv /\ SInv' /\ [SgfNext]_sgf => [Abstract!FicNext]_(Abstract!fichiers)
  BY FicStep
<1> QED
  BY <1>1, <1>2, SgfInvariant, PTL DEF SgfSpec, FilesSpec, Abstract!FicSpec

-----------------------------------------------------------------------------
(* Killed programs: what is known of the disk whatever has been killed.    *)
(* The blocks that the length of the inode i asks for are s[0], s[1], ...  *)
(* Its chain ends after them, or goes on in a block that is not of the     *)
(* file: then it is damaged.                                               *)
Size(v, i) == Blocks(v.disk[i].length)
EndOf(v, i, s) == IF Size(v, i) = 0 THEN v.disk[i].first ELSE v.fat[s[Size(v, i) - 1]]
Prefix(v, i, s) ==
  LET n == Size(v, i) IN
  /\ v.disk[i] \in InodeRecords /\ v.fat[i] = FAT_INODE
  /\ s \in [0 .. n - 1 -> Blocs]
  /\ n # 0 => v.disk[i].first = s[0]
  /\ \A k \in 0 .. n - 2 : v.fat[s[k]] = s[k + 1]
  /\ \A j, k \in 0 .. n - 1 : s[j] = s[k] => j = k
  /\ \/ EndOf(v, i, s) = FAT_EOF /\ v.disk[i].last = IF n = 0 THEN FAT_EOF ELSE s[n - 1]
     \/ EndOf(v, i, s) \in Blocs /\ EndOf(v, i, s) \notin ChainSet(s, n)

(* The inodes that names lead to, one name to each, have those blocks to   *)
(* themselves.                                                             *)
Live(v) == {find_inode(v, nom) : nom \in NOMS} \ {-1}
Core(v, S, i) == ChainSet(S[i], Size(v, i))
OneName(v) ==
  \A p, q \in NOMS : find_inode(v, p) = find_inode(v, q) /\ find_inode(v, p) # -1 => p = q
Cores(v, S) ==
  /\ \A i \in Live(v) : i \in Blocs /\ Prefix(v, i, S[i])
                         /\ \A m \in Core(v, S, i) : m \notin DirOf(v)
  /\ \A i, j \in Live(v) : i # j => \A m \in Core(v, S, i) : m \notin Core(v, S, j)
Kept(v, S) == Sound(v) /\ OneName(v) /\ Cores(v, S)
Damaged(v, S) == {i \in Live(v) : EndOf(v, i, S[i]) # FAT_EOF}

(* The number of those blocks, and what they are. *)
LEMMA PrefixFacts ==
  ASSUME NEW v, v.fat \in Fats, NEW i, NEW s, Prefix(v, i, s), NEW n, n = Size(v, i)
  PROVE  /\ n \in Nat /\ (n = 0 <=> v.disk[i].length = 0)
         /\ v.disk[i].length \in 0 .. MAX_LENGTH /\ v.disk[i].length \in Nat
         /\ v.disk[i].first \in Blocs \cup {FAT_EOF} /\ v.disk[i].last \in Blocs \cup {FAT_EOF}
         /\ s \in [0 .. n - 1 -> Blocs]
         /\ \A m \in ChainSet(s, n) : /\ m \in Blocs /\ v.fat[m] \in Blocs \cup {FAT_EOF}
                                     /\ v.fat[m] # FAT_FREE /\ v.fat[m] # FAT_INODE
                                     /\ v.fat[m] # FAT_RESERVED
         /\ EndOf(v, i, s) \in Blocs \cup {FAT_EOF}
         /\ EndOf(v, i, s) = FAT_EOF =>
              /\ IsChain(v.fat, v.disk[i].first, s, n)
              /\ v.disk[i].last = IF n = 0 THEN FAT_EOF ELSE s[n - 1]
         /\ EndOf(v, i, s) # FAT_EOF => EndOf(v, i, s) \in Blocs /\ EndOf(v, i, s) \notin ChainSet(s, n)
<1>1. v.disk[i].length \in 0 .. MAX_LENGTH /\ v.disk[i].length \in Nat
      /\ v.disk[i].first \in Blocs \cup {FAT_EOF} /\ v.disk[i].last \in Blocs \cup {FAT_EOF}
  BY SgfAssumption DEF Prefix, InodeRecords
<1>2. n \in Nat /\ (n = 0 <=> v.disk[i].length = 0)
  BY <1>1, BlocksAre DEF Size
<1>3. /\ s \in [0 .. n - 1 -> Blocs]
      /\ n # 0 => v.disk[i].first = s[0]
      /\ \A k \in 0 .. n - 2 : v.fat[s[k]] = s[k + 1]
      /\ \A j, k \in 0 .. n - 1 : s[j] = s[k] => j = k
      /\ \/ EndOf(v, i, s) = FAT_EOF /\ v.disk[i].last = IF n = 0 THEN FAT_EOF ELSE s[n - 1]
         \/ EndOf(v, i, s) \in Blocs /\ EndOf(v, i, s) \notin ChainSet(s, n)
  BY DEF Prefix
<1>4. EndOf(v, i, s) = IF n = 0 THEN v.disk[i].first ELSE v.fat[s[n - 1]]
  BY DEF EndOf
<1>5. FAT_EOF \notin Blocs
  BY ValuesTyped
<1>6. EndOf(v, i, s) \in Blocs \cup {FAT_EOF}
  BY <1>3
<1>7. \A k \in 0 .. n - 1 : s[k] \in Blocs /\ v.fat[s[k]] \in Blocs \cup {FAT_EOF}
  <2> TAKE k \in 0 .. n - 1
  <2>1. CASE k = n - 1
    BY <1>2, <1>3, <1>4, <1>6, <2>1
  <2>2. CASE k \in 0 .. n - 2
    <3>1. v.fat[s[k]] = s[k + 1] /\ k + 1 \in 0 .. n - 1
      BY <1>2, <1>3, <2>2
    <3> QED
      BY <1>3, <3>1
  <2> QED
    BY <1>2, <2>1, <2>2
<1>8. \A m \in ChainSet(s, n) : m \in Blocs /\ v.fat[m] \in Blocs \cup {FAT_EOF}
  BY <1>7 DEF ChainSet
<1>9. \A m \in ChainSet(s, n) : /\ v.fat[m] # FAT_FREE /\ v.fat[m] # FAT_INODE
                               /\ v.fat[m] # FAT_RESERVED
  BY <1>8, ValuesTyped
<1>10. EndOf(v, i, s) = FAT_EOF => IsChain(v.fat, v.disk[i].first, s, n)
  BY <1>2, <1>3, <1>4 DEF IsChain
<1>11. EndOf(v, i, s) = FAT_EOF => v.disk[i].last = IF n = 0 THEN FAT_EOF ELSE s[n - 1]
  BY <1>3, <1>5
<1>12. EndOf(v, i, s) # FAT_EOF => EndOf(v, i, s) \in Blocs /\ EndOf(v, i, s) \notin ChainSet(s, n)
  BY <1>3
<1> QED
  BY <1>1, <1>2, <1>3, <1>6, <1>8, <1>9, <1>10, <1>11, <1>12

(* As many blocks as the sequence has places. *)
LEMMA ChainSetCounts ==
  ASSUME NEW n \in Nat, NEW s \in [0 .. n - 1 -> Blocs],
         \A j, k \in 0 .. n - 1 : s[j] = s[k] => j = k
  PROVE  IsFiniteSet(ChainSet(s, n)) /\ Cardinality(ChainSet(s, n)) = n
<1>1. s \in Bijection(0 .. n - 1, ChainSet(s, n))
  BY DEF ChainSet, Bijection, Injection, Surjection, IsInjective
<1>2. IsFiniteSet(0 .. n - 1) /\ Cardinality(0 .. n - 1) = n
  BY FS_Interval
<1> QED
  BY <1>1, <1>2, FS_Bijection DEF ExistsBijection

(* The chain of a damaged file has a block more than that, at least. *)
LEMMA DamagedLonger ==
  ASSUME NEW v, v.fat \in Fats, NEW i, NEW s, Prefix(v, i, s), EndOf(v, i, s) # FAT_EOF
  PROVE  Cardinality(DataOf(v, i)) # Size(v, i)
<1> DEFINE n == Size(v, i)
           a == v.disk[i].first
           f == v.fat
           e == EndOf(v, i, s)
           X == ChainSet(s, n) \cup {e}
<1>1. /\ n \in Nat /\ s \in [0 .. n - 1 -> Blocs] /\ a \in Blocs \cup {FAT_EOF}
      /\ \A m \in ChainSet(s, n) : m \in Blocs /\ f[m] \in Blocs \cup {FAT_EOF}
      /\ e \in Blocs /\ e \notin ChainSet(s, n)
  BY PrefixFacts
<1>2. /\ n # 0 => a = s[0]
      /\ \A k \in 0 .. n - 2 : f[s[k]] = s[k + 1]
      /\ \A j, k \in 0 .. n - 1 : s[j] = s[k] => j = k
      /\ e = IF n = 0 THEN a ELSE f[s[n - 1]]
  BY DEF Prefix, EndOf
<1>3. a \in Values /\ f \in Fats
  BY <1>1, ValuesTyped
<1> HIDE DEF n, a, f, e
<1>4. /\ Walk(f, a, 0) = a
      /\ \A k \in Nat : Walk(f, a, k + 1) = Links(f)[Walk(f, a, k)]
  BY <1>3, WalkUnfolds
<1>5. \A m \in Blocs : Links(f)[m] = f[m]
  BY <1>3, LinksTyped
<1> DEFINE T == {k \in Nat : k <= n => Walk(f, a, k) = IF k < n THEN s[k] ELSE e}
<1>6. 0 \in T
  BY <1>1, <1>2, <1>4
<1>7. \A k \in Nat : k \in T => k + 1 \in T
  <2> SUFFICES ASSUME NEW k \in Nat, k \in T, k + 1 <= n
               PROVE  Walk(f, a, k + 1) = IF k + 1 < n THEN s[k + 1] ELSE e
    OBVIOUS
  <2>1. k < n /\ k \in 0 .. n - 1 /\ Walk(f, a, k) = s[k] /\ s[k] \in Blocs
    BY <1>1
  <2>2. Walk(f, a, k + 1) = f[s[k]]
    BY <1>4, <1>5, <2>1
  <2>3. CASE k + 1 < n
    BY <1>1, <1>2, <2>1, <2>2, <2>3
  <2>4. CASE k + 1 = n
    <3>1. k = n - 1 /\ n # 0
      BY <1>1, <2>1, <2>4
    <3> QED
      BY <1>2, <2>2, <2>4, <3>1
  <2> QED
    BY <1>1, <2>1, <2>3, <2>4
<1>8. Nat \subseteq T
  <2> HIDE DEF T
  <2> QED
    BY <1>6, <1>7, Induction
<1>9. \A k \in 0 .. n : Walk(f, a, k) = IF k < n THEN s[k] ELSE e
  BY <1>1, <1>8
<1>10. IsFiniteSet(ChainSet(s, n)) /\ Cardinality(ChainSet(s, n)) = n
  <2>1. s \in [0 .. n - 1 -> Blocs] /\ \A j, k \in 0 .. n - 1 : s[j] = s[k] => j = k
    BY <1>1, <1>2
  <2> QED
    BY <1>1, <2>1, ChainSetCounts
<1>11. IsFiniteSet(X) /\ Cardinality(X) = n + 1
  BY <1>1, <1>10, FS_AddElement
<1>12. X \subseteq Blocs
  BY <1>1
<1>13. n + 1 <= DISK_SIZE /\ DISK_SIZE \in Nat
  BY <1>11, <1>12, BlocsFinite, ValuesTyped
<1>14. ChainBlocks(f, a) = {Walk(f, a, j) : j \in 0 .. DISK_SIZE - 1} \cap Blocs
  BY <1>3, ChainBlocksUnfolds
<1>15. X \subseteq ChainBlocks(f, a)
  <2>1. \A k \in 0 .. n : k \in 0 .. DISK_SIZE - 1
    BY <1>1, <1>13
  <2>2. \A k \in 0 .. n - 1 : k \in 0 .. n /\ s[k] = Walk(f, a, k)
    BY <1>1, <1>9
  <2>3. e = Walk(f, a, n) /\ n \in 0 .. n
    BY <1>1, <1>9
  <2> QED
    BY <1>12, <1>14, <2>1, <2>2, <2>3 DEF ChainSet
<1>16. Cardinality(X) <= Cardinality(ChainBlocks(f, a)) /\ Cardinality(ChainBlocks(f, a)) \in Nat
  <2>1. ChainBlocks(f, a) \in SUBSET Blocs
    BY <1>14
  <2>2. IsFiniteSet(ChainBlocks(f, a)) /\ Cardinality(ChainBlocks(f, a)) \in Nat
    BY <2>1, BlocsFinite
  <2> HIDE DEF X
  <2> QED
    BY <1>15, <2>2, FS_Subset
<1> QED
  BY <1>1, <1>11, <1>16 DEF DataOf, n, a, f

(* A file stays where its blocks do, its first and last block, and their   *)
(* number.                                                                 *)
LEMMA PrefixKept ==
  ASSUME NEW v, NEW i, NEW s, Prefix(v, i, s), NEW w, w.disk[i] \in InodeRecords,
         w.disk[i].first = v.disk[i].first, w.disk[i].last = v.disk[i].last,
         Size(w, i) = Size(v, i), w.fat[i] = v.fat[i],
         v.fat \in Fats,
         \A m \in ChainSet(s, Size(v, i)) : w.fat[m] = v.fat[m]
  PROVE  Prefix(w, i, s) /\ EndOf(w, i, s) = EndOf(v, i, s)
<1> DEFINE n == Size(v, i)
<1>1. n \in Nat /\ s \in [0 .. n - 1 -> Blocs]
  BY PrefixFacts
<1>2. \A k \in 0 .. n - 1 : w.fat[s[k]] = v.fat[s[k]]
  BY DEF ChainSet
<1>3. n # 0 => n - 1 \in 0 .. n - 1
  BY <1>1
<1>4. \A k \in 0 .. n - 2 : k \in 0 .. n - 1
  BY <1>1
<1>5. EndOf(w, i, s) = EndOf(v, i, s)
  BY <1>2, <1>3 DEF EndOf
<1> QED
  BY <1>2, <1>4, <1>5 DEF Prefix

(* All of them stay but one, i0, that has its blocks to itself again; or   *)
(* all, if i0 is no inode that a name leads to.                            *)
Stays(v, S, w, T, i) ==
  /\ i \in Live(v) /\ T[i] = S[i] /\ w.disk[i] = v.disk[i] /\ w.fat[i] = v.fat[i]
  /\ \A m \in Core(v, S, i) : w.fat[m] = v.fat[m] /\ m \notin DirOf(w)
Settles(v, S, w, T, i) ==
  /\ i \in Blocs /\ Prefix(w, i, T[i])
  /\ \A m \in Core(w, T, i) :
       m \notin DirOf(w) /\ \A j \in Live(w) : j # i => m \notin Core(v, S, j)

(* Then the whole disk is kept, and no other file than i0 is damaged anew. *)
LEMMA KeptFrame ==
  ASSUME NEW v, NEW S, Kept(v, S), NEW w, Sound(w), OneName(w), NEW T, NEW i0,
         \A i \in Live(w) : i # i0 => Stays(v, S, w, T, i),
         i0 \in Live(w) => Settles(v, S, w, T, i0)
  PROVE  /\ Kept(w, T)
         /\ \A i \in Damaged(w, T) : i = i0 \/ i \in Damaged(v, S)
<1>1. v.fat \in Fats /\ \A i \in Live(v) : i \in Blocs /\ Prefix(v, i, S[i])
  BY DEF Kept, Sound, Cores
<1>2. ASSUME NEW i \in Live(w), i # i0
      PROVE  /\ Prefix(w, i, T[i]) /\ EndOf(w, i, T[i]) = EndOf(v, i, S[i])
             /\ Core(w, T, i) = Core(v, S, i) /\ i \in Live(v) /\ i \in Blocs
             /\ \A m \in Core(w, T, i) : m \notin DirOf(w)
  <2>1. /\ i \in Live(v) /\ T[i] = S[i] /\ w.disk[i] = v.disk[i] /\ w.fat[i] = v.fat[i]
        /\ \A m \in Core(v, S, i) : w.fat[m] = v.fat[m] /\ m \notin DirOf(w)
    BY <1>2 DEF Stays
  <2>2. Size(w, i) = Size(v, i) /\ Core(w, T, i) = Core(v, S, i)
    BY <2>1 DEF Size, Core
  <2>3. Prefix(v, i, S[i]) /\ w.disk[i] \in InodeRecords /\ i \in Blocs
    BY <1>1, <2>1 DEF Prefix
  <2>4. \A m \in ChainSet(S[i], Size(v, i)) : w.fat[m] = v.fat[m]
    BY <2>1 DEF Core
  <2>5. Prefix(w, i, S[i]) /\ EndOf(w, i, S[i]) = EndOf(v, i, S[i])
    BY <1>1, <2>1, <2>2, <2>3, <2>4, PrefixKept
  <2> QED
    BY <2>1, <2>2, <2>3, <2>5
<1>3. \A i \in Live(w) : i \in Blocs /\ Prefix(w, i, T[i])
                         /\ \A m \in Core(w, T, i) : m \notin DirOf(w)
  BY <1>2 DEF Settles
<1>4. ASSUME NEW i \in Live(w), NEW j \in Live(w), i # j, NEW m \in Core(w, T, i)
      PROVE  m \notin Core(w, T, j)
  <2>1. CASE i # i0 /\ j # i0
    <3>1. \A k \in Core(v, S, i) : k \notin Core(v, S, j)
      BY <1>2, <1>4, <2>1 DEF Kept, Cores
    <3> QED
      BY <1>2, <1>4, <2>1, <3>1
  <2>2. CASE i = i0
    BY <1>2, <1>4, <2>2 DEF Settles
  <2>3. CASE j = i0
    BY <1>2, <1>4, <2>3 DEF Settles
  <2> QED
    BY <2>1, <2>2, <2>3
<1>5. \A i \in Damaged(w, T) : i = i0 \/ i \in Damaged(v, S)
  BY <1>2 DEF Damaged
<1> QED
  BY <1>3, <1>4, <1>5 DEF Kept, Cores

(* What the number of damaged files was, it is if they are still those. *)
LEMMA FewDamaged ==
  ASSUME NEW v, NEW S, Kept(v, S), NEW D, D \subseteq Damaged(v, S), NEW t \in Nat,
         Cardinality(Damaged(v, S)) <= t
  PROVE  /\ IsFiniteSet(D) /\ Cardinality(D) \in Nat /\ Cardinality(D) <= t
         /\ Cardinality(Damaged(v, S)) \in Nat
<1>1. Damaged(v, S) \in SUBSET Blocs /\ D \in SUBSET Blocs
  BY DEF Kept, Cores, Damaged
<1>2. IsFiniteSet(Damaged(v, S)) /\ Cardinality(Damaged(v, S)) \in Nat
      /\ IsFiniteSet(D) /\ Cardinality(D) \in Nat
  BY <1>1, BlocsFinite
<1>3. Cardinality(D) <= Cardinality(Damaged(v, S))
  BY <1>2, FS_Subset
<1> QED
  BY <1>2, <1>3

(* One more may be. *)
LEMMA OneMoreDamaged ==
  ASSUME NEW v, NEW S, Kept(v, S), NEW w, NEW T, Kept(w, T), NEW i,
         \A j \in Damaged(w, T) : j = i \/ j \in Damaged(v, S), NEW t \in Nat,
         Cardinality(Damaged(v, S)) <= t
  PROVE  Cardinality(Damaged(w, T)) <= t + 1
<1> DEFINE D == Damaged(v, S)
           E == Damaged(w, T)
<1>1. D \in SUBSET Blocs /\ E \in SUBSET Blocs
  BY DEF Kept, Cores, Damaged
<1> HIDE DEF D, E
<1>2. IsFiniteSet(D) /\ Cardinality(D) \in Nat /\ IsFiniteSet(E) /\ Cardinality(E) \in Nat
  BY <1>1, BlocsFinite
<1>3. IsFiniteSet(D \cup {i}) /\ Cardinality(D \cup {i}) = IF i \in D THEN Cardinality(D) ELSE Cardinality(D) + 1
  BY <1>2, FS_AddElement
<1>4. E \in SUBSET (D \cup {i})
  BY DEF D, E
<1>5. Cardinality(E) <= Cardinality(D \cup {i})
  BY <1>3, <1>4, FS_Subset
<1>6. Cardinality(D) <= t
  BY DEF D
<1>7. Cardinality(E) <= t + 1
  BY <1>2, <1>3, <1>5, <1>6
<1> QED
  BY <1>7 DEF E

(* The open file: one that is written is not damaged, and the length in    *)
(* memory asks for as many blocks as the one on the disk; a reader has in  *)
(* its buffer what current is a copy of.                                   *)
IsOFile(fl) ==
  fl = [length |-> fl.length, first |-> fl.first, last |-> fl.last, inode |-> fl.inode,
        ptr |-> fl.ptr, current |-> fl.current, mode |-> fl.mode, buffer |-> fl.buffer]
WritesIn(v, S, fl) ==
  /\ IsOFile(fl) /\ ~Reads(fl) /\ fl.length \in 0 .. MAX_LENGTH
  /\ fl.inode \in Live(v) /\ fl.inode \notin Damaged(v, S)
  /\ fl.last = v.disk[fl.inode].last /\ fl.current = fl.last /\ fl.ptr = fl.length
  /\ v.disk[fl.inode].length <= fl.length /\ Blocks(fl.length) = Size(v, fl.inode)
ReadsIn(v, fl) ==
  /\ IsOFile(fl) /\ Reads(fl)
  /\ fl.inode \in Live(v) /\ fl.length = v.disk[fl.inode].length /\ fl.ptr \in Nat
  /\ fl.ptr # 0 => fl.current \in Blocs /\ fl.buffer = Octets(v.disk[fl.current])
Held(v, S, fl, t) ==
  /\ Kept(v, S) /\ Cardinality(Damaged(v, S)) <= t
  /\ fl = NULL \/ WritesIn(v, S, fl) \/ ReadsIn(v, fl)

(* The shorter of two lengths of as many blocks is behind by less than one. *)
LEMMA Behind ==
  ASSUME NEW L \in Nat, NEW d \in Nat, d <= L, Blocks(d) = Blocks(L)
  PROVE  L - d \in 0 .. BLOCK_SIZE - 1
<1> DEFINE B == BLOCK_SIZE
           q == L \div B
           r == L % B
           p == d \div B
           k == d % B
<1>1. B \in Nat /\ B >= 2
  BY SgfAssumption
<1>2. /\ q \in Nat /\ r \in 0 .. B - 1 /\ L = q * B + r
      /\ Blocks(L) = q + (IF r = 0 THEN 0 ELSE 1)
      /\ p \in Nat /\ k \in 0 .. B - 1 /\ d = p * B + k
      /\ Blocks(d) = p + (IF k = 0 THEN 0 ELSE 1)
  BY BlocksAre
<1> HIDE DEF B, q, r, p, k
<1>3. \A n \in Nat : n * B \in Nat /\ (n + 1) * B = n * B + B
  BY <1>1
<1>4. \/ p = q
      \/ q = p + 1 /\ r = 0 /\ k # 0
      \/ p = q + 1 /\ k = 0
  BY <1>2
<1>5. CASE p = q
  <2> DEFINE P == q * B
  <2>1. P \in Nat /\ L = P + r /\ d = P + k
    BY <1>2, <1>3, <1>5
  <2> HIDE DEF P
  <2> QED
    BY <1>1, <1>2, <2>1 DEF B
<1>6. CASE q = p + 1 /\ r = 0 /\ k # 0
  <2>1. L = p * B + B
    BY <1>1, <1>2, <1>3, <1>6
  <2>2. L - d = B - k /\ B - k \in 0 .. B - 1
    BY <1>1, <1>2, <1>3, <1>6, <2>1
  <2> QED
    BY <2>2 DEF B
<1>7. CASE p = q + 1 /\ k = 0
  <2>1. d = q * B + B
    BY <1>1, <1>2, <1>3, <1>7
  <2>2. d > L
    BY <1>1, <1>2, <1>3, <2>1
  <2> QED
    BY <1>1, <1>2, <2>2
<1> QED
  BY <1>4, <1>5, <1>6, <1>7 DEF B

(* The lengths, chain and ends of a file that is not damaged, as LengthAgrees *)
(* has them.                                                                *)
LEMMA SoundLength ==
  ASSUME NEW S, NEW t, Held(Volume, S, file, t), NEW i \in Live(Volume), i \notin Damaged(Volume, S)
  PROVE  LengthAgrees(i) /\ ChainEnds(fat, disk[i].first) /\ Data(i) = Core(Volume, S, i)
<1> DEFINE v == Volume
           s == S[i]
           n == Size(v, i)
           a == disk[i].first
           L == IF Written(i) THEN file.length ELSE disk[i].length
           last == IF L = 0 THEN FAT_EOF ELSE Walk(fat, a, Blocks(L) - 1)
<1>1. v.fat = fat /\ v.disk = disk
  BY VolumeIs
<1>2. fat \in Fats /\ i \in Blocs /\ Prefix(v, i, s) /\ EndOf(v, i, s) = FAT_EOF
  BY <1>1 DEF Held, Kept, Sound, Cores, Damaged
<1> HIDE DEF v
<1>3. /\ n \in Nat /\ (n = 0 <=> disk[i].length = 0)
      /\ disk[i].length \in Nat /\ a \in Blocs \cup {FAT_EOF}
      /\ IsChain(fat, a, s, n) /\ disk[i].last = IF n = 0 THEN FAT_EOF ELSE s[n - 1]
  BY <1>1, <1>2, PrefixFacts
<1>4. a \in Values
  BY <1>3, ValuesTyped
<1>5. Data(i) = ChainSet(s, n) /\ Cardinality(Data(i)) = n /\ ChainEnds(fat, a)
  BY <1>2, <1>3, <1>4, ChainFacts DEF Data
<1>6. /\ L \in Nat /\ disk[i].length <= L /\ Blocks(L) = n
      /\ Written(i) => file.last = disk[i].last /\ file.current = disk[i].last
  <2>1. CASE Written(i)
    <3>1. file # NULL /\ ~Reads(file) /\ file.inode = i /\ L = file.length
      BY <2>1 DEF Written, Reads
    <3>2. WritesIn(v, S, file)
      BY <3>1 DEF Held, ReadsIn, v
    <3>3. file.length \in Nat
      BY <3>2, SgfAssumption DEF WritesIn
    <3> QED
      BY <1>1, <3>1, <3>2, <3>3 DEF WritesIn
  <2>2. CASE ~Written(i)
    <3>1. L = disk[i].length /\ n = Blocks(disk[i].length)
      BY <1>1, <2>2 DEF Size
    <3> QED
      BY <1>3, <2>2, <3>1
  <2> QED
    BY <2>1, <2>2
<1> HIDE DEF L
<1>7. (n = 0 <=> L = 0)
  BY <1>6, BlocksAre
<1>8. L - disk[i].length \in 0 .. BLOCK_SIZE - 1
  <2>1. Blocks(disk[i].length) = Blocks(L)
    BY <1>1, <1>6 DEF Size
  <2> QED
    BY <1>3, <1>6, <2>1, Behind
<1>9. disk[i].last = last
  <2>1. CASE n = 0
    BY <1>3, <1>7, <2>1
  <2>2. CASE n # 0
    <3>1. n - 1 \in Nat /\ n - 1 < n
      BY <1>3, <2>2
    <3>2. Walk(fat, a, n - 1) = s[n - 1]
      BY <1>2, <1>3, <1>4, <3>1, ChainWalk
    <3> QED
      BY <1>3, <1>6, <1>7, <2>2, <3>2
  <2> QED
    BY <2>1, <2>2
<1>10. LengthAgrees(i)
  <2> HIDE DEF last
  <2>1. Cardinality(Data(i)) = Blocks(L)
    BY <1>5, <1>6
  <2> QED
    BY <1>6, <1>8, <1>9, <2>1 DEF LengthAgrees, L, last
<1> QED
  BY <1>5, <1>10 DEF Core, v

(* A damaged file is not taken for a sound one. *)
LEMMA DamagedLength ==
  ASSUME NEW S, NEW t, Held(Volume, S, file, t), NEW i \in Damaged(Volume, S)
  PROVE  ~LengthAgrees(i)
<1> DEFINE v == Volume
<1>1. v.fat = fat /\ v.disk = disk
  BY VolumeIs
<1>2. fat \in Fats /\ Prefix(v, i, S[i]) /\ EndOf(v, i, S[i]) # FAT_EOF
  BY <1>1 DEF Held, Kept, Sound, Cores, Damaged
<1>3. ~Written(i)
  <2> SUFFICES ASSUME Written(i) PROVE FALSE
    OBVIOUS
  <2>1. WritesIn(v, S, file)
    BY DEF Held, ReadsIn, Written, Reads
  <2> QED
    BY <2>1 DEF WritesIn, Written
<1> HIDE DEF v
<1>4. Cardinality(DataOf(v, i)) # Size(v, i)
  BY <1>1, <1>2, DamagedLonger
<1>5. Data(i) = DataOf(v, i) /\ Size(v, i) = Blocks(disk[i].length)
  BY <1>1 DEF Data, DataOf, Size
<1> QED
  BY <1>3, <1>4, <1>5 DEF LengthAgrees

(* What is to be shown of the files. *)
LEMMA HeldHarmless ==
  ASSUME NEW S, tues \in Nat, Held(Volume, S, file, tues)
  PROVE  /\ KillHarmsOne
         /\ \A nom \in NOMS : find_inode(Volume, nom) \in Damaged(Volume, S) => nom \in Abimes
         /\ tues = 0 => Damaged(Volume, S) = {}
<1> DEFINE v == Volume
           D == Damaged(v, S)
<1>1. v.fat = fat /\ v.disk = disk
  BY VolumeIs
<1>2. /\ Kept(v, S) /\ Sound(v) /\ OneName(v) /\ fat \in Fats /\ D \subseteq Live(v)
      /\ \A i \in Live(v) : i \in Blocs /\ fat[i] = FAT_INODE
      /\ \A i \in Live(v) : \A m \in Core(v, S, i) : m \notin DirOf(v)
      /\ \A i, j \in Live(v) : i # j => \A m \in Core(v, S, i) : m \notin Core(v, S, j)
  BY <1>1 DEF Held, Kept, Sound, Cores, Damaged, Prefix
<1>3. Nommes = Live(v) /\ DirBlocks = DirOf(v)
  BY <1>1 DEF Nommes, Live, DirBlocks, DirOf
<1>4. \A i \in Live(v) : i \notin D =>
        i \in Sains /\ Data(i) = Core(v, S, i)
  BY <1>2, <1>3, SoundLength DEF Sains
<1>5. \A i \in D : i \notin Sains
  BY DamagedLength DEF Sains
<1>6. Nommes \ Sains = D
  BY <1>2, <1>3, <1>4, <1>5
<1>7. \A i \in Sains : i \in Live(v) /\ Data(i) = Core(v, S, i)
  BY <1>3, <1>4, <1>5 DEF Sains
<1>8. Cardinality(D) <= tues /\ IsFiniteSet(D) /\ Cardinality(D) \in Nat
  BY <1>2, FewDamaged DEF Held
<1>9. \A nom \in NOMS : find_inode(v, nom) \in D => nom \in Abimes
  BY <1>6 DEF Abimes
<1>10. tues = 0 => D = {}
  BY <1>8, FS_EmptySet
<1>11. Nommes \subseteq Inodes
  BY <1>2, <1>3 DEF Inodes
<1>12. Cardinality(Nommes) = Cardinality({nom \in NOMS : find_inode(v, nom) # -1})
  <2> DEFINE N == {nom \in NOMS : find_inode(v, nom) # -1}
             g == [nom \in N |-> find_inode(v, nom)]
  <2>1. \A i \in Nommes : \E nom \in N : g[nom] = i
    BY DEF Nommes
  <2>2. \A p, q \in N : g[p] = g[q] => p = q
    BY <1>2 DEF OneName
  <2>3. \A nom \in N : g[nom] \in Nommes
    BY DEF Nommes
  <2>4. g \in Bijection(N, Nommes)
    <3>1. g \in [N -> Nommes]
      BY <2>3
    <3> HIDE DEF g, N
    <3> QED
      BY <2>1, <2>2, <3>1 DEF Bijection, Injection, Surjection, IsInjective
  <2>5. IsFiniteSet(Nommes)
    <3>1. Nommes \in SUBSET Blocs
      BY <1>2, <1>3
    <3> QED
      BY <3>1, BlocsFinite
  <2> HIDE DEF g, N
  <2>6. IsFiniteSet(N)
    BY <2>4, <2>5, FS_Injection DEF Bijection
  <2>7. Cardinality(Nommes) = Cardinality(N)
    BY <2>4, <2>6, FS_Bijection DEF ExistsBijection
  <2> QED
    BY <2>7 DEF N
<1>13. \A i, k \in Sains : i # k => Data(i) \cap Data(k) = {}
  BY <1>2, <1>7
<1>14. \A i \in Sains : Data(i) \cap (DirBlocks \cup Free(fat)) = {}
  <2> SUFFICES ASSUME NEW i \in Sains, NEW m \in Data(i)
               PROVE  m \notin DirBlocks /\ m \notin Free(fat)
    OBVIOUS
  <2>1. i \in Live(v) /\ m \in Core(v, S, i)
    BY <1>7
  <2>2. v.fat[m] # FAT_FREE
    BY <2>1, PrefixFacts, <1>1, <1>2 DEF Kept, Cores, Core
  <2> QED
    BY <1>1, <1>2, <1>3, <2>1, <2>2 DEF Free
<1>15. ChainEnds(fat, ADR_DIR)
  <2>1. PICK s, n : HasDirectory(v, s, n)
    BY <1>2 DEF Sound
  <2>2. IsChain(fat, ADR_DIR, s, n) /\ ADR_DIR \in Values
    BY <1>1, <2>1, ValuesTyped DEF HasDirectory, IsDirectory
  <2> QED
    BY <1>2, <2>2, ChainFacts
<1> HIDE DEF v, D
<1>16. KillHarmsOne
  BY <1>6, <1>8, <1>11, <1>12, <1>13, <1>14, <1>15 DEF KillHarmsOne, v
<1> QED
  BY <1>9, <1>10, <1>16 DEF v, D

(* The blocks that nothing depends on. *)
Scrap(v, S, m) ==
  m \notin DirOf(v) /\ m \notin Live(v) /\ \A i \in Live(v) : m \notin Core(v, S, i)

(* Free blocks are, and inodes that no name leads to. *)
LEMMA ScrapFound ==
  ASSUME NEW v, NEW S, Kept(v, S), NEW m \in Blocs,
         v.fat[m] = FAT_FREE \/ (v.fat[m] = FAT_INODE /\ m \notin Live(v))
  PROVE  Scrap(v, S, m)
<1>1. v.fat \in Fats /\ Sound(v) /\ \A i \in Live(v) : Prefix(v, i, S[i])
  BY DEF Kept, Sound, Cores
<1>2. m \notin DirOf(v)
  BY <1>1, DirOfMarked
<1>3. m \notin Live(v)
  BY <1>1, ValuesTyped DEF Prefix
<1>4. \A i \in Live(v) : m \notin Core(v, S, i)
  <2> SUFFICES ASSUME NEW i \in Live(v), m \in Core(v, S, i) PROVE FALSE
    OBVIOUS
  <2>1. v.fat[m] # FAT_FREE /\ v.fat[m] # FAT_INODE
    BY <1>1, PrefixFacts DEF Core
  <2> QED
    BY <2>1
<1> QED
  BY <1>2, <1>3, <1>4 DEF Scrap

(* The directory is marked, and neither an inode nor of a file. *)
LEMMA DirOfApart ==
  ASSUME NEW v, NEW S, Kept(v, S), NEW m \in DirOf(v)
  PROVE  m \in Blocs /\ m \notin Live(v) /\ \A i \in Live(v) : m \notin Core(v, S, i)
<1>1. v.fat \in Fats /\ Sound(v) /\ \A i \in Live(v) : v.fat[i] = FAT_INODE
  BY DEF Kept, Sound, Cores, Prefix
<1>2. m \in Blocs /\ v.fat[m] # FAT_INODE
  BY <1>1, DirOfMarked
<1> QED
  BY <1>1, <1>2 DEF Kept, Cores

(* As long as only those change, and what is in the files, all is kept. *)
Alike(v, S, w, T) ==
  /\ Kept(w, T) /\ SameNames(v, w) /\ Live(w) = Live(v) /\ DirOf(w) = DirOf(v)
  /\ \A i \in Live(v) : Core(w, T, i) = Core(v, S, i) /\ w.disk[i] = v.disk[i]
  /\ Damaged(w, T) = Damaged(v, S)

(* A write of such blocks alone leaves every file as it was. *)
LEMMA ScrapKept ==
  ASSUME NEW v, NEW S, Kept(v, S), NEW w, w.fat \in Fats, IsDisk(w.disk), Reserved(w.fat),
         \A m \in Blocs : w.fat[m] = v.fat[m] \/ Scrap(v, S, m),
         \A m \in Blocs : w.disk[m] = v.disk[m] \/ (m \notin DirOf(v) /\ m \notin Live(v))
  PROVE  Alike(v, S, w, S)
<1>1. /\ Sound(v) /\ v.fat \in Fats /\ OneName(v)
      /\ \A i \in Live(v) : i \in Blocs /\ Prefix(v, i, S[i])
                             /\ \A m \in Core(v, S, i) : m \notin DirOf(v)
  BY DEF Kept, Sound, Cores
<1>2. \A m \in DirOf(v) : w.fat[m] = v.fat[m] /\ w.disk[m] = v.disk[m]
  BY DirOfApart DEF Scrap
<1>3. Sound(w) /\ SameNames(v, w) /\ DirOf(w) = DirOf(v)
  BY <1>1, <1>2, DirectoryStays
<1>4. Live(w) = Live(v) /\ OneName(w)
  BY <1>1, <1>3 DEF SameNames, Live, OneName
<1>5. ASSUME NEW i \in Live(v)
      PROVE  /\ w.disk[i] = v.disk[i] /\ w.fat[i] = v.fat[i]
             /\ \A m \in Core(v, S, i) : w.fat[m] = v.fat[m] /\ m \in Blocs
             /\ Size(w, i) = Size(v, i) /\ Core(w, S, i) = Core(v, S, i)
  <2>1. i \in Blocs /\ w.disk[i] = v.disk[i] /\ w.fat[i] = v.fat[i]
    BY <1>1 DEF Scrap
  <2>2. \A m \in Core(v, S, i) : m \in Blocs
    BY <1>1, PrefixFacts DEF Core
  <2>3. Size(w, i) = Size(v, i) /\ Core(w, S, i) = Core(v, S, i)
    BY <2>1 DEF Size, Core
  <2> QED
    BY <2>1, <2>2, <2>3 DEF Scrap
<1>6. -1 \notin Live(w)
  BY DEF Live
<1>7. \A i \in Live(w) : i # -1 => Stays(v, S, w, S, i)
  BY <1>1, <1>3, <1>4, <1>5 DEF Stays
<1>8. Kept(w, S)
  BY <1>3, <1>4, <1>6, <1>7, KeptFrame
<1>9. \A i \in Live(v) : EndOf(w, i, S[i]) = EndOf(v, i, S[i])
  <2> SUFFICES ASSUME NEW i \in Live(v) PROVE EndOf(w, i, S[i]) = EndOf(v, i, S[i])
    OBVIOUS
  <2>1. Prefix(v, i, S[i]) /\ w.disk[i] \in InodeRecords
    BY <1>1, <1>5 DEF Prefix
  <2>2. \A m \in ChainSet(S[i], Size(v, i)) : w.fat[m] = v.fat[m]
    BY <1>5 DEF Core
  <2> QED
    BY <1>1, <1>5, <2>1, <2>2, PrefixKept
<1>10. Damaged(w, S) = Damaged(v, S)
  BY <1>4, <1>9 DEF Damaged
<1> QED
  BY <1>3, <1>4, <1>5, <1>8, <1>10 DEF Alike

(* The same blocks are the same files. *)
LEMMA AlikeSame ==
  ASSUME NEW v, NEW S, Kept(v, S), NEW w, w.fat = v.fat, w.disk = v.disk
  PROVE  Alike(v, S, w, S)
<1>1. w.fat \in Fats /\ IsDisk(w.disk) /\ Reserved(w.fat)
  BY DEF Kept, Sound
<1> QED
  BY <1>1, ScrapKept

(* No more than t files are damaged. *)
Fine(v, t) == \E S : Kept(v, S) /\ Cardinality(Damaged(v, S)) <= t
PastFine(v, t) ==
  \A k \in DOMAIN v.passe : Fine(v.passe[k], t) /\ v.passe[k] = OnDisk(v.passe[k])

(* What is on the disk when the program is killed, free blocks forgotten. *)
LEMMA ForgottenFine ==
  ASSUME NEW x, NEW t, Fine(x, t), NEW w, w.fat = Forgotten(x).fat, w.disk = Forgotten(x).disk,
         x = OnDisk(x)
  PROVE  Fine(w, t)
<1>1. PICK S : Kept(x, S) /\ Cardinality(Damaged(x, S)) <= t
  BY DEF Fine
<1>2. /\ w.fat = x.fat
      /\ w.disk = [n \in Blocs |-> IF x.fat[n] = FAT_FREE THEN Blank ELSE x.disk[n]]
  BY DEF Forgotten, OnDisk
<1>3. w.fat \in Fats /\ Reserved(w.fat) /\ IsDisk(w.disk)
  BY <1>1, <1>2 DEF Kept, Sound, IsDisk
<1>4. \A m \in Blocs : w.disk[m] = x.disk[m] \/ (m \notin DirOf(x) /\ m \notin Live(x))
  <2> SUFFICES ASSUME NEW m \in Blocs, x.fat[m] = FAT_FREE
               PROVE  m \notin DirOf(x) /\ m \notin Live(x)
    BY <1>2
  <2> QED
    BY <1>1, ScrapFound DEF Scrap
<1>5. Alike(x, S, w, S)
  BY <1>1, <1>2, <1>3, <1>4, ScrapKept
<1> QED
  BY <1>1, <1>5 DEF Fine, Alike

(* What a call has left behind, a block write later. *)
LEMMA WritePast ==
  ASSUME NEW v, IsVolume(v), NEW t, PastFine(v, t), Fine(OnDisk(v), t),
         NEW w, w.passe = Append(v.passe, OnDisk(v))
  PROVE  PastFine(w, t)
<1>1. PICK P : v.passe \in Seq(P)
  BY DEF IsVolume, IsPast
<1>2. v.passe \in Seq(P \cup {OnDisk(v)}) /\ OnDisk(v) \in P \cup {OnDisk(v)}
  BY <1>1
<1>3. OnDisk(v) = OnDisk(OnDisk(v))
  BY DEF OnDisk
<1> QED
  BY <1>2, <1>3 DEF PastFine

(* What a volume has, it has on the disk. *)
LEMMA FineOnDisk ==
  ASSUME NEW v, NEW S, Kept(v, S), NEW t, Cardinality(Damaged(v, S)) <= t
  PROVE  Fine(OnDisk(v), t)
<1>1. Alike(v, S, OnDisk(v), S)
  BY AlikeSame DEF OnDisk
<1> QED
  BY <1>1 DEF Alike, Fine

(* The length in the inode changes: by less than asks for another block. *)
LEMMA LengthKept ==
  ASSUME NEW v, NEW S, Kept(v, S), NEW i \in Live(v), NEW l, Blocks(l) = Size(v, i),
         NEW w, w.fat = v.fat, IsDisk(w.disk), w.disk[i] \in InodeRecords, w.disk[i].length = l,
         w.disk[i].first = v.disk[i].first, w.disk[i].last = v.disk[i].last,
         \A m \in Blocs : m # i => w.disk[m] = v.disk[m]
  PROVE  /\ Kept(w, S) /\ SameNames(v, w) /\ Live(w) = Live(v) /\ Damaged(w, S) = Damaged(v, S)
         /\ Size(w, i) = Size(v, i)
<1>1. /\ Sound(v) /\ v.fat \in Fats /\ Reserved(v.fat) /\ OneName(v)
      /\ \A j \in Live(v) : j \in Blocs /\ Prefix(v, j, S[j])
                             /\ \A m \in Core(v, S, j) : m \notin DirOf(v)
      /\ \A j, k \in Live(v) : j # k => \A m \in Core(v, S, j) : m \notin Core(v, S, k)
  BY DEF Kept, Sound, Cores
<1>2. v.disk[i] \in InodeRecords /\ Prefix(v, i, S[i]) /\ i \in Blocs
  BY <1>1 DEF Prefix
<1>4. \A m \in DirOf(v) : w.fat[m] = v.fat[m] /\ w.disk[m] = v.disk[m]
  BY DirOfApart
<1>5. Sound(w) /\ SameNames(v, w) /\ DirOf(w) = DirOf(v)
  BY <1>1, <1>4, DirectoryStays
<1>6. Live(w) = Live(v) /\ OneName(w)
  BY <1>1, <1>5 DEF SameNames, Live, OneName
<1>7. Size(w, i) = Size(v, i) /\ Core(w, S, i) = Core(v, S, i)
  BY DEF Size, Core
<1>8. Prefix(w, i, S[i]) /\ EndOf(w, i, S[i]) = EndOf(v, i, S[i])
  <2>1. w.fat[i] = v.fat[i] /\ \A m \in ChainSet(S[i], Size(v, i)) : w.fat[m] = v.fat[m]
    OBVIOUS
  <2>2. v.fat \in Fats /\ Size(w, i) = Size(v, i)
    BY <1>1, <1>7
  <2> QED
    BY <1>2, <2>1, <2>2, PrefixKept
<1>9. \A j \in Live(w) : j # i => Stays(v, S, w, S, j)
  BY <1>1, <1>5, <1>6 DEF Stays
<1>10. Settles(v, S, w, S, i)
  BY <1>1, <1>2, <1>5, <1>6, <1>7, <1>8 DEF Settles
<1>11. Kept(w, S)
  BY <1>5, <1>6, <1>9, <1>10, KeptFrame
<1>12. \A j \in Live(v) : j # i => EndOf(w, j, S[j]) = EndOf(v, j, S[j])
  BY <1>1, <1>5 DEF EndOf, Size
<1>13. Damaged(w, S) = Damaged(v, S)
  BY <1>6, <1>8, <1>12 DEF Damaged
<1> QED
  BY <1>5, <1>6, <1>7, <1>11, <1>13

(* The file i, not damaged, gets the free block a: what changes. *)
Growing(v, S, i, a, w) ==
  /\ Kept(v, S) /\ i \in Live(v) /\ i \notin Damaged(v, S)
  /\ a \in Blocs /\ v.fat[a] = FAT_FREE
  /\ w.fat \in Fats /\ IsDisk(w.disk) /\ w.fat[i] = v.fat[i]
  /\ \A m \in Blocs : m # a /\ m # v.disk[i].last => w.fat[m] = v.fat[m]
  /\ \A m \in Blocs : m # i /\ m # a => w.disk[m] = v.disk[m]

(* The last block is of the file, and no other file or the directory is *)
(* touched.                                                             *)
LEMMA GrowingApart ==
  ASSUME NEW v, NEW S, NEW i, NEW a, NEW w, Growing(v, S, i, a, w), NEW n, n = Size(v, i)
  PROVE  /\ Scrap(v, S, a) /\ i \in Blocs /\ Prefix(v, i, S[i]) /\ n \in Nat
         /\ IF n = 0 THEN v.disk[i].last = FAT_EOF /\ v.disk[i].first = FAT_EOF
            ELSE /\ n - 1 \in 0 .. n - 1 /\ v.disk[i].last = S[i][n - 1]
                 /\ S[i][n - 1] \in Blocs /\ S[i][n - 1] \in Core(v, S, i)
                 /\ v.disk[i].first # FAT_EOF
         /\ Sound(w) /\ SameNames(v, w) /\ DirOf(w) = DirOf(v) /\ Live(w) = Live(v) /\ OneName(w)
         /\ \A j \in Live(w) : j # i => Stays(v, S, w, S, j)
<1>1. /\ Kept(v, S) /\ Sound(v) /\ v.fat \in Fats /\ Reserved(v.fat) /\ OneName(v)
      /\ \A j \in Live(v) : j \in Blocs /\ Prefix(v, j, S[j]) /\ v.fat[j] = FAT_INODE
                             /\ \A m \in Core(v, S, j) : m \notin DirOf(v)
      /\ \A j, k \in Live(v) : j # k => \A m \in Core(v, S, j) : m \notin Core(v, S, k)
  BY DEF Growing, Kept, Sound, Cores, Prefix
<1>2. Scrap(v, S, a) /\ i \in Blocs /\ Prefix(v, i, S[i]) /\ i \in Live(v)
  BY <1>1, ScrapFound DEF Growing
<1>3. EndOf(v, i, S[i]) = FAT_EOF
  BY <1>2 DEF Growing, Damaged
<1>4. n \in Nat /\ S[i] \in [0 .. n - 1 -> Blocs]
      /\ v.disk[i].last = (IF n = 0 THEN FAT_EOF ELSE S[i][n - 1])
  BY <1>1, <1>2, <1>3, PrefixFacts
<1>5. n # 0 => v.disk[i].first = S[i][0]
  BY <1>2 DEF Prefix
<1>6. n = 0 => v.disk[i].first = FAT_EOF
  BY <1>3 DEF EndOf
<1>7. ASSUME n # 0
      PROVE  /\ n - 1 \in 0 .. n - 1 /\ v.disk[i].last = S[i][n - 1]
             /\ S[i][n - 1] \in Blocs /\ S[i][n - 1] \in Core(v, S, i)
             /\ v.disk[i].first # FAT_EOF
  <2>1. n - 1 \in 0 .. n - 1 /\ 0 \in 0 .. n - 1
    BY <1>4, <1>7
  <2> QED
    BY <1>4, <1>5, <1>7, <2>1, ValuesTyped DEF Core, ChainSet
<1>8. \A m \in Blocs : w.fat[m] = v.fat[m] \/ m = a \/ m \in Core(v, S, i)
  <2>1. CASE n = 0
    BY <1>4, <2>1, ValuesTyped DEF Growing
  <2>2. CASE n # 0
    BY <1>7, <2>2 DEF Growing
  <2> QED
    BY <2>1, <2>2
<1>9. \A m \in DirOf(v) : w.fat[m] = v.fat[m] /\ w.disk[m] = v.disk[m]
  <2> SUFFICES ASSUME NEW m \in DirOf(v) PROVE w.fat[m] = v.fat[m] /\ w.disk[m] = v.disk[m]
    OBVIOUS
  <2>1. m \in Blocs /\ m # i /\ m # a /\ m \notin Core(v, S, i)
    BY <1>1, <1>2, DirOfApart DEF Scrap
  <2> QED
    BY <1>8, <2>1 DEF Growing
<1>10. Reserved(w.fat)
  <2> SUFFICES ASSUME NEW m \in Blocs, m < ADR_DIR PROVE w.fat[m] = FAT_RESERVED
    BY DEF Reserved
  <2>1. v.fat[m] = FAT_RESERVED
    BY <1>1 DEF Reserved
  <2>2. m # a
    BY <2>1, ValuesTyped DEF Growing
  <2>3. m \notin Core(v, S, i)
    BY <1>1, <1>2, <2>1, PrefixFacts DEF Core
  <2> QED
    BY <1>8, <2>1, <2>2, <2>3
<1>11. Sound(w) /\ SameNames(v, w) /\ DirOf(w) = DirOf(v)
  BY <1>1, <1>9, <1>10, DirectoryStays DEF Growing
<1>12. Live(w) = Live(v) /\ OneName(w)
  BY <1>1, <1>11 DEF SameNames, Live, OneName
<1>13. ASSUME NEW j \in Live(w), j # i PROVE Stays(v, S, w, S, j)
  <2>1. j \in Live(v) /\ j \in Blocs /\ j # a /\ j \notin Core(v, S, i)
    <3>1. j \in Live(v) /\ j \in Blocs /\ v.fat[j] = FAT_INODE
      BY <1>1, <1>12, <1>13
    <3>2. j \notin Core(v, S, i)
      BY <1>1, <1>2, <3>1, PrefixFacts DEF Core
    <3> QED
      BY <1>2, <3>1, <3>2 DEF Scrap
  <2>2. w.disk[j] = v.disk[j] /\ w.fat[j] = v.fat[j]
    BY <1>8, <1>13, <2>1 DEF Growing
  <2>3. \A m \in Core(v, S, j) : m \in Blocs /\ w.fat[m] = v.fat[m] /\ m \notin DirOf(w)
    <3> SUFFICES ASSUME NEW m \in Core(v, S, j)
                 PROVE  m \in Blocs /\ w.fat[m] = v.fat[m] /\ m \notin DirOf(w)
      OBVIOUS
    <3>1. m \in Blocs /\ m # a /\ m \notin Core(v, S, i) /\ m \notin DirOf(v)
      BY <1>1, <1>2, <1>13, <2>1, PrefixFacts DEF Core, Scrap
    <3> QED
      BY <1>8, <1>11, <3>1
  <2> QED
    BY <2>1, <2>2, <2>3 DEF Stays
<1> QED
  BY <1>2, <1>4, <1>6, <1>7, <1>11, <1>12, <1>13

(* Until the length asks for it, the file is damaged if it is killed. *)
LEMMA GrowingKept ==
  ASSUME NEW v, NEW S, NEW i, NEW a, NEW w, Growing(v, S, i, a, w), Size(w, i) = Size(v, i),
         Size(v, i) # 0 => w.fat[v.disk[i].last] = a,
         \/ w.disk[i] = v.disk[i]
         \/ /\ w.disk[i] \in InodeRecords /\ w.disk[i].last = a
            /\ w.disk[i].first = IF v.disk[i].first = FAT_EOF THEN a ELSE v.disk[i].first
  PROVE  /\ Kept(w, S) /\ SameNames(v, w) /\ Live(w) = Live(v)
         /\ \A j \in Damaged(w, S) : j = i \/ j \in Damaged(v, S)
<1> DEFINE s == S[i]
           n == Size(v, i)
<1>1. /\ Scrap(v, S, a) /\ i \in Blocs /\ Prefix(v, i, s) /\ n \in Nat
      /\ IF n = 0 THEN v.disk[i].last = FAT_EOF /\ v.disk[i].first = FAT_EOF
         ELSE /\ n - 1 \in 0 .. n - 1 /\ v.disk[i].last = s[n - 1]
              /\ s[n - 1] \in Blocs /\ s[n - 1] \in Core(v, S, i)
              /\ v.disk[i].first # FAT_EOF
      /\ Sound(w) /\ SameNames(v, w) /\ DirOf(w) = DirOf(v) /\ Live(w) = Live(v) /\ OneName(w)
      /\ \A j \in Live(w) : j # i => Stays(v, S, w, S, j)
  BY GrowingApart
<1>2. /\ s \in [0 .. n - 1 -> Blocs] /\ (n # 0 => v.disk[i].first = s[0])
      /\ \A k \in 0 .. n - 2 : v.fat[s[k]] = s[k + 1]
      /\ \A j, k \in 0 .. n - 1 : s[j] = s[k] => j = k
      /\ v.disk[i] \in InodeRecords /\ v.fat[i] = FAT_INODE
  BY <1>1 DEF Prefix
<1>3. /\ Kept(v, S) /\ i \in Live(v) /\ a \in Blocs /\ w.fat[i] = v.fat[i]
      /\ \A m \in Blocs : m # a /\ m # v.disk[i].last => w.fat[m] = v.fat[m]
  BY DEF Growing
<1>4. Core(w, S, i) = Core(v, S, i) /\ Core(v, S, i) = ChainSet(s, n) /\ a \notin ChainSet(s, n)
  BY <1>1, <1>3 DEF Core, Scrap
<1>5. w.disk[i] \in InodeRecords /\ (n # 0 => w.disk[i].first = s[0])
  BY <1>1, <1>2
<1>6. \A k \in 0 .. n - 2 : w.fat[s[k]] = s[k + 1]
  <2> SUFFICES ASSUME NEW k \in 0 .. n - 2 PROVE w.fat[s[k]] = s[k + 1]
    OBVIOUS
  <2>1. k \in 0 .. n - 1 /\ k # n - 1 /\ n # 0
    BY <1>1
  <2>2. s[k] \in Blocs /\ s[k] # s[n - 1] /\ s[k] \in ChainSet(s, n)
    BY <1>1, <1>2, <2>1 DEF ChainSet
  <2> QED
    BY <1>1, <1>2, <1>3, <1>4, <2>1, <2>2
<1>7. EndOf(w, i, s) = IF n = 0 THEN w.disk[i].first ELSE a
  BY <1>1 DEF EndOf
<1>8. \/ EndOf(w, i, s) = FAT_EOF /\ w.disk[i].last = IF n = 0 THEN FAT_EOF ELSE s[n - 1]
      \/ EndOf(w, i, s) \in Blocs /\ EndOf(w, i, s) \notin ChainSet(s, n)
  BY <1>1, <1>3, <1>4, <1>7
<1>9. Prefix(w, i, s)
  BY <1>2, <1>3, <1>5, <1>6, <1>8 DEF Prefix
<1>10. Settles(v, S, w, S, i)
  <2>1. \A m \in Core(v, S, i) : m \notin DirOf(v) /\ \A j \in Live(v) : j # i => m \notin Core(v, S, j)
    BY <1>3 DEF Kept, Cores
  <2> QED
    BY <1>1, <1>4, <1>9, <2>1 DEF Settles
<1> QED
  BY <1>1, <1>3, <1>10, KeptFrame

(* Then it has the block. *)
Lengthened(v, S, i, a, w, T) ==
  /\ Growing(v, S, i, a, w) /\ Size(w, i) = Size(v, i) + 1
  /\ Size(v, i) # 0 => w.fat[v.disk[i].last] = a
  /\ w.fat[a] = FAT_EOF /\ w.disk[i] \in InodeRecords /\ w.disk[i].last = a
  /\ w.disk[i].first = IF v.disk[i].first = FAT_EOF THEN a ELSE v.disk[i].first
  /\ \A j \in Live(v) : T[j] = IF j = i THEN Extended(S[i], Size(v, i), a) ELSE S[j]

(* The file has one block more to itself and is not damaged. *)
LEMMA GrownKept ==
  ASSUME NEW v, NEW S, NEW i, NEW a, NEW w, NEW T, Lengthened(v, S, i, a, w, T)
  PROVE  /\ Kept(w, T) /\ SameNames(v, w) /\ Live(w) = Live(v)
         /\ i \notin Damaged(w, T) /\ \A j \in Damaged(w, T) : j \in Damaged(v, S)
<1> DEFINE s == S[i]
           n == Size(v, i)
           t == Extended(s, n, a)
<1> USE DEF Lengthened
<1>1. /\ Scrap(v, S, a) /\ i \in Blocs /\ Prefix(v, i, s) /\ n \in Nat
      /\ IF n = 0 THEN v.disk[i].last = FAT_EOF /\ v.disk[i].first = FAT_EOF
         ELSE /\ n - 1 \in 0 .. n - 1 /\ v.disk[i].last = s[n - 1]
              /\ s[n - 1] \in Blocs /\ s[n - 1] \in Core(v, S, i)
              /\ v.disk[i].first # FAT_EOF
      /\ Sound(w) /\ SameNames(v, w) /\ DirOf(w) = DirOf(v) /\ Live(w) = Live(v) /\ OneName(w)
      /\ \A j \in Live(w) : j # i => Stays(v, S, w, S, j)
  BY GrowingApart
<1>2. /\ s \in [0 .. n - 1 -> Blocs] /\ (n # 0 => v.disk[i].first = s[0])
      /\ \A k \in 0 .. n - 2 : v.fat[s[k]] = s[k + 1]
      /\ \A j, k \in 0 .. n - 1 : s[j] = s[k] => j = k
      /\ v.fat[i] = FAT_INODE
  BY <1>1 DEF Prefix
<1>3. /\ Kept(v, S) /\ i \in Live(v) /\ a \in Blocs /\ w.fat[i] = v.fat[i]
      /\ \A m \in Blocs : m # a /\ m # v.disk[i].last => w.fat[m] = v.fat[m]
  BY DEF Growing
<1>4. Core(v, S, i) = ChainSet(s, n) /\ a \notin ChainSet(s, n)
  BY <1>1, <1>3 DEF Core, Scrap
<1>5. /\ t \in [0 .. n -> Blocs] /\ t[n] = a /\ \A k \in 0 .. n - 1 : t[k] = s[k]
      /\ ChainSet(t, n + 1) = ChainSet(s, n) \cup {a}
  <2>1. n \in Nat /\ s \in [0 .. n - 1 -> Blocs] /\ a \in Blocs
    BY <1>1, <1>2, <1>3
  <2> HIDE DEF n, s
  <2>2. t = [j \in 0 .. n |-> IF j = n THEN a ELSE s[j]]
    BY DEF Extended
  <2>3. t \in [0 .. n -> Blocs] /\ t[n] = a /\ \A k \in 0 .. n - 1 : t[k] = s[k]
    BY <2>1, <2>2
  <2> QED
    BY <2>1, <2>3, ChainSetExtended
<1>6. T[i] = t /\ Size(w, i) = n + 1 /\ Core(w, T, i) = ChainSet(t, n + 1)
  BY <1>3 DEF Core
<1>7. w.disk[i].first = t[0]
  BY <1>1, <1>2, <1>5
<1>8. \A k \in 0 .. n - 1 : w.fat[t[k]] = t[k + 1]
  <2> SUFFICES ASSUME NEW k \in 0 .. n - 1 PROVE w.fat[t[k]] = t[k + 1]
    OBVIOUS
  <2>1. CASE k = n - 1
    <3>1. n # 0 /\ k + 1 = n /\ t[k] = s[n - 1]
      BY <1>1, <1>5, <2>1
    <3> QED
      BY <1>1, <1>5, <3>1
  <2>2. CASE k # n - 1
    <3>1. k \in 0 .. n - 2 /\ k + 1 \in 0 .. n - 1 /\ n # 0 /\ n - 1 \in 0 .. n - 1
      BY <1>1, <2>2
    <3>2. s[k] \in Blocs /\ s[k] # s[n - 1] /\ s[k] \in ChainSet(s, n)
      BY <1>1, <1>2, <2>2, <3>1 DEF ChainSet
    <3>3. w.fat[s[k]] = v.fat[s[k]]
      BY <1>1, <1>3, <1>4, <3>1, <3>2
    <3> QED
      BY <1>2, <1>5, <3>1, <3>3
  <2> QED
    BY <2>1, <2>2
<1>9. \A j, k \in 0 .. n : t[j] = t[k] => j = k
  <2>1. \A k \in 0 .. n : k = n \/ k \in 0 .. n - 1
    BY <1>1
  <2>2. \A k \in 0 .. n - 1 : s[k] # a
    BY <1>4 DEF ChainSet
  <2> QED
    BY <1>2, <1>5, <2>1, <2>2
<1>10. EndOf(w, i, t) = FAT_EOF /\ w.disk[i].last = t[n] /\ n + 1 # 0 /\ (n + 1) - 1 = n
  BY <1>1, <1>5, <1>6 DEF EndOf
<1>11. Prefix(w, i, t)
  <2> HIDE DEF t, n
  <2>1. (n + 1) - 2 = n - 1
    BY <1>1
  <2> QED
    BY <1>2, <1>3, <1>5, <1>6, <1>7, <1>8, <1>9, <1>10, <2>1 DEF Prefix
<1>12. Settles(v, S, w, T, i)
  <2>1. \A m \in Core(v, S, i) : m \notin DirOf(v) /\ \A j \in Live(v) : j # i => m \notin Core(v, S, j)
    BY <1>3 DEF Kept, Cores
  <2>2. \A m \in Core(w, T, i) : m \in Core(v, S, i) \/ m = a
    BY <1>4, <1>5, <1>6
  <2> QED
    BY <1>1, <1>6, <1>11, <2>1, <2>2 DEF Settles, Scrap
<1>13. \A j \in Live(w) : j # i => Stays(v, S, w, T, j)
  BY <1>1, <1>3 DEF Stays
<1>14. Kept(w, T) /\ \A j \in Damaged(w, T) : j = i \/ j \in Damaged(v, S)
  BY <1>1, <1>3, <1>12, <1>13, KeptFrame
<1>15. i \notin Damaged(w, T)
  BY <1>6, <1>10 DEF Damaged
<1> QED
  BY <1>1, <1>14, <1>15

(* Flush(): two block writes, and the same files after each. *)
LEMMA FlushKept ==
  ASSUME NEW v, IsVolume(v), NEW S, Kept(v, S), NEW t, Cardinality(Damaged(v, S)) <= t,
         PastFine(v, t), NEW fl, NEW i, i = fl.inode, i \in Live(v), i \notin Damaged(v, S),
         fl.current = v.disk[i].last, fl.length \in 0 .. MAX_LENGTH, fl.length # 0,
         Blocks(fl.length) = Size(v, i), NEW r, r = Flush(v, fl)
  PROVE  /\ r = Result(r.vol, fl) /\ PastFine(r.vol, t)
         /\ Kept(r.vol, S) /\ Live(r.vol) = Live(v) /\ Damaged(r.vol, S) = Damaged(v, S)
         /\ r.vol.disk[i].length = fl.length /\ r.vol.disk[i].last = v.disk[i].last
         /\ Size(r.vol, i) = Size(v, i)
<1> DEFINE c == fl.current
           n == Size(v, i)
           u == write_block(v, c, fl.buffer)
           w == SetLength(u, fl)
<1>1. /\ v.fat \in Fats /\ Reserved(v.fat) /\ Sound(v) /\ i \in Blocs /\ Prefix(v, i, S[i])
      /\ v.disk[i] \in InodeRecords /\ EndOf(v, i, S[i]) = FAT_EOF
  BY DEF Kept, Sound, Cores, Prefix, Damaged
<1>2. n \in Nat /\ n # 0 /\ v.disk[i].last = S[i][n - 1] /\ S[i] \in [0 .. n - 1 -> Blocs]
  <2>1. n # 0
    BY BlocksAre, SgfAssumption
  <2> QED
    BY <1>1, <2>1, PrefixFacts
<1>3. c \in Blocs /\ c \in Core(v, S, i)
  <2>1. n - 1 \in 0 .. n - 1
    BY <1>2
  <2> QED
    BY <1>2, <2>1 DEF Core, ChainSet
<1>4. c \notin DirOf(v) /\ c \notin Live(v)
  <2>1. v.fat[c] # FAT_INODE
    BY <1>1, <1>3, PrefixFacts DEF Core
  <2> QED
    BY <1>3, <2>1 DEF Kept, Cores, Prefix
<1>5. /\ IsVolume(u) /\ u.fat = v.fat /\ u.passe = Append(v.passe, OnDisk(v))
      /\ \A m \in Blocs : m # c => u.disk[m] = v.disk[m]
  BY <1>3, BlockWritten
<1>6. Alike(v, S, u, S)
  <2>1. IsDisk(u.disk)
    BY <1>5 DEF IsVolume
  <2> HIDE DEF u, c
  <2> QED
    BY <1>1, <1>4, <1>5, <2>1, ScrapKept
<1> HIDE DEF u
<1>7. Kept(u, S) /\ Live(u) = Live(v) /\ Damaged(u, S) = Damaged(v, S) /\ u.disk[i] = v.disk[i]
  BY <1>6 DEF Alike
<1>8. PastFine(u, t)
  BY <1>5, FineOnDisk, WritePast
<1>9. /\ IsVolume(w) /\ w.fat = u.fat /\ w.disk[i] = [u.disk[i] EXCEPT !.length = fl.length]
      /\ \A m \in Blocs : m # i => w.disk[m] = u.disk[m]
      /\ w.passe = Append(u.passe, OnDisk(u))
  <2> DEFINE b == [u.disk[i] EXCEPT !.length = fl.length]
  <2>1. w = write_block(u, i, b)
    BY DEF SetLength
  <2> HIDE DEF w, b
  <2>2. /\ IsVolume(w) /\ w.fat = u.fat /\ w.disk[i] = b
        /\ \A m \in Blocs : m # i => w.disk[m] = u.disk[m]
        /\ w.passe = Append(u.passe, OnDisk(u))
    BY <1>1, <1>5, <2>1, BlockWritten
  <2> QED
    BY <2>2 DEF b
<1> HIDE DEF w
<1>10. PastFine(w, t)
  BY <1>5, <1>7, <1>8, <1>9, FineOnDisk, WritePast
<1>11. /\ w.disk[i] \in InodeRecords /\ w.disk[i].length = fl.length
       /\ w.disk[i].first = u.disk[i].first /\ w.disk[i].last = u.disk[i].last
  BY <1>1, <1>7, <1>9, InodeSet
<1>12. /\ Kept(w, S) /\ Live(w) = Live(u) /\ Damaged(w, S) = Damaged(u, S) /\ Size(w, i) = Size(u, i)
  <2>1. IsDisk(w.disk) /\ Size(u, i) = n /\ w.fat = u.fat
        /\ \A m \in Blocs : m # i => w.disk[m] = u.disk[m]
    BY <1>7, <1>9 DEF IsVolume, Size
  <2>2. Kept(u, S) /\ i \in Live(u) /\ Blocks(fl.length) = Size(u, i)
    BY <1>7, <2>1
  <2> QED
    BY <1>11, <2>1, <2>2, LengthKept
<1>13. r = Result(w, fl)
  BY <1>3 DEF Flush, NU_BLOC_OK, w, u
<1>14. r.vol = w
  BY <1>13 DEF Result
<1>15. Size(u, i) = n
  BY <1>7 DEF Size
<1> QED
  BY <1>7, <1>10, <1>11, <1>12, <1>13, <1>14, <1>15

(* Between two writes of the loops: t files at most are damaged. *)
Resting(v, S, t) ==
  /\ IsVolume(v) /\ Kept(v, S) /\ t \in Nat /\ Cardinality(Damaged(v, S)) <= t
  /\ PastFine(v, t + 1)

(* What sgf_append_block() has done when it ends, and what it left before. *)
LEMMA AppendKept ==
  ASSUME NEW v, NEW S, NEW t, Resting(v, S, t), NEW fl, NEW i, i = fl.inode, i \in Live(v), i \notin Damaged(v, S),
         fl.current = v.disk[i].last, fl.length \in 0 .. MAX_LENGTH,
         Free(v.fat) # {}, NEW a, a = alloc_block(v.fat),
         NEW r, r = sgf_append_block(v, fl)
  PROVE  /\ r = Result(r.vol, Linked(fl, a)) /\ IsVolume(r.vol) /\ PastFine(r.vol, t + 1)
         /\ Growing(v, S, i, a, r.vol) /\ r.vol.fat[a] = FAT_EOF
         /\ Size(v, i) # 0 => r.vol.fat[v.disk[i].last] = a
         /\ r.vol.disk[i] \in InodeRecords /\ r.vol.disk[i].last = a
         /\ r.vol.disk[i].length = fl.length
         /\ r.vol.disk[i].first = IF v.disk[i].first = FAT_EOF THEN a ELSE v.disk[i].first
<1> DEFINE c == fl.current
           n == Size(v, i)
           u == IF c = FAT_EOF THEN v ELSE set_fat(v, c, a)
           w == set_fat(u, a, FAT_EOF)
           ino == [length |-> fl.length, last |-> a,
                   first |-> IF v.disk[i].first = FAT_EOF THEN a ELSE v.disk[i].first]
           x == write_block(w, i, ino)
<1>0. IsVolume(v) /\ Kept(v, S) /\ t \in Nat /\ Cardinality(Damaged(v, S)) <= t /\ PastFine(v, t + 1)
  BY DEF Resting
<1> USE <1>0
<1>1. v.fat \in Fats /\ IsDisk(v.disk) /\ a \in Blocs /\ v.fat[a] = FAT_FREE /\ v.disk[i] \in InodeRecords
  BY AllocFinds DEF Kept, Sound, Cores, Prefix
<1>2. Growing(v, S, i, a, v)
  BY <1>1 DEF Growing
<1>3. /\ Scrap(v, S, a) /\ i \in Blocs /\ n \in Nat /\ Prefix(v, i, S[i])
      /\ IF n = 0 THEN c = FAT_EOF ELSE c \in Blocs /\ c \in Core(v, S, i)
  BY <1>2, GrowingApart
<1>4. c \in Blocs \cup {FAT_EOF} /\ (c = FAT_EOF <=> n = 0) /\ FAT_EOF \in Values /\ a \in Values
      /\ FAT_EOF # FAT_FREE
  BY <1>1, <1>3, ValuesTyped
<1>5. a # i /\ a # c /\ c # i
  <2>1. a # i /\ a # c
    BY <1>3, <1>4, ValuesTyped, <1>1 DEF Scrap
  <2>2. c # i
    <3>1. n # 0 => v.fat[c] # FAT_INODE
      BY <1>1, <1>3, PrefixFacts DEF Core
    <3>2. v.fat[i] = FAT_INODE
      BY <1>3 DEF Prefix
    <3> QED
      BY <1>3, <1>4, <3>1, <3>2, ValuesTyped
  <2> QED
    BY <2>1, <2>2
<1> HIDE DEF c, n
<1>6. /\ IsVolume(u) /\ \A m \in Blocs : u.disk[m] = v.disk[m]
      /\ \A m \in Blocs : m # c => u.fat[m] = v.fat[m]
      /\ n # 0 => u.fat[c] = a /\ u.passe = Append(v.passe, OnDisk(v))
      /\ n = 0 => u = v
  <2>1. CASE n = 0
    BY <1>4, <2>1
  <2>2. CASE n # 0
    <3>1. u = set_fat(v, c, a) /\ c \in Blocs
      BY <1>4, <2>2
    <3>2. a # FAT_FREE
      BY <1>1, ValuesTyped
    <3> HIDE DEF u
    <3>3. /\ IsVolume(u) /\ u.fat = [v.fat EXCEPT ![c] = a] /\ u.disk[c] = v.disk[c]
          /\ \A m \in Blocs : m # c => u.disk[m] = v.disk[m]
          /\ u.passe = Append(v.passe, OnDisk(v))
      BY <1>4, <3>1, <3>2, FatSet
    <3>4. c \in Blocs
      BY <3>1
    <3> QED
      BY <1>1, <2>2, <3>3, <3>4 DEF Fats
  <2> QED
    BY <2>1, <2>2
<1> HIDE DEF u
<1>7. u.fat \in Fats /\ IsDisk(u.disk) /\ u.disk[i] = v.disk[i] /\ u.fat[i] = v.fat[i]
  BY <1>3, <1>5, <1>6 DEF IsVolume
<1>8. /\ IsVolume(w) /\ \A m \in Blocs : w.disk[m] = v.disk[m]
      /\ \A m \in Blocs : m # a => w.fat[m] = u.fat[m]
      /\ w.fat[a] = FAT_EOF /\ w.passe = Append(u.passe, OnDisk(u))
  <2>1. /\ IsVolume(w) /\ w.fat = [u.fat EXCEPT ![a] = FAT_EOF] /\ w.disk[a] = u.disk[a]
        /\ \A m \in Blocs : m # a => w.disk[m] = u.disk[m]
        /\ w.passe = Append(u.passe, OnDisk(u))
    BY <1>1, <1>4, <1>6, FatSet
  <2> HIDE DEF w
  <2> QED
    BY <1>1, <1>6, <1>7, <2>1 DEF Fats
<1> HIDE DEF w
<1>9. /\ w.fat \in Fats /\ IsDisk(w.disk) /\ w.disk[i] = v.disk[i] /\ w.fat[i] = v.fat[i]
      /\ n # 0 => w.fat[c] = a
  <2>1. w.fat \in Fats /\ IsDisk(w.disk) /\ w.disk[i] = v.disk[i] /\ w.fat[i] = v.fat[i]
    BY <1>3, <1>5, <1>7, <1>8 DEF IsVolume
  <2>2. n # 0 => c \in Blocs /\ w.fat[c] = a
    BY <1>3, <1>5, <1>6, <1>8
  <2> QED
    BY <2>1, <2>2
<1>10. Growing(v, S, i, a, u) /\ Growing(v, S, i, a, w)
  <2>1. c = v.disk[i].last
    BY DEF c
  <2>2. \A m \in Blocs : m # a /\ m # c => u.fat[m] = v.fat[m] /\ w.fat[m] = v.fat[m]
    BY <1>6, <1>8
  <2>3. Growing(v, S, i, a, u)
    BY <1>1, <1>6, <1>7, <2>1, <2>2 DEF Growing
  <2>4. Growing(v, S, i, a, w)
    BY <1>1, <1>8, <1>9, <2>1, <2>2 DEF Growing
  <2> QED
    BY <2>3, <2>4
<1>11. Size(u, i) = Size(v, i) /\ Size(w, i) = Size(v, i)
  BY <1>7, <1>9 DEF Size
<1>12. Fine(OnDisk(u), t + 1) /\ Fine(OnDisk(w), t + 1)
  <2>1. Kept(u, S) /\ \A j \in Damaged(u, S) : j = i \/ j \in Damaged(v, S)
    <3>1. Size(v, i) # 0 => u.fat[v.disk[i].last] = a
      BY <1>6 DEF n, c
    <3> QED
      BY <1>7, <1>10, <1>11, <3>1, GrowingKept
  <2>2. Kept(w, S) /\ \A j \in Damaged(w, S) : j = i \/ j \in Damaged(v, S)
    <3>1. Size(v, i) # 0 => w.fat[v.disk[i].last] = a
      BY <1>9 DEF n, c
    <3> QED
      BY <1>9, <1>10, <1>11, <3>1, GrowingKept
  <2>3. Cardinality(Damaged(u, S)) <= t + 1
    BY <2>1, OneMoreDamaged
  <2>4. Cardinality(Damaged(w, S)) <= t + 1
    BY <2>2, OneMoreDamaged
  <2> QED
    BY <2>1, <2>2, <2>3, <2>4, FineOnDisk
<1>13. Fine(OnDisk(v), t + 1)
  <2>1. Cardinality(Damaged(v, S)) <= t + 1
    BY OneMoreDamaged
  <2> QED
    BY <2>1, FineOnDisk
<1>14. PastFine(u, t + 1)
  BY <1>6, <1>13, WritePast
<1>15. PastFine(w, t + 1)
  BY <1>6, <1>8, <1>12, <1>14, WritePast
<1>16. /\ IsVolume(x) /\ x.fat = w.fat /\ x.disk[i] = ino
       /\ \A m \in Blocs : m # i => x.disk[m] = w.disk[m]
       /\ x.passe = Append(w.passe, OnDisk(w))
  <2> HIDE DEF ino
  <2> QED
    BY <1>3, <1>8, BlockWritten
<1>17. v.disk[i].first \in Blocs \cup {FAT_EOF}
  BY <1>1 DEF InodeRecords
<1>18. /\ ino \in InodeRecords /\ ino.last = a /\ ino.length = fl.length
       /\ ino.first = IF v.disk[i].first = FAT_EOF THEN a ELSE v.disk[i].first
  BY <1>1, <1>17 DEF InodeRecords
<1> HIDE DEF ino
<1>19. r = Result(x, Linked(fl, a))
  BY <1>7, <1>9, Zenon DEF sgf_append_block, Linked, Result, x, w, u, ino, c
<1> HIDE DEF x
<1>20. r.vol = x
  BY <1>19 DEF Result
<1>21. PastFine(x, t + 1)
  BY <1>8, <1>12, <1>15, <1>16, WritePast
<1>22. Growing(v, S, i, a, x)
  <2>1. x.fat \in Fats /\ IsDisk(x.disk)
    BY <1>16 DEF IsVolume
  <2> QED
    BY <1>10, <1>16, <2>1 DEF Growing
<1>23. /\ x.fat[a] = FAT_EOF
       /\ Size(v, i) # 0 => x.fat[v.disk[i].last] = a
       /\ x.disk[i] \in InodeRecords /\ x.disk[i].last = a
       /\ x.disk[i].length = fl.length
       /\ x.disk[i].first = IF v.disk[i].first = FAT_EOF THEN a ELSE v.disk[i].first
  BY <1>8, <1>9, <1>16, <1>18 DEF n, c
<1> QED
  BY <1>16, <1>19, <1>20, <1>21, <1>22, <1>23

(* The fields of an open file after the assignments of the calls. *)
SameOFile(fl, gl) == gl.inode = fl.inode /\ gl.mode = fl.mode /\ gl.first = fl.first
OFileAs(fl, length, last, ptr, current, buffer) ==
  [length |-> length, first |-> fl.first, last |-> last, inode |-> fl.inode,
   ptr |-> ptr, current |-> current, mode |-> fl.mode, buffer |-> buffer]

(* An open file whose other fields are set is still one. *)
LEMMA OFileAsIs ==
  ASSUME NEW fl, NEW length, NEW last, NEW ptr, NEW current, NEW buffer,
         NEW gl, gl = OFileAs(fl, length, last, ptr, current, buffer)
  PROVE  /\ IsOFile(gl) /\ SameOFile(fl, gl) /\ gl.length = length /\ gl.ptr = ptr
         /\ gl.current = current /\ gl.last = last /\ gl.buffer = buffer
BY DEF OFileAs, IsOFile, SameOFile

(* An open file is the record of its fields. *)
LEMMA OFileItself ==
  ASSUME NEW fl, IsOFile(fl)
  PROVE  fl = OFileAs(fl, fl.length, fl.last, fl.ptr, fl.current, fl.buffer)
BY DEF OFileAs, IsOFile

(* A character is put into the buffer. *)
LEMMA PutSets ==
  ASSUME NEW fl, IsOFile(fl), NEW k, NEW c, NEW gl, gl = Put(fl, k, c)
  PROVE  /\ IsOFile(gl) /\ SameOFile(fl, gl) /\ gl.length = fl.length + 1 /\ gl.ptr = fl.ptr
         /\ gl.current = fl.current /\ gl.last = fl.last
<1> DEFINE buf == [fl.buffer EXCEPT ![k] = c]
<1>1. fl = OFileAs(fl, fl.length, fl.last, fl.ptr, fl.current, fl.buffer)
  BY OFileItself
<1>2. [fl EXCEPT !.length = fl.length + 1]
        = OFileAs(fl, fl.length + 1, fl.last, fl.ptr, fl.current, fl.buffer)
  BY <1>1 DEF OFileAs
<1>3. gl = [[fl EXCEPT !.length = fl.length + 1] EXCEPT !.buffer = buf]
  BY <1>1 DEF Put, OFileAs
<1> HIDE DEF buf
<1>4. gl = OFileAs(fl, fl.length + 1, fl.last, fl.ptr, fl.current, buf)
  BY <1>2, <1>3 DEF OFileAs
<1> QED
  BY <1>4, OFileAsIs

(* The position moves on. *)
LEMMA FurtherSets ==
  ASSUME NEW fl, IsOFile(fl), NEW gl, gl = Further(fl)
  PROVE  /\ IsOFile(gl) /\ SameOFile(fl, gl) /\ gl.length = fl.length /\ gl.ptr = fl.ptr + 1
         /\ gl.current = fl.current /\ gl.last = fl.last /\ gl.buffer = fl.buffer
<1>1. fl = OFileAs(fl, fl.length, fl.last, fl.ptr, fl.current, fl.buffer)
  BY OFileItself
<1>2. gl = OFileAs(fl, fl.length, fl.last, fl.ptr + 1, fl.current, fl.buffer)
  BY <1>1 DEF Further, OFileAs
<1> QED
  BY <1>2, OFileAsIs

(* A block is linked to the chain. *)
LEMMA LinkedSets ==
  ASSUME NEW fl, IsOFile(fl), NEW a, NEW gl, gl = Linked(fl, a)
  PROVE  /\ IsOFile(gl) /\ SameOFile(fl, gl) /\ gl.length = fl.length /\ gl.ptr = fl.ptr
         /\ gl.current = a /\ gl.last = a
<1>1. fl = OFileAs(fl, fl.length, fl.last, fl.ptr, fl.current, fl.buffer)
  BY OFileItself
<1>2. [fl EXCEPT !.current = a] = OFileAs(fl, fl.length, fl.last, fl.ptr, a, fl.buffer)
  BY <1>1 DEF OFileAs
<1>3. gl = [[fl EXCEPT !.current = a] EXCEPT !.last = a]
  BY <1>1 DEF Linked, OFileAs
<1>4. gl = OFileAs(fl, fl.length, a, fl.ptr, a, fl.buffer)
  BY <1>2, <1>3 DEF OFileAs
<1> QED
  BY <1>4, OFileAsIs

(* Characters are put into the buffer. *)
LEMMA FilledSets ==
  ASSUME NEW fl, IsOFile(fl), NEW n, NEW k, NEW s, NEW gl, gl = Filled(fl, n, k, s)
  PROVE  /\ IsOFile(gl) /\ SameOFile(fl, gl) /\ gl.length = n /\ gl.ptr = n
         /\ gl.current = fl.current /\ gl.last = fl.last
<1> DEFINE full == [j \in Indices |-> IF j \in k .. k + Len(s) - 1 THEN s[j - k + 1] ELSE fl.buffer[j]]
<1>1. fl = OFileAs(fl, fl.length, fl.last, fl.ptr, fl.current, fl.buffer)
  BY OFileItself
<1>2. [fl EXCEPT !.length = n] = OFileAs(fl, n, fl.last, fl.ptr, fl.current, fl.buffer)
  BY <1>1 DEF OFileAs
<1>3. [OFileAs(fl, n, fl.last, fl.ptr, fl.current, fl.buffer) EXCEPT !.ptr = n]
        = OFileAs(fl, n, fl.last, n, fl.current, fl.buffer)
  BY DEF OFileAs
<1>4. gl = [[[fl EXCEPT !.length = n] EXCEPT !.ptr = n] EXCEPT !.buffer = full]
  BY <1>1 DEF Filled, OFileAs
<1> HIDE DEF full
<1>5. [OFileAs(fl, n, fl.last, n, fl.current, fl.buffer) EXCEPT !.buffer = full]
        = OFileAs(fl, n, fl.last, n, fl.current, full)
  BY DEF OFileAs
<1>6. gl = OFileAs(fl, n, fl.last, n, fl.current, full)
  BY <1>2, <1>3, <1>4, <1>5
<1> QED
  BY <1>6, OFileAsIs

(* A block is read into the buffer. *)
LEMMA LoadedSets ==
  ASSUME NEW fl, IsOFile(fl), NEW a, NEW c, NEW gl, gl = Loaded(fl, a, c)
  PROVE  /\ IsOFile(gl) /\ SameOFile(fl, gl) /\ gl.length = fl.length /\ gl.ptr = fl.ptr
         /\ gl.current = a /\ gl.last = fl.last /\ gl.buffer = c
<1>1. fl = OFileAs(fl, fl.length, fl.last, fl.ptr, fl.current, fl.buffer)
  BY OFileItself
<1>2. [fl EXCEPT !.current = a] = OFileAs(fl, fl.length, fl.last, fl.ptr, a, fl.buffer)
  BY <1>1 DEF OFileAs
<1>3. gl = [[fl EXCEPT !.current = a] EXCEPT !.buffer = c]
  BY <1>1 DEF Loaded, OFileAs
<1>4. gl = OFileAs(fl, fl.length, fl.last, fl.ptr, a, c)
  BY <1>2, <1>3 DEF OFileAs
<1> QED
  BY <1>4, OFileAsIs

(* The position is set. *)
LEMMA AtSets ==
  ASSUME NEW fl, IsOFile(fl), NEW n, NEW gl, gl = At(fl, n)
  PROVE  /\ IsOFile(gl) /\ SameOFile(fl, gl) /\ gl.length = fl.length /\ gl.ptr = n
         /\ gl.current = fl.current /\ gl.last = fl.last /\ gl.buffer = fl.buffer
<1>1. fl = OFileAs(fl, fl.length, fl.last, fl.ptr, fl.current, fl.buffer)
  BY OFileItself
<1>2. gl = OFileAs(fl, fl.length, fl.last, n, fl.current, fl.buffer)
  BY <1>1 DEF At, OFileAs
<1> QED
  BY <1>2, OFileAsIs

(* A call that writes: unless it found no block, the file is L characters *)
(* long and not damaged, and a kill in the call damages one file at most. *)
Continued(r, t, L) ==
  /\ r.perdu \in BOOLEAN
  /\ \/ r.perdu
     \/ /\ PastFine(r.vol, t + 1) /\ r.file.length = L /\ r.panique = FALSE
        /\ \E S : /\ Kept(r.vol, S) /\ Cardinality(Damaged(r.vol, S)) <= t
                  /\ WritesIn(r.vol, S, r.file)

(* A call that returns with a file that is written. *)
LEMMA ContinuedIs ==
  ASSUME NEW w, NEW gl, NEW t, PastFine(w, t + 1), NEW S, Kept(w, S),
         Cardinality(Damaged(w, S)) <= t, WritesIn(w, S, gl), NEW r, r = Result(w, gl)
  PROVE  Continued(r, t, gl.length)
<1>1. r.vol = w /\ r.file = gl /\ r.perdu = FALSE /\ r.panique = FALSE
  BY DEF Result
<1> QED
  BY <1>1 DEF Continued

(* sgf_putc(). *)
LEMMA PutcKept ==
  ASSUME NEW v, NEW S, NEW t, Resting(v, S, t), NEW fl, WritesIn(v, S, fl), fl.length + 1 <= MAX_LENGTH,
         NEW c, NEW r, r = sgf_putc(v, fl, c)
  PROVE  Continued(r, t, fl.length + 1)
<1> DEFINE L == fl.length
           i == fl.inode
           k == fl.ptr % BLOCK_SIZE
           put == Put(fl, k, c)
           r0 == IF k = BLOCK_SIZE - 1 THEN Flush(v, put)
                 ELSE IF k = 0 THEN sgf_append_block(v, put) ELSE Result(v, put)
<1>0. IsVolume(v) /\ Kept(v, S) /\ t \in Nat /\ Cardinality(Damaged(v, S)) <= t /\ PastFine(v, t + 1)
  BY DEF Resting
<1> USE <1>0
<1>1. /\ IsOFile(fl) /\ ~Reads(fl) /\ L \in 0 .. MAX_LENGTH /\ MAX_LENGTH \in Nat /\ L \in Nat
      /\ i \in Live(v) /\ i \notin Damaged(v, S) /\ fl.ptr = L
      /\ fl.last = v.disk[i].last /\ fl.current = fl.last
      /\ v.disk[i].length <= L /\ Blocks(L) = Size(v, i)
  BY SgfAssumption DEF WritesIn
<1>2. r = Stepping(r0)
  BY DEF sgf_putc, Stepping, Put
<1>3. /\ IsOFile(put) /\ SameOFile(fl, put) /\ put.length = L + 1 /\ put.ptr = L
      /\ put.current = fl.current /\ put.last = fl.last
  BY <1>1, PutSets
<1>4. /\ k \in 0 .. BLOCK_SIZE - 1 /\ BLOCK_SIZE \in Nat /\ BLOCK_SIZE >= 2
      /\ Blocks(L + 1) = Blocks(L) + (IF k = 0 THEN 1 ELSE 0) /\ Blocks(L) \in Nat
  <2>1. k \in 0 .. BLOCK_SIZE - 1 /\ BLOCK_SIZE \in Nat /\ BLOCK_SIZE >= 2 /\ Blocks(L) \in Nat
        /\ k = L % BLOCK_SIZE
    <3>1. BLOCK_SIZE \in Nat /\ BLOCK_SIZE >= 2
      BY SgfAssumption
    <3>2. k = L % BLOCK_SIZE
      BY <1>1
    <3> HIDE DEF k, L
    <3> QED
      BY <1>1, <3>1, <3>2, BlocksAre
  <2>2. 1 \in 1 .. BLOCK_SIZE - (L % BLOCK_SIZE)
    BY <2>1
  <2> QED
    BY <1>1, <2>1, <2>2, BlocksGrow
<1>5. v.disk[i].length \in Nat
  <2>1. v.fat \in Fats /\ Prefix(v, i, S[i])
    BY <1>1 DEF Kept, Cores, Sound
  <2> QED
    BY <2>1, PrefixFacts
<1> HIDE DEF k, put
<1>6. put.length \in 0 .. MAX_LENGTH /\ put.length # 0 /\ put.inode = i /\ ~Reads(put)
  BY <1>1, <1>3 DEF SameOFile, Reads
<1>7. ASSUME NEW gl, IsOFile(gl), SameOFile(put, gl), gl.length = L + 1, gl.ptr = L
      PROVE  LET hl == Further(gl) IN
             /\ IsOFile(hl) /\ ~Reads(hl) /\ hl.length = L + 1 /\ hl.ptr = hl.length
             /\ hl.length \in 0 .. MAX_LENGTH
             /\ hl.inode = i /\ hl.current = gl.current /\ hl.last = gl.last
             /\ \A w : Stepping(Result(w, gl)) = Result(w, hl)
  <2> DEFINE hl == Further(gl)
  <2>1. /\ IsOFile(hl) /\ SameOFile(gl, hl) /\ hl.length = gl.length /\ hl.ptr = gl.ptr + 1
        /\ hl.current = gl.current /\ hl.last = gl.last
    BY <1>7, FurtherSets
  <2>2. \A w : Stepping(Result(w, gl)) = Result(w, hl)
    BY Stepped DEF Stepping
  <2> HIDE DEF hl
  <2>3. hl.inode = i /\ ~Reads(hl) /\ L + 1 \in 0 .. MAX_LENGTH
    BY <1>1, <1>3, <1>6, <1>7, <2>1 DEF SameOFile, Reads
  <2> QED
    BY <1>7, <2>1, <2>2, <2>3 DEF hl
<1>8. CASE k = BLOCK_SIZE - 1
  <2> DEFINE w == r0.vol
  <2>1. r0 = Flush(v, put) /\ k # 0
    BY <1>4, <1>8
  <2>2. Cardinality(Damaged(v, S)) <= t + 1 /\ Blocks(put.length) = Size(v, i)
        /\ put.current = v.disk[i].last
    BY <1>1, <1>3, <1>4, <2>1, OneMoreDamaged
  <2> HIDE DEF r0
  <2>3. /\ r0 = Result(w, put) /\ PastFine(w, t + 1)
        /\ Kept(w, S) /\ Live(w) = Live(v) /\ Damaged(w, S) = Damaged(v, S)
        /\ w.disk[i].length = put.length /\ w.disk[i].last = v.disk[i].last
        /\ Size(w, i) = Size(v, i)
    BY <1>1, <1>6, <2>1, <2>2, FlushKept
  <2> HIDE DEF w
  <2> DEFINE hl == Further(put)
  <2>4. /\ IsOFile(hl) /\ ~Reads(hl) /\ hl.length = L + 1 /\ hl.ptr = hl.length
        /\ hl.length \in 0 .. MAX_LENGTH
        /\ hl.inode = i /\ hl.current = put.current /\ hl.last = put.last
        /\ Stepping(Result(w, put)) = Result(w, hl)
    BY <1>3, <1>7 DEF SameOFile
  <2> HIDE DEF hl
  <2>5. WritesIn(w, S, hl)
    BY <1>1, <1>3, <2>2, <2>3, <2>4 DEF WritesIn
  <2> QED
    BY <1>2, <2>3, <2>4, <2>5, ContinuedIs
<1>9. CASE k # BLOCK_SIZE - 1 /\ k # 0
  <2> DEFINE hl == Further(put)
  <2>1. r0 = Result(v, put)
    BY <1>9
  <2>2. /\ IsOFile(hl) /\ ~Reads(hl) /\ hl.length = L + 1 /\ hl.ptr = hl.length
        /\ hl.length \in 0 .. MAX_LENGTH
        /\ hl.inode = i /\ hl.current = put.current /\ hl.last = put.last
        /\ Stepping(Result(v, put)) = Result(v, hl)
    BY <1>3, <1>7 DEF SameOFile
  <2> HIDE DEF hl
  <2>3. WritesIn(v, S, hl)
    BY <1>1, <1>3, <1>4, <1>5, <1>9, <2>2 DEF WritesIn
  <2> QED
    BY <1>2, <2>1, <2>2, <2>3, ContinuedIs
<1>10. CASE k = 0
  <2>1. r0 = sgf_append_block(v, put)
    BY <1>4, <1>10
  <2> HIDE DEF r0
  <2>2. CASE Free(v.fat) = {}
    <3>1. r0 = Lost(v, put)
      BY <2>1, <2>2 DEF sgf_append_block
    <3>2. r = Lost(v, Further(put))
      BY <1>2, <3>1, Stepped DEF Stepping
    <3> QED
      BY <3>2, ResultFlags DEF Continued
  <2>3. CASE Free(v.fat) # {}
    <3> DEFINE w == r0.vol
               a == alloc_block(v.fat)
               gl == Linked(put, a)
               hl == Further(gl)
               n == Size(v, i)
               T == [j \in Live(v) |-> IF j = i THEN Extended(S[i], n, a) ELSE S[j]]
    <3>1. put.current = v.disk[i].last
      BY <1>1, <1>3
    <3>2. /\ r0 = Result(w, gl) /\ IsVolume(w) /\ PastFine(w, t + 1)
          /\ Growing(v, S, i, a, w) /\ w.fat[a] = FAT_EOF
          /\ n # 0 => w.fat[v.disk[i].last] = a
          /\ w.disk[i] \in InodeRecords /\ w.disk[i].last = a /\ w.disk[i].length = put.length
          /\ w.disk[i].first = IF v.disk[i].first = FAT_EOF THEN a ELSE v.disk[i].first
      BY <1>1, <1>6, <2>1, <2>3, <3>1, AppendKept
    <3> HIDE DEF w, a
    <3>3. Size(w, i) = n + 1
      BY <1>1, <1>3, <1>4, <1>10, <3>2 DEF Size
    <3>4. \A j \in Live(v) : T[j] = IF j = i THEN Extended(S[i], n, a) ELSE S[j]
      OBVIOUS
    <3> HIDE DEF T
    <3>5. /\ Kept(w, T) /\ Live(w) = Live(v)
          /\ i \notin Damaged(w, T) /\ \A j \in Damaged(w, T) : j \in Damaged(v, S)
      <4>1. Lengthened(v, S, i, a, w, T)
        BY <3>2, <3>3, <3>4 DEF Lengthened
      <4> QED
        BY <4>1, GrownKept
    <3>6. Cardinality(Damaged(w, T)) <= t
      BY <3>5, FewDamaged
    <3>7. IsOFile(gl) /\ SameOFile(put, gl) /\ gl.length = L + 1 /\ gl.ptr = L
          /\ gl.current = a /\ gl.last = a
      BY <1>3, LinkedSets
    <3> HIDE DEF gl
    <3>8. /\ IsOFile(hl) /\ ~Reads(hl) /\ hl.length = L + 1 /\ hl.ptr = hl.length
          /\ hl.length \in 0 .. MAX_LENGTH
          /\ hl.inode = i /\ hl.current = gl.current /\ hl.last = gl.last
          /\ Stepping(Result(w, gl)) = Result(w, hl)
      BY <1>7, <3>7
    <3> HIDE DEF hl
    <3>9. Blocks(L + 1) = Size(w, i) /\ w.disk[i].length <= L + 1
      BY <1>1, <1>3, <3>2 DEF Size
    <3>10. WritesIn(w, T, hl)
      BY <1>1, <3>2, <3>5, <3>7, <3>8, <3>9 DEF WritesIn
    <3> QED
      BY <1>2, <3>2, <3>5, <3>6, <3>8, <3>10, ContinuedIs
  <2> QED
    BY <2>2, <2>3
<1> QED
  BY <1>8, <1>9, <1>10

(* An outcome that lost nothing. *)
LEMMA LossyNone ==
  ASSUME NEW w, NEW gl, NEW b, b = FALSE
  PROVE  Lossy(Result(w, gl), b) = Result(w, gl)
<1> DEFINE F == FALSE
<1>1. Result(w, gl) = Outcome(w, gl, F, F)
  BY Outcomes, Zenon
<1> HIDE DEF F
<1>2. Lossy(Result(w, gl), b) = [Outcome(w, gl, F, F) EXCEPT !.perdu = b]
  BY <1>1, Zenon DEF Lossy
<1>3. [Outcome(w, gl, F, F) EXCEPT !.perdu = b] = Outcome(w, gl, b, F)
  BY OutcomeSet
<1>4. b = F
  BY DEF F
<1> QED
  BY <1>1, <1>2, <1>3, <1>4

(* One round of the loop of sgf_write(). *)
Fits(fl, s) ==
  /\ s \in Seq(CHARS) /\ fl.length + Len(s) <= MAX_LENGTH
  /\ Len(s) \in 1 .. BLOCK_SIZE - (fl.ptr % BLOCK_SIZE)

(* The characters of one block are added, in a block more if it is needed. *)
LEMMA ChunkKept ==
  ASSUME NEW v, NEW S, NEW t, Resting(v, S, t), NEW fl, WritesIn(v, S, fl), NEW s, Fits(fl, s), NEW r, r = WriteChunk(v, fl, s)
  PROVE  Continued(r, t, fl.length + Len(s))
<1> DEFINE L == fl.length
           i == fl.inode
           m == Len(s)
           k == fl.ptr % BLOCK_SIZE
           r0 == IF k = 0 THEN sgf_append_block(v, fl) ELSE Result(v, fl)
<1>0. IsVolume(v) /\ Kept(v, S) /\ t \in Nat /\ Cardinality(Damaged(v, S)) <= t /\ PastFine(v, t + 1)
  BY DEF Resting
<1> USE <1>0
<1>1. /\ IsOFile(fl) /\ ~Reads(fl) /\ L \in 0 .. MAX_LENGTH /\ MAX_LENGTH \in Nat /\ L \in Nat
      /\ i \in Live(v) /\ i \notin Damaged(v, S) /\ fl.ptr = L
      /\ fl.last = v.disk[i].last /\ fl.current = fl.last
      /\ v.disk[i].length <= L /\ Blocks(L) = Size(v, i)
  BY SgfAssumption DEF WritesIn
<1>2. /\ m \in Nat /\ m # 0 /\ L + m \in 0 .. MAX_LENGTH /\ L + m # 0 /\ L + m \in Nat
      /\ Blocks(L + m) = Blocks(L) + (IF k = 0 THEN 1 ELSE 0) /\ Blocks(L) \in Nat
  <2>1. BLOCK_SIZE \in Nat /\ k = L % BLOCK_SIZE /\ m \in 1 .. BLOCK_SIZE - (L % BLOCK_SIZE)
    BY <1>1, SgfAssumption DEF Fits
  <2>2. L + m <= MAX_LENGTH
    BY DEF Fits
  <2> HIDE DEF k, L, m
  <2>3. L % BLOCK_SIZE \in 0 .. BLOCK_SIZE - 1 /\ Blocks(L) \in Nat
    BY <1>1, BlocksAre
  <2>4. m \in Nat /\ m # 0
    BY <2>1, <2>3
  <2>5. Blocks(L + m) = Blocks(L) + (IF k = 0 THEN 1 ELSE 0)
    BY <1>1, <2>1, BlocksGrow
  <2> QED
    BY <1>1, <2>2, <2>3, <2>4, <2>5
<1>3. \A hl : hl = Filled(r0.file, L + m, k, s) => r = Lossy(Flush(r0.vol, hl), r0.perdu)
  BY Zenon DEF WriteChunk, Lossy, Filled
<1> HIDE DEF k, m
<1>4. ASSUME NEW gl, IsOFile(gl), SameOFile(fl, gl), NEW hl, hl = Filled(gl, L + m, k, s)
      PROVE  /\ IsOFile(hl) /\ ~Reads(hl) /\ hl.length = L + m /\ hl.ptr = L + m
             /\ hl.inode = i /\ hl.current = gl.current /\ hl.last = gl.last
  <2>1. /\ IsOFile(hl) /\ SameOFile(gl, hl) /\ hl.length = L + m /\ hl.ptr = L + m
        /\ hl.current = gl.current /\ hl.last = gl.last
    BY <1>4, FilledSets
  <2>2. hl.inode = i /\ ~Reads(hl)
    BY <1>1, <1>4, <2>1 DEF SameOFile, Reads
  <2> QED
    BY <2>1, <2>2
<1>5. CASE k # 0
  <2> DEFINE hl == Filled(fl, L + m, k, s)
             x == Flush(v, hl)
             w == x.vol
  <2>1. r0 = Result(v, fl) /\ r0.vol = v /\ r0.file = fl /\ r0.perdu = FALSE
    BY <1>5 DEF Result
  <2>2. r = Lossy(x, r0.perdu)
    <3> HIDE DEF r0
    <3> QED
      BY <1>3, <2>1
  <2>3. /\ IsOFile(hl) /\ ~Reads(hl) /\ hl.length = L + m /\ hl.ptr = L + m
        /\ hl.inode = i /\ hl.current = fl.current /\ hl.last = fl.last
    BY <1>1, <1>4 DEF SameOFile
  <2> HIDE DEF hl
  <2>4. Cardinality(Damaged(v, S)) <= t + 1 /\ Blocks(hl.length) = Size(v, i)
        /\ hl.current = v.disk[i].last /\ hl.length \in 0 .. MAX_LENGTH /\ hl.length # 0
    BY <1>1, <1>2, <1>5, <2>3, OneMoreDamaged
  <2> HIDE DEF x
  <2>5. /\ x = Result(w, hl) /\ PastFine(w, t + 1)
        /\ Kept(w, S) /\ Live(w) = Live(v) /\ Damaged(w, S) = Damaged(v, S)
        /\ w.disk[i].length = hl.length /\ w.disk[i].last = v.disk[i].last
        /\ Size(w, i) = Size(v, i)
    BY <1>1, <2>3, <2>4, FlushKept DEF x
  <2> HIDE DEF w
  <2>6. WritesIn(w, S, hl)
    BY <1>1, <1>2, <2>3, <2>4, <2>5 DEF WritesIn
  <2>7. r = Result(w, hl)
    <3> HIDE DEF r0
    <3> QED
      BY <2>1, <2>2, <2>5, LossyNone
  <2> QED
    BY <2>3, <2>5, <2>6, <2>7, ContinuedIs DEF m
<1>6. CASE k = 0
  <2>1. r0 = sgf_append_block(v, fl)
    BY <1>6
  <2> HIDE DEF r0
  <2>2. CASE Free(v.fat) = {}
    <3>1. r0 = Lost(v, fl)
      BY <2>1, <2>2 DEF sgf_append_block
    <3>2. r0.perdu = TRUE
      BY <3>1, ResultFlags
    <3> DEFINE hl == Filled(r0.file, L + m, k, s)
               x == Flush(r0.vol, hl)
    <3>3. x = Result(x.vol, hl) \/ x = Panic(x.vol, hl)
      BY DEF Flush, Result, Panic
    <3>4. r = Lossy(x, r0.perdu)
      BY <1>3
    <3> HIDE DEF x, hl
    <3>5. r.perdu = r0.perdu
      BY <3>3, <3>4, LossyFields
    <3> QED
      BY <3>2, <3>5 DEF Continued
  <2>3. CASE Free(v.fat) # {}
    <3> DEFINE w == r0.vol
               a == alloc_block(v.fat)
               gl == Linked(fl, a)
               hl == Filled(gl, L + m, k, s)
               n == Size(v, i)
               u == write_block(w, a, hl.buffer)
               x == SetLength(u, hl)
               T == [j \in Live(v) |-> IF j = i THEN Extended(S[i], n, a) ELSE S[j]]
    <3>1. fl.current = v.disk[i].last
      BY <1>1
    <3>2. /\ r0 = Result(w, gl) /\ IsVolume(w) /\ PastFine(w, t + 1)
          /\ Growing(v, S, i, a, w) /\ w.fat[a] = FAT_EOF
          /\ n # 0 => w.fat[v.disk[i].last] = a
          /\ w.disk[i] \in InodeRecords /\ w.disk[i].last = a /\ w.disk[i].length = L
          /\ w.disk[i].first = IF v.disk[i].first = FAT_EOF THEN a ELSE v.disk[i].first
      <4>1. i = fl.inode /\ fl.length \in 0 .. MAX_LENGTH /\ i \in Live(v) /\ i \notin Damaged(v, S)
            /\ a = alloc_block(v.fat) /\ gl = Linked(fl, a) /\ w = r0.vol /\ n = Size(v, i) /\ L = fl.length
        BY <1>1
      <4> HIDE DEF i, L, a, gl, w, n
      <4>2. /\ r0 = Result(r0.vol, Linked(fl, a)) /\ IsVolume(r0.vol) /\ PastFine(r0.vol, t + 1)
            /\ Growing(v, S, i, a, r0.vol) /\ r0.vol.fat[a] = FAT_EOF
            /\ Size(v, i) # 0 => r0.vol.fat[v.disk[i].last] = a
            /\ r0.vol.disk[i] \in InodeRecords /\ r0.vol.disk[i].last = a
            /\ r0.vol.disk[i].length = fl.length
            /\ r0.vol.disk[i].first = IF v.disk[i].first = FAT_EOF THEN a ELSE v.disk[i].first
        BY <2>1, <2>3, <3>1, <4>1, AppendKept
      <4> QED
        BY <4>1, <4>2
    <3>3. IsOFile(gl) /\ SameOFile(fl, gl) /\ gl.current = a /\ gl.last = a
      <4> HIDE DEF a
      <4> QED
        BY <1>1, LinkedSets
    <3> HIDE DEF gl
    <3>4. /\ IsOFile(hl) /\ ~Reads(hl) /\ hl.length = L + m /\ hl.ptr = L + m
          /\ hl.inode = i /\ hl.current = a /\ hl.last = a
      BY <1>4, <3>3
    <3> HIDE DEF w, hl
    <3>5. r0.vol = w /\ r0.file = gl /\ r0.perdu = FALSE
      BY <3>2 DEF Result
    <3> HIDE DEF a
    <3>6. a \in Blocs /\ i \in Blocs /\ i # a
      <4>1. a \in Blocs /\ i \in Blocs /\ Scrap(v, S, a)
        <5>1. Growing(v, S, i, a, w)
          BY <3>2
        <5>2. Scrap(v, S, a) /\ i \in Blocs
          BY <5>1, GrowingApart
        <5> QED
          BY <5>1, <5>2 DEF Growing
      <4> QED
        BY <1>1, <4>1 DEF Scrap
    <3>7. Size(w, i) = n
      BY <1>1, <3>2 DEF Size
    <3>8. /\ IsVolume(u) /\ u.fat = w.fat /\ u.passe = Append(w.passe, OnDisk(w))
          /\ \A b \in Blocs : b # a => u.disk[b] = w.disk[b]
      BY <3>2, <3>6, BlockWritten
    <3> HIDE DEF u
    <3>9. Growing(v, S, i, a, u) /\ u.disk[i] = w.disk[i] /\ Size(u, i) = n
      <4>1. u.disk[i] = w.disk[i] /\ u.fat \in Fats /\ IsDisk(u.disk)
        BY <3>6, <3>8 DEF IsVolume
      <4> QED
        BY <3>2, <3>7, <3>8, <4>1 DEF Growing, Size
    <3>10. Fine(OnDisk(w), t + 1) /\ Fine(OnDisk(u), t + 1)
      <4>1. Kept(w, S) /\ \A j \in Damaged(w, S) : j = i \/ j \in Damaged(v, S)
        BY <3>2, <3>7, GrowingKept
      <4>2. n # 0 => u.fat[v.disk[i].last] = a
        BY <3>2, <3>8
      <4>3. Kept(u, S) /\ \A j \in Damaged(u, S) : j = i \/ j \in Damaged(v, S)
        BY <3>2, <3>9, <4>2, GrowingKept
      <4>4. Cardinality(Damaged(w, S)) <= t + 1
        BY <4>1, OneMoreDamaged
      <4>5. Cardinality(Damaged(u, S)) <= t + 1
        BY <4>3, OneMoreDamaged
      <4> QED
        BY <4>1, <4>3, <4>4, <4>5, FineOnDisk
    <3>11. PastFine(u, t + 1)
      BY <3>2, <3>8, <3>10, WritePast
    <3>12. /\ IsVolume(x) /\ x.fat = u.fat /\ x.disk[i] = [u.disk[i] EXCEPT !.length = L + m]
           /\ \A b \in Blocs : b # i => x.disk[b] = u.disk[b]
           /\ x.passe = Append(u.passe, OnDisk(u))
      <4> DEFINE b0 == [u.disk[i] EXCEPT !.length = L + m]
      <4>1. x = write_block(u, i, b0)
        BY <3>4 DEF SetLength
      <4> HIDE DEF x, b0
      <4>2. /\ IsVolume(x) /\ x.fat = u.fat /\ x.disk[i] = b0
            /\ \A b \in Blocs : b # i => x.disk[b] = u.disk[b]
            /\ x.passe = Append(u.passe, OnDisk(u))
        <5>1. IsVolume(u) /\ i \in Blocs
          BY <3>6, <3>8
        <5> QED
          BY <4>1, <5>1, BlockWritten
      <4> QED
        BY <4>2 DEF b0
    <3>13. r = Result(x, hl)
      <4>1. Flush(w, hl) = Result(x, hl)
        BY <3>4, <3>6 DEF Flush, NU_BLOC_OK, u
      <4>2. r = Lossy(Flush(w, hl), r0.perdu)
        BY <1>3, <3>5 DEF hl
      <4> HIDE DEF x
      <4> QED
        BY <3>5, <4>1, <4>2, LossyNone
    <3> HIDE DEF x
    <3>14. PastFine(x, t + 1)
      BY <3>8, <3>10, <3>11, <3>12, WritePast
    <3>15. /\ x.disk[i] \in InodeRecords /\ x.disk[i].length = L + m
           /\ x.disk[i].first = u.disk[i].first /\ x.disk[i].last = u.disk[i].last
      BY <1>2, <3>2, <3>9, <3>12, InodeSet
    <3>16. Size(x, i) = n + 1
      BY <1>1, <1>2, <1>6, <3>15 DEF Size
    <3>17. /\ Growing(v, S, i, a, x) /\ x.fat[a] = FAT_EOF
           /\ n # 0 => x.fat[v.disk[i].last] = a
           /\ x.disk[i].last = a
           /\ x.disk[i].first = IF v.disk[i].first = FAT_EOF THEN a ELSE v.disk[i].first
      <4>1. x.fat \in Fats /\ IsDisk(x.disk) /\ x.fat = w.fat
        BY <3>8, <3>12 DEF IsVolume
      <4>2. \A b \in Blocs : b # i /\ b # a => x.disk[b] = v.disk[b]
        BY <3>8, <3>9, <3>12 DEF Growing
      <4>3. Growing(v, S, i, a, x)
        BY <3>2, <4>1, <4>2 DEF Growing
      <4> QED
        BY <3>2, <3>9, <3>15, <4>1, <4>3
    <3>18. \A j \in Live(v) : T[j] = IF j = i THEN Extended(S[i], n, a) ELSE S[j]
      OBVIOUS
    <3> HIDE DEF T
    <3>19. /\ Kept(x, T) /\ Live(x) = Live(v)
           /\ i \notin Damaged(x, T) /\ \A j \in Damaged(x, T) : j \in Damaged(v, S)
      <4>1. Lengthened(v, S, i, a, x, T)
        BY <3>15, <3>16, <3>17, <3>18 DEF Lengthened
      <4> QED
        BY <4>1, GrownKept
    <3>20. Cardinality(Damaged(x, T)) <= t
      BY <3>19, FewDamaged
    <3>21. WritesIn(x, T, hl)
      <4>1. Blocks(L + m) = Size(x, i) /\ x.disk[i].length <= L + m
        BY <1>2, <3>15 DEF Size
      <4> QED
        BY <1>1, <1>2, <3>4, <3>17, <3>19, <4>1 DEF WritesIn
    <3> QED
      BY <3>4, <3>13, <3>14, <3>19, <3>20, <3>21, ContinuedIs DEF m
  <2> QED
    BY <2>2, <2>3
<1> QED
  BY <1>5, <1>6

(* A call that ends: unless something was lost, the disk is as it should be *)
(* between two calls, with the file that is left open.                      *)
Ended(r, t) ==
  /\ r.perdu \in BOOLEAN
  /\ \/ r.perdu
     \/ /\ PastFine(r.vol, t + 1) /\ r.panique \in BOOLEAN
        /\ \E S : Held(r.vol, S, IF r.panique THEN NULL ELSE r.file, t)

(* A call that returns with a file left open. *)
LEMMA EndedIs ==
  ASSUME NEW w, NEW gl, NEW t, PastFine(w, t + 1), NEW S, Held(w, S, gl, t),
         NEW r, r = Result(w, gl)
  PROVE  Ended(r, t)
<1>1. r.vol = w /\ r.file = gl /\ r.perdu = FALSE /\ r.panique = FALSE
  BY DEF Result
<1> QED
  BY <1>1 DEF Ended

(* A call that gives up leaves no open file.                                 *)
LEMMA PanicEnds ==
  ASSUME NEW v, NEW S, NEW t, Resting(v, S, t), NEW fl, NEW r, r = Panic(v, fl)
  PROVE  Ended(r, t)
<1>1. r.vol = v /\ r.perdu = FALSE /\ r.panique = TRUE
  BY DEF Panic, Result
<1>2. Held(v, S, NULL, t) /\ PastFine(v, t + 1)
  BY DEF Held, Resting
<1> QED
  BY <1>1, <1>2 DEF Ended

(* A block that is a copy of its buffer stays, and so does the length: a    *)
(* reader writes them back to the disk.                                     *)
LEMMA RewriteKept ==
  ASSUME NEW v, NEW S, NEW t, Resting(v, S, t), NEW fl, ReadsIn(v, fl), fl.ptr # 0,
         NEW r, r = Flush(v, fl)
  PROVE  r = Result(r.vol, fl) /\ Resting(r.vol, S, t) /\ PastFine(r.vol, t + 1)
<1>0. IsVolume(v) /\ Kept(v, S) /\ t \in Nat /\ Cardinality(Damaged(v, S)) <= t /\ PastFine(v, t + 1)
  BY DEF Resting
<1> DEFINE c == fl.current
           i == fl.inode
           u == write_block(v, c, fl.buffer)
           w == SetLength(u, fl)
<1>1. /\ v.fat \in Fats /\ Reserved(v.fat) /\ Sound(v) /\ i \in Live(v) /\ i \in Blocs
      /\ v.disk[i] \in InodeRecords /\ v.disk[i].length = fl.length
      /\ c \in Blocs /\ fl.buffer = Octets(v.disk[c])
  BY <1>0 DEF Kept, Sound, Cores, Prefix, ReadsIn
<1>2. v.disk[c] = Blank => c \notin DirOf(v) /\ c \notin Live(v)
  <2> SUFFICES ASSUME v.disk[c] = Blank PROVE c \notin DirOf(v) /\ c \notin Live(v)
    OBVIOUS
  <2>1. c \notin Live(v)
    <3>1. \A j \in Live(v) : v.disk[j] \in InodeRecords
      BY <1>0 DEF Kept, Cores, Prefix
    <3>2. Blank \notin InodeRecords
      BY SgfPanneAssumption DEF InodeRecords
    <3> QED
      BY <3>1, <3>2
  <2>2. c \notin DirOf(v)
    <3>1. PICK s, n : HasDirectory(v, s, n)
      BY <1>1 DEF Sound
    <3>2. IsChain(v.fat, ADR_DIR, s, n) /\ ADR_DIR \in Values
          /\ \A k \in 0 .. n - 1 : v.disk[s[k]] \in DirContents
      BY <3>1, ValuesTyped DEF HasDirectory, IsDirectory
    <3>3. DirOf(v) = ChainSet(s, n)
      BY <1>1, <3>2, ChainFacts DEF DirOf
    <3>4. Blank \notin DirContents
      BY RepertoireAssumption
    <3> QED
      BY <3>2, <3>3, <3>4 DEF ChainSet
  <2> QED
    BY <2>1, <2>2
<1>3. v.disk[c] # Blank => fl.buffer = v.disk[c]
  BY <1>1 DEF Octets
<1>4. /\ IsVolume(u) /\ u.fat = v.fat /\ u.passe = Append(v.passe, OnDisk(v))
      /\ u.disk[c] = fl.buffer /\ \A m \in Blocs : m # c => u.disk[m] = v.disk[m]
  BY <1>0, <1>1, BlockWritten
<1>5. Alike(v, S, u, S)
  <2>1. IsDisk(u.disk)
    BY <1>4 DEF IsVolume
  <2> HIDE DEF u, c, i
  <2>2. \A m \in Blocs : u.disk[m] = v.disk[m] \/ (m \notin DirOf(v) /\ m \notin Live(v))
    BY <1>2, <1>3, <1>4
  <2> QED
    BY <1>0, <1>1, <1>4, <2>1, <2>2, ScrapKept
<1> HIDE DEF u
<1>6. Kept(u, S) /\ Live(u) = Live(v) /\ Damaged(u, S) = Damaged(v, S) /\ u.disk[i] = v.disk[i]
  BY <1>1, <1>5 DEF Alike
<1>7. /\ Cardinality(Damaged(v, S)) <= t + 1
  <2>1. Cardinality(Damaged(v, S)) \in Nat
    BY <1>0, FewDamaged
  <2> QED
    BY <1>0, <2>1
<1>8. PastFine(u, t + 1)
  BY <1>0, <1>4, <1>7, FineOnDisk, WritePast
<1>9. /\ IsVolume(w) /\ w.fat = u.fat /\ w.disk[i] = u.disk[i]
      /\ \A m \in Blocs : m # i => w.disk[m] = u.disk[m]
      /\ w.passe = Append(u.passe, OnDisk(u))
  <2> DEFINE b == [u.disk[i] EXCEPT !.length = fl.length]
  <2>1. w = write_block(u, i, b)
    BY DEF SetLength
  <2>2. b = u.disk[i]
    <3> DEFINE ino == u.disk[i]
    <3>1. ino \in InodeRecords /\ ino.length = fl.length
      BY <1>1, <1>6
    <3>2. ino.length \in 0 .. MAX_LENGTH
      BY <3>1 DEF InodeRecords
    <3> HIDE DEF ino
    <3>3. [ino EXCEPT !.length = fl.length] = ino
      BY <3>1, <3>2, InodeSet
    <3> QED
      BY <3>3 DEF ino
  <2> HIDE DEF w, b
  <2>3. LET x == write_block(u, i, b)
        IN  /\ IsVolume(x) /\ x.fat = u.fat /\ x.disk[i] = b
            /\ \A m \in Blocs : m # i => x.disk[m] = u.disk[m]
            /\ x.passe = Append(u.passe, OnDisk(u))
    <3>1. IsVolume(u) /\ i \in Blocs
      BY <1>1, <1>4
    <3> QED
      BY <3>1, BlockWritten
  <2> QED
    BY <2>1, <2>2, <2>3
<1> HIDE DEF w
<1>10. PastFine(w, t + 1)
  <2>1. Fine(OnDisk(u), t + 1)
    BY <1>6, <1>7, FineOnDisk
  <2> QED
    BY <1>4, <1>8, <1>9, <2>1, WritePast
<1>11. Alike(u, S, w, S)
  <2>1. IsDisk(w.disk) /\ \A m \in Blocs : w.disk[m] = u.disk[m]
    BY <1>1, <1>9 DEF IsVolume
  <2>2. w.fat \in Fats /\ Reserved(w.fat) /\ w.fat = u.fat
    BY <1>1, <1>4, <1>9
  <2> QED
    BY <1>6, <2>1, <2>2, ScrapKept
<1>12. r = Result(w, fl)
  BY <1>1 DEF Flush, NU_BLOC_OK, w, u
<1>13. r.vol = w
  BY <1>12 DEF Result
<1>14. Resting(w, S, t)
  BY <1>0, <1>6, <1>9, <1>10, <1>11 DEF Resting, Alike
<1> QED
  BY <1>10, <1>12, <1>13, <1>14

(* sgf_close(). *)
LEMMA CloseKept ==
  ASSUME NEW v, NEW S, NEW t, Resting(v, S, t), NEW fl, WritesIn(v, S, fl) \/ ReadsIn(v, fl),
         NEW r, r = CloseFile(v, fl)
  PROVE  Ended(r, t)
<1>0. IsVolume(v) /\ Kept(v, S) /\ t \in Nat /\ Cardinality(Damaged(v, S)) <= t /\ PastFine(v, t + 1)
  BY DEF Resting
<1> DEFINE r0 == IF fl.ptr % BLOCK_SIZE # 0 THEN Flush(v, fl) ELSE Result(v, fl)
<1>1. r = Closing(r0)
  BY DEF CloseFile, Closing
<1>2. CASE fl.ptr % BLOCK_SIZE = 0
  <2>1. r0 = Result(v, fl)
    BY <1>2
  <2>2. r = Result(v, NULL)
    BY <1>1, <2>1, Closes
  <2>3. Held(v, S, NULL, t)
    BY <1>0 DEF Held
  <2> QED
    BY <1>0, <2>2, <2>3, EndedIs
<1>3. CASE fl.ptr % BLOCK_SIZE # 0
  <2>1. r0 = Flush(v, fl)
    BY <1>3
  <2>2. fl.ptr \in Nat => fl.ptr # 0
    <3>1. BLOCK_SIZE \in Nat /\ BLOCK_SIZE >= 2
      BY SgfAssumption
    <3>2. 0 % BLOCK_SIZE = 0
      BY <3>1
    <3> QED
      BY <1>3, <3>2
  <2> HIDE DEF r0
  <2>3. r0 = Result(r0.vol, fl) /\ PastFine(r0.vol, t + 1) /\ Held(r0.vol, S, NULL, t)
    <3>1. CASE WritesIn(v, S, fl)
      <4> DEFINE i == fl.inode
      <4>1. /\ i \in Live(v) /\ i \notin Damaged(v, S) /\ fl.current = v.disk[i].last
            /\ fl.length \in 0 .. MAX_LENGTH /\ fl.length # 0 /\ Blocks(fl.length) = Size(v, i)
        <5>1. fl.length \in 0 .. MAX_LENGTH /\ fl.ptr = fl.length /\ fl.length \in Nat
          BY <3>1, SgfAssumption DEF WritesIn
        <5> QED
          BY <2>2, <3>1, <5>1 DEF WritesIn
      <4>2. i = fl.inode
        OBVIOUS
      <4> HIDE DEF i
      <4>3. Cardinality(Damaged(v, S)) <= t + 1
        BY <1>0, OneMoreDamaged
      <4>4. /\ r0 = Result(r0.vol, fl) /\ PastFine(r0.vol, t + 1)
            /\ Kept(r0.vol, S) /\ Damaged(r0.vol, S) = Damaged(v, S)
        BY <1>0, <2>1, <4>1, <4>2, <4>3, FlushKept
      <4> QED
        BY <1>0, <4>4 DEF Held
    <3>2. CASE ReadsIn(v, fl)
      <4>1. fl.ptr # 0
        BY <2>2, <3>2 DEF ReadsIn
      <4>2. r0 = Result(r0.vol, fl) /\ Resting(r0.vol, S, t) /\ PastFine(r0.vol, t + 1)
        BY <2>1, <3>2, <4>1, RewriteKept
      <4> QED
        BY <4>2 DEF Resting, Held
    <3> QED
      BY <3>1, <3>2
  <2>4. r = Result(r0.vol, NULL)
    BY <1>1, <2>3, Closes
  <2> QED
    BY <2>3, <2>4, EndedIs
<1> QED
  BY <1>2, <1>3
-----------------------------------------------------------------------------
(* sgf_open_write(): the new inode, which no name leads to yet. *)
LEMMA InodeMade ==
  ASSUME NEW v, NEW S, NEW t, Resting(v, S, t), Free(v.fat) # {},
         NEW a, a = alloc_block(v.fat),
         NEW u, u = set_fat(write_block(v, a, EmptyInode), a, FAT_INODE)
  PROVE  /\ Resting(u, S, t) /\ Alike(v, S, u, S)
         /\ a \in Blocs /\ a > 0 /\ u.fat[a] = FAT_INODE /\ u.disk[a] = EmptyInode
         /\ Scrap(u, S, a)
<1>0. IsVolume(v) /\ Kept(v, S) /\ t \in Nat /\ Cardinality(Damaged(v, S)) <= t /\ PastFine(v, t + 1)
  BY DEF Resting
<1> DEFINE x == write_block(v, a, EmptyInode)
<1>1. /\ v.fat \in Fats /\ Reserved(v.fat) /\ a \in Blocs /\ v.fat[a] = FAT_FREE
      /\ Scrap(v, S, a)
  <2>1. v.fat \in Fats /\ Reserved(v.fat) /\ a \in Blocs /\ v.fat[a] = FAT_FREE
    BY <1>0, AllocFinds DEF Kept, Sound
  <2> QED
    BY <1>0, <2>1, ScrapFound
<1>2. a > 0 /\ ~(a < ADR_DIR)
  BY <1>1, ValuesTyped DEF Reserved
<1>3. /\ IsVolume(x) /\ x.fat = v.fat /\ x.passe = Append(v.passe, OnDisk(v))
      /\ x.disk[a] = EmptyInode /\ \A m \in Blocs : m # a => x.disk[m] = v.disk[m]
  BY <1>0, <1>1, BlockWritten
<1> HIDE DEF x
<1>4. Alike(v, S, x, S)
  <2>1. IsDisk(x.disk)
    BY <1>3 DEF IsVolume
  <2>2. \A m \in Blocs : x.disk[m] = v.disk[m] \/ (m \notin DirOf(v) /\ m \notin Live(v))
    BY <1>1, <1>3 DEF Scrap
  <2> QED
    BY <1>0, <1>1, <1>3, <2>1, <2>2, ScrapKept
<1>5. /\ IsVolume(u) /\ u.fat = [x.fat EXCEPT ![a] = FAT_INODE] /\ u.disk[a] = x.disk[a]
      /\ \A m \in Blocs : m # a => u.disk[m] = x.disk[m]
      /\ u.passe = Append(x.passe, OnDisk(x))
  <2>1. u = set_fat(x, a, FAT_INODE)
    BY DEF x
  <2>2. FAT_INODE \in Values /\ FAT_INODE # FAT_FREE
    BY ValuesTyped
  <2>3. IsVolume(x) /\ a \in Blocs
    BY <1>1, <1>3
  <2> QED
    BY <2>1, <2>2, <2>3, FatSet
<1>6. u.fat[a] = FAT_INODE /\ \A m \in Blocs : m # a => u.fat[m] = v.fat[m]
  BY <1>1, <1>3, <1>5 DEF Fats
<1>7. Alike(v, S, u, S)
  <2>1. IsDisk(u.disk) /\ u.fat \in Fats
    BY <1>5 DEF IsVolume
  <2>2. \A m \in Blocs : u.disk[m] = v.disk[m] \/ (m \notin DirOf(v) /\ m \notin Live(v))
    BY <1>1, <1>3, <1>5 DEF Scrap
  <2>3. Reserved(u.fat)
    BY <1>1, <1>2, <1>6 DEF Reserved
  <2>4. \A m \in Blocs : u.fat[m] = v.fat[m] \/ Scrap(v, S, m)
    BY <1>1, <1>6
  <2> QED
    BY <1>0, <2>1, <2>2, <2>3, <2>4, ScrapKept
<1>8. Fine(OnDisk(v), t + 1) /\ Fine(OnDisk(x), t + 1)
  <2>1. Cardinality(Damaged(v, S)) <= t + 1
    BY <1>0, OneMoreDamaged
  <2> QED
    BY <1>0, <1>4, <2>1, FineOnDisk DEF Alike
<1>9. PastFine(u, t + 1)
  <2>1. PastFine(x, t + 1)
    BY <1>0, <1>3, <1>8, WritePast
  <2> QED
    BY <1>3, <1>5, <1>8, <2>1, WritePast
<1>10. Resting(u, S, t)
  BY <1>0, <1>5, <1>7, <1>9 DEF Resting, Alike
<1>11. Scrap(u, S, a)
  BY <1>1, <1>7 DEF Alike, Scrap
<1> QED
  BY <1>1, <1>2, <1>3, <1>5, <1>6, <1>7, <1>10, <1>11

(* The name leads to it, and nothing but the directory has changed. *)
Renamed(u, nom, a, w) ==
  /\ Sound(w) /\ find_inode(w, nom) = a
  /\ \A x : x # nom => find_inode(w, x) = find_inode(u, x)
  /\ \A m \in Blocs : m \notin DirOf(w) => w.disk[m] = u.disk[m] /\ w.fat[m] = u.fat[m]
  /\ \A m \in DirOf(w) : m \in DirOf(u) \/ (m \in Blocs /\ u.fat[m] = FAT_FREE)
(* Then the other names lead to what they led to, and the file that had    *)
(* the name is one that nothing depends on.                                *)
EmptyAt(w, T, a) ==
  /\ a \in Live(w) /\ a \notin Damaged(w, T) /\ w.disk[a] = EmptyInode /\ Size(w, a) = 0
LeftAt(u, S, w, T, i) ==
  /\ Scrap(w, T, i) /\ i \in Blocs /\ w.fat[i] = FAT_INODE
  /\ IsChain(w.fat, w.disk[i].first, S[i], Size(u, i))
  /\ \A m \in ChainSet(S[i], Size(u, i)) : Scrap(w, T, m)

(* The new file is empty, and the old one no longer counts. *)
LEMMA RenamedKept ==
  ASSUME NEW u, NEW S, Kept(u, S), NEW a \in Blocs, Scrap(u, S, a), u.fat[a] = FAT_INODE,
         u.disk[a] = EmptyInode, NEW nom \in NOMS, NEW w, Renamed(u, nom, a, w),
         NEW old, old = find_inode(u, nom), old \notin Damaged(u, S)
  PROVE  \E T : /\ Kept(w, T) /\ EmptyAt(w, T, a)
                /\ \A j \in Damaged(w, T) : j \in Damaged(u, S)
                /\ old # -1 => LeftAt(u, S, w, T, old)
<1> DEFINE T == [j \in Live(w) |-> IF j = a THEN [k \in 0 .. -1 |-> a] ELSE S[j]]
<1>1. /\ u.fat \in Fats /\ OneName(u) /\ Sound(u)
      /\ \A i \in Live(u) : i \in Blocs /\ Prefix(u, i, S[i]) /\ u.fat[i] = FAT_INODE
                             /\ u.disk[i] \in InodeRecords
                             /\ \A m \in Core(u, S, i) : m \notin DirOf(u)
      /\ \A i, j \in Live(u) : i # j => \A m \in Core(u, S, i) : m \notin Core(u, S, j)
  BY DEF Kept, Sound, Cores, Prefix
<1>2. a # -1 /\ a \notin Live(u) /\ \A i \in Live(u) : a \notin Core(u, S, i)
  BY ValuesTyped DEF Scrap
<1>3. /\ \A i \in Live(w) : i = a \/ i \in Live(u)
      /\ a \in Live(w) /\ (old # -1 => old \in Live(u) /\ old \notin Live(w))
  <2>1. \A i \in Live(w) : i = a \/ (i \in Live(u) /\ i # old)
    <3> SUFFICES ASSUME NEW i \in Live(w), i # a PROVE i \in Live(u) /\ i # old
      OBVIOUS
    <3>1. PICK x \in NOMS : i = find_inode(w, x) /\ i # -1
      BY DEF Live
    <3>2. x # nom /\ i = find_inode(u, x)
      BY <3>1 DEF Renamed
    <3> QED
      BY <1>1, <3>1, <3>2 DEF Live, OneName
  <2>2. a \in Live(w)
    BY <1>2 DEF Renamed, Live
  <2>3. old # -1 => old \in Live(u)
    BY DEF Live
  <2> QED
    BY <1>2, <2>1, <2>2, <2>3
<1>4. OneName(w)
  <2> SUFFICES ASSUME NEW p \in NOMS, NEW q \in NOMS, find_inode(w, p) = find_inode(w, q),
                      find_inode(w, p) # -1
               PROVE  p = q
    BY DEF OneName
  <2>1. \A x \in NOMS : x # nom => find_inode(w, x) = find_inode(u, x) /\ find_inode(u, x) # a
    <3> SUFFICES ASSUME NEW x \in NOMS, x # nom
                 PROVE  find_inode(w, x) = find_inode(u, x) /\ find_inode(u, x) # a
      OBVIOUS
    <3>1. find_inode(w, x) = find_inode(u, x)
      BY DEF Renamed
    <3> QED
      BY <1>2, <3>1 DEF Live
  <2>2. find_inode(w, nom) = a
    BY DEF Renamed
  <2> QED
    BY <1>1, <2>1, <2>2 DEF OneName
<1>5. \A m \in Blocs : m \notin DirOf(u) /\ u.fat[m] # FAT_FREE =>
        m \notin DirOf(w) /\ w.fat[m] = u.fat[m] /\ w.disk[m] = u.disk[m]
  BY DEF Renamed
<1>6. \A i \in Live(u) :
        /\ i \notin DirOf(w) /\ w.fat[i] = u.fat[i] /\ w.disk[i] = u.disk[i]
        /\ \A m \in Core(u, S, i) : m \in Blocs /\ m \notin DirOf(w) /\ w.fat[m] = u.fat[m]
                                   /\ u.fat[m] # FAT_INODE
  <2> SUFFICES ASSUME NEW i \in Live(u)
               PROVE  /\ i \notin DirOf(w) /\ w.fat[i] = u.fat[i] /\ w.disk[i] = u.disk[i]
                      /\ \A m \in Core(u, S, i) : m \in Blocs /\ m \notin DirOf(w) /\ w.fat[m] = u.fat[m]
                                                 /\ u.fat[m] # FAT_INODE
    OBVIOUS
  <2>1. i \notin DirOf(u) /\ u.fat[i] # FAT_FREE
    BY <1>1, DirOfApart, ValuesTyped
  <2>2. \A m \in Core(u, S, i) : m \in Blocs /\ u.fat[m] # FAT_FREE /\ u.fat[m] # FAT_INODE
    BY <1>1, PrefixFacts DEF Core
  <2> QED
    BY <1>1, <1>5, <2>1, <2>2
<1>7. w.fat[a] = FAT_INODE /\ w.disk[a] = EmptyInode /\ a \notin DirOf(w)
  BY <1>5, ValuesTyped DEF Scrap
<1>8. /\ EmptyInode \in InodeRecords /\ Size(w, a) = 0 /\ EmptyInode.first = FAT_EOF
      /\ EmptyInode.last = FAT_EOF
  <2>1. EmptyInode.length = 0 /\ EmptyInode.first = FAT_EOF /\ EmptyInode.last = FAT_EOF
    BY DEF EmptyInode
  <2>2. EmptyInode \in InodeRecords
    BY SgfAssumption DEF EmptyInode, InodeRecords
  <2>3. Blocks(0) = 0
    BY BlocksAre
  <2> QED
    BY <1>7, <2>1, <2>2, <2>3 DEF Size
<1>9. T[a] = [k \in 0 .. -1 |-> a] /\ \A j \in Live(w) : j # a => T[j] = S[j]
  BY <1>3
<1> HIDE DEF T
<1>10. Prefix(w, a, T[a]) /\ EndOf(w, a, T[a]) = FAT_EOF /\ Core(w, T, a) = {}
  <2>1. 0 .. -1 = {} /\ 0 - 1 = -1 /\ 0 .. 0 - 2 = {}
    OBVIOUS
  <2>2. EndOf(w, a, T[a]) = FAT_EOF
    BY <1>7, <1>8 DEF EndOf
  <2>3. T[a] \in [0 .. 0 - 1 -> Blocs]
    BY <1>9, <2>1
  <2>4. ChainSet(T[a], 0) = {}
    BY <2>1 DEF ChainSet
  <2> QED
    BY <1>7, <1>8, <2>1, <2>2, <2>3, <2>4 DEF Prefix, Core
<1>11. Settles(u, S, w, T, a)
  BY <1>10 DEF Settles
<1>12. \A j \in Live(w) : j # a => Stays(u, S, w, T, j)
  BY <1>3, <1>6, <1>9 DEF Stays
<1>13. Kept(w, T) /\ \A j \in Damaged(w, T) : j = a \/ j \in Damaged(u, S)
  <2>1. Sound(w)
    BY DEF Renamed
  <2> QED
    BY <1>4, <1>11, <1>12, <2>1, KeptFrame
<1>14. a \notin Damaged(w, T)
  BY <1>10 DEF Damaged
<1>15. \A j \in Live(w) : j # a => Core(w, T, j) = Core(u, S, j)
  BY <1>3, <1>6, <1>9 DEF Core, Size
<1>16. ASSUME old # -1 PROVE LeftAt(u, S, w, T, old)
  <2>1. old \in Live(u) /\ old \notin Live(w) /\ old \in Blocs /\ EndOf(u, old, S[old]) = FAT_EOF
    BY <1>1, <1>3, <1>16 DEF Damaged
  <2>2. \A j \in Live(w) : \A m \in Core(w, T, j) : m # old /\ m \notin Core(u, S, old)
    <3> SUFFICES ASSUME NEW j \in Live(w), NEW m \in Core(w, T, j)
                 PROVE  m # old /\ m \notin Core(u, S, old)
      OBVIOUS
    <3>1. j # a /\ j \in Live(u) /\ j # old /\ m \in Core(u, S, j)
      BY <1>3, <1>10, <1>15, <2>1
    <3>2. u.fat[m] # FAT_INODE /\ u.fat[old] = FAT_INODE
      BY <1>1, <1>6, <2>1, <3>1
    <3> QED
      BY <1>1, <2>1, <3>1, <3>2
  <2>3. Scrap(w, T, old) /\ w.fat[old] = FAT_INODE
    BY <1>1, <1>6, <2>1, <2>2 DEF Scrap
  <2>4. \A m \in Core(u, S, old) : Scrap(w, T, m)
    <3> SUFFICES ASSUME NEW m \in Core(u, S, old) PROVE Scrap(w, T, m)
      OBVIOUS
    <3>1. m \in Blocs /\ m \notin DirOf(w) /\ u.fat[m] # FAT_INODE
      BY <1>6, <2>1
    <3>2. m \notin Live(w)
      BY <1>1, <1>3, <3>1
    <3> QED
      BY <2>2, <3>1, <3>2 DEF Scrap
  <2>5. IsChain(w.fat, w.disk[old].first, S[old], Size(u, old))
    <3> DEFINE n == Size(u, old)
               s == S[old]
    <3>1. IsChain(u.fat, u.disk[old].first, s, n) /\ n \in Nat
      BY <1>1, <2>1, PrefixFacts
    <3>2. \A k \in 0 .. n - 1 : w.fat[s[k]] = u.fat[s[k]]
      BY <1>6, <2>1 DEF Core, ChainSet
    <3>3. w.disk[old] = u.disk[old]
      BY <1>6, <2>1
    <3> HIDE DEF n, s
    <3>4. (n # 0 => n - 1 \in 0 .. n - 1) /\ \A k \in 0 .. n - 2 : k \in 0 .. n - 1
      BY <3>1
    <3>5. IsChain(w.fat, w.disk[old].first, s, n)
      BY <3>1, <3>2, <3>3, <3>4 DEF IsChain
    <3> QED
      BY <3>5 DEF n, s
  <2> QED
    BY <2>1, <2>3, <2>4, <2>5 DEF LeftAt, Core
<1>17. EmptyAt(w, T, a)
  BY <1>3, <1>7, <1>8, <1>14 DEF EmptyAt
<1> QED
  BY <1>13, <1>14, <1>16, <1>17

(* sgf_remove() of blocks that nothing depends on. *)
LEMMA ScrapFreed ==
  ASSUME NEW w, NEW T, NEW t, Resting(w, T, t), NEW i, NEW s, NEW n,
         Scrap(w, T, i), i \in Blocs, w.fat[i] = FAT_INODE,
         IsChain(w.fat, w.disk[i].first, s, n), \A m \in ChainSet(s, n) : Scrap(w, T, m),
         w.disk[i].first \in Values, NEW r, r = sgf_remove(w, i)
  PROVE  r = Result(r.vol, NULL) /\ Resting(r.vol, T, t) /\ Alike(w, T, r.vol, T)
<1>0. IsVolume(w) /\ Kept(w, T) /\ t \in Nat /\ Cardinality(Damaged(w, T)) <= t /\ PastFine(w, t + 1)
  BY DEF Resting
<1> DEFINE a == w.disk[i].first
<1>1. /\ w.fat \in Fats /\ Reserved(w.fat) /\ n \in Nat /\ s \in [0 .. n - 1 -> Blocs]
      /\ Cardinality(DataOf(w, i)) = n /\ Cardinality(Damaged(w, T)) <= t + 1
  <2>1. w.fat \in Fats /\ Reserved(w.fat)
    BY <1>0 DEF Kept, Sound
  <2>2. Cardinality(DataOf(w, i)) = n
    BY <2>1, ChainFacts DEF DataOf
  <2>3. Cardinality(Damaged(w, T)) <= t + 1
    BY <1>0, OneMoreDamaged
  <2> QED
    BY <2>1, <2>2, <2>3 DEF IsChain
<1>2. PICK z : ReleasedFrom(z, w, a) /\ RemoveIs(z, w, i, n)
  BY <1>0, <1>1, RemoveUnfolds
<1> HIDE DEF a
<1>3. \A k \in 0 .. n - 1 : w.fat[s[k]] # FAT_RESERVED
  <2> SUFFICES ASSUME NEW k \in 0 .. n - 1 PROVE w.fat[s[k]] # FAT_RESERVED
    OBVIOUS
  <2>1. k = n - 1 \/ (k \in 0 .. n - 2 /\ k + 1 \in 0 .. n - 1)
    BY <1>1
  <2>2. w.fat[s[k]] = FAT_EOF \/ w.fat[s[k]] \in Blocs
    BY <1>1, <2>1 DEF IsChain
  <2> QED
    BY <2>2, ValuesTyped
<1>4. ASSUME NEW k \in Nat, k <= n, NEW x, FreedUpTo(w, s, n, k, x)
      PROVE  IsVolume(x.vol) /\ Alike(w, T, x.vol, T) /\ Fine(OnDisk(x.vol), t + 1)
  <2> DEFINE y == x.vol
             freed == {s[j] : j \in 0 .. k - 1}
  <2>1. /\ IsVolume(y) /\ y.fat \in Fats /\ IsDisk(y.disk)
        /\ \A m \in Blocs : m \notin freed => y.fat[m] = w.fat[m] /\ y.disk[m] = w.disk[m]
    BY <1>4 DEF FreedUpTo, IsVolume
  <2>2. \A m \in freed : Scrap(w, T, m) /\ w.fat[m] # FAT_RESERVED
    <3>1. \A j \in 0 .. k - 1 : j \in 0 .. n - 1
      BY <1>1, <1>4
    <3> QED
      BY <1>3, <3>1 DEF ChainSet
  <2> HIDE DEF y, freed
  <2>3. Reserved(y.fat)
    BY <1>1, <2>1, <2>2 DEF Reserved
  <2>4. Alike(w, T, y, T)
    <3>1. \A m \in Blocs : y.fat[m] = w.fat[m] \/ Scrap(w, T, m)
      BY <2>1, <2>2
    <3>2. \A m \in Blocs : y.disk[m] = w.disk[m] \/ (m \notin DirOf(w) /\ m \notin Live(w))
      BY <2>1, <2>2 DEF Scrap
    <3> QED
      BY <1>0, <2>1, <2>3, <3>1, <3>2, ScrapKept
  <2>5. Fine(OnDisk(y), t + 1)
    BY <1>1, <2>4, FineOnDisk DEF Alike
  <2> QED
    BY <2>1, <2>4, <2>5 DEF y
<1> DEFINE P == {k \in Nat : k <= n => FreedUpTo(w, s, n, k, z[k]) /\ PastFine(z[k].vol, t + 1)}
<1>5. 0 \in P
  <2>1. {s[j] : j \in 0 .. 0 - 1} = {}
    OBVIOUS
  <2>2. z[0].vol = w /\ z[0].adr = a
    BY <1>2 DEF ReleasedFrom
  <2>3. a = IF 0 < n THEN s[0] ELSE FAT_EOF
    BY <1>1 DEF IsChain, a
  <2>4. FreedUpTo(w, s, n, 0, z[0])
    BY <1>0, <2>1, <2>2, <2>3 DEF FreedUpTo
  <2> QED
    BY <1>0, <2>2, <2>4
<1>6. ASSUME NEW k \in Nat, k \in P
      PROVE  k + 1 \in P
  <2> SUFFICES ASSUME k + 1 <= n
               PROVE  FreedUpTo(w, s, n, k + 1, z[k + 1]) /\ PastFine(z[k + 1].vol, t + 1)
    OBVIOUS
  <2>1. k < n /\ k <= n /\ k \in 0 .. n - 1
    BY <1>1
  <2>2. FreedUpTo(w, s, n, k, z[k]) /\ PastFine(z[k].vol, t + 1)
    BY <1>6, <2>1
  <2>3. z[k + 1] = Release(z[k])
    BY <1>2 DEF ReleasedFrom
  <2> HIDE DEF P
  <2>4. FreedUpTo(w, s, n, k + 1, z[k + 1])
    <3>1. IsChain(w.fat, a, s, n)
      BY DEF a
    <3> QED
      BY <1>0, <2>1, <2>2, <2>3, <3>1, OneFreed
  <2> DEFINE y == z[k].vol
             c == z[k].adr
             q == z[k + 1].vol
  <2>5. IsVolume(y) /\ Fine(OnDisk(y), t + 1)
    BY <1>4, <2>1, <2>2
  <2>6. c \in Blocs
    BY <1>1, <2>1, <2>2 DEF FreedUpTo
  <2>7. q = set_fat(y, c, FAT_FREE)
    BY <2>3, <2>6 DEF Release, NU_BLOC_OK
  <2>8. PastFine(y, t + 1)
    BY <2>2
  <2> HIDE DEF y, c, q
  <2>9. q.passe = Append(y.passe, OnDisk(y))
    BY <2>5, <2>6, <2>7, FatSet, ValuesTyped
  <2>10. PastFine(q, t + 1)
    BY <2>5, <2>8, <2>9, WritePast
  <2> QED
    BY <2>4, <2>10 DEF q
<1> HIDE DEF P
<1>7. Nat \subseteq P
  BY <1>5, <1>6, Induction
<1> DEFINE y == z[n].vol
           x == set_fat(y, i, FAT_FREE)
<1>8. FreedUpTo(w, s, n, n, z[n]) /\ PastFine(y, t + 1)
  BY <1>1, <1>7 DEF P
<1>9. IsVolume(y) /\ Alike(w, T, y, T) /\ Fine(OnDisk(y), t + 1) /\ z[n].adr = FAT_EOF
  <2>1. z[n].adr = FAT_EOF
    BY <1>1, <1>8 DEF FreedUpTo
  <2>2. n <= n
    BY <1>1
  <2> QED
    BY <1>1, <1>4, <1>8, <2>1, <2>2
<1>10. r = Result(x, NULL)
  BY <1>2, <1>9 DEF RemoveIs
<1> HIDE DEF y
<1>11. /\ IsVolume(x) /\ x.fat = [y.fat EXCEPT ![i] = FAT_FREE]
       /\ \A m \in Blocs : m # i => x.disk[m] = y.disk[m]
       /\ x.passe = Append(y.passe, OnDisk(y))
  <2>1. FAT_FREE \in Values
    BY ValuesTyped
  <2>2. x = set_fat(y, i, FAT_FREE)
    OBVIOUS
  <2> HIDE DEF x
  <2> QED
    BY <1>9, <2>1, <2>2, FatSet
<1> HIDE DEF x
<1>12. y.fat \in Fats /\ \A m \in Blocs : m # i => x.fat[m] = y.fat[m]
  <2>1. y.fat \in Fats
    BY <1>9 DEF IsVolume
  <2> QED
    BY <1>11, <2>1 DEF Fats
<1>13. Scrap(y, T, i)
  BY <1>9 DEF Scrap, Alike
<1>14. Alike(y, T, x, T)
  <2>1. x.fat \in Fats /\ IsDisk(x.disk)
    BY <1>11 DEF IsVolume
  <2>2. Reserved(x.fat)
    <3>1. Reserved(y.fat)
      BY <1>9 DEF Alike, Kept, Sound
    <3>2. ~(i < ADR_DIR)
      BY <1>1, ValuesTyped DEF Reserved
    <3> QED
      BY <1>12, <3>1, <3>2 DEF Reserved
  <2>3. \A m \in Blocs : x.disk[m] = y.disk[m] \/ (m \notin DirOf(y) /\ m \notin Live(y))
    BY <1>11, <1>13 DEF Scrap
  <2>4. \A m \in Blocs : x.fat[m] = y.fat[m] \/ Scrap(y, T, m)
    BY <1>12, <1>13
  <2>5. Kept(y, T)
    BY <1>9 DEF Alike
  <2> QED
    BY <2>1, <2>2, <2>3, <2>4, <2>5, ScrapKept
<1>15. Alike(w, T, x, T)
  BY <1>9, <1>14 DEF Alike, SameNames
<1>16. PastFine(x, t + 1)
  BY <1>8, <1>9, <1>11, WritePast
<1>17. r.vol = x
  BY <1>10 DEF Result
<1>18. Resting(x, T, t)
  BY <1>0, <1>11, <1>15, <1>16 DEF Resting, Alike
<1> QED
  BY <1>10, <1>15, <1>17, <1>18

(* A state of the disk more to be killed in. *)
AllFine(p, t) == \A k \in DOMAIN p : Fine(p[k], t) /\ p[k] = OnDisk(p[k])

(* It is remembered with the earlier ones. *)
LEMMA FineAppended ==
  ASSUME NEW p, IsPast(p), NEW t, AllFine(p, t), NEW x, Fine(x, t), x = OnDisk(x)
  PROVE  IsPast(Append(p, x)) /\ AllFine(Append(p, x), t)
<1>1. PICK P : p \in Seq(P)
  BY DEF IsPast
<1>2. p \in Seq(P \cup {x}) /\ x \in P \cup {x}
  BY <1>1
<1>3. Append(p, x) \in Seq(P \cup {x})
  BY <1>2
<1>4. AllFine(Append(p, x), t)
  BY <1>2 DEF AllFine
<1> QED
  BY <1>3, <1>4 DEF IsPast

(* add_inode(): it enters the name, or leaves the volume as it was. *)
LEMMA InodeEntered ==
  ASSUME NEW v, NEW S, NEW t, Resting(v, S, t), NEW a \in Blocs, a > 0, Scrap(v, S, a),
         v.fat[a] = FAT_INODE, NEW nom \in NOMS, NEW add, add = add_inode(v, nom, a)
  PROVE  \/ add.vol = v /\ add.ret = -1
         \/ /\ IsVolume(add.vol) /\ PastFine(add.vol, t + 1) /\ Renamed(v, nom, a, add.vol)
            /\ add.ret = find_inode(v, nom)
<1>0. /\ IsVolume(v) /\ Kept(v, S) /\ t \in Nat /\ Cardinality(Damaged(v, S)) <= t
      /\ PastFine(v, t + 1) /\ Cardinality(Damaged(v, S)) <= t + 1
  <2>1. IsVolume(v) /\ Kept(v, S) /\ t \in Nat /\ Cardinality(Damaged(v, S)) <= t /\ PastFine(v, t + 1)
    BY DEF Resting
  <2> QED
    BY <2>1, OneMoreDamaged
<1> DEFINE w == add.vol
           e == [name |-> nom, inode |-> a]
<1>1. Sound(v) /\ v.fat \in Fats /\ Reserved(v.fat)
  BY <1>0 DEF Kept, Sound
<1>2. PICK s, n : HasDirectory(v, s, n)
  BY <1>1 DEF Sound
<1>3. e \in Entries /\ e.inode > 0 /\ e.inode = a /\ e.name = nom
  BY ValuesTyped DEF Entries
<1>4. /\ IsChain(v.fat, ADR_DIR, s, n) /\ DirOf(v) = ChainSet(s, n) /\ n \in Nat
      /\ s \in [0 .. n - 1 -> Blocs]
  <2>1. IsChain(v.fat, ADR_DIR, s, n) /\ ADR_DIR \in Values
    BY <1>2, ValuesTyped DEF HasDirectory, IsDirectory
  <2>2. DirOf(v) = ChainSet(s, n)
    BY <1>1, <2>1, ChainFacts DEF DirOf
  <2> QED
    BY <2>1, <2>2 DEF IsChain
<1>5. Fine(OnDisk(v), t + 1)
  BY <1>0, FineOnDisk
<1> HIDE DEF e
<1>6. ASSUME NEW p \in PlacesOf(n), w = SetEntry(v, p, e), add.ret = find_inode(v, nom),
             OnlyNamed(v, s, n, p, nom)
      PROVE  IsVolume(w) /\ PastFine(w, t + 1) /\ Renamed(v, nom, a, w)
  <2> DEFINE b == s[p \div BLOCK_DIR_SIZE]
  <2> HIDE DEF w
  <2>1. OnlyUsed(v, s, n, p, e)
    BY <1>3, <1>6 DEF OnlyUsed
  <2>2. /\ IsVolume(w) /\ w.fat = v.fat /\ HasDirectory(w, s, n) /\ b \in Blocs
        /\ \A m \in Blocs : m # b => w.disk[m] = v.disk[m]
        /\ EntryOf(w.disk, s, p) = e
        /\ \A q \in PlacesOf(n) : q # p => EntryOf(w.disk, s, q) = EntryOf(v.disk, s, q)
        /\ w.passe = Append(v.passe, OnDisk(v))
    BY <1>0, <1>2, <1>3, <1>6, <2>1, EntrySet
  <2>3. p \div BLOCK_DIR_SIZE \in 0 .. n - 1
    BY <1>4, PlacesAre DEF PlacesOf
  <2>4. b \in DirOf(v)
    BY <1>4, <2>3 DEF ChainSet
  <2> HIDE DEF b
  <2>5. Sound(w) /\ DirOf(w) = DirOf(v)
    <3>1. w.fat \in Fats /\ IsDisk(w.disk)
      BY <2>2 DEF IsVolume
    <3> QED
      BY <1>1, <2>2, <3>1 DEF Sound, DirOf
  <2>6. ChangedAt(v, s, n, w, s, n, p)
    BY <2>2 DEF ChangedAt
  <2>7. /\ \A x : x # nom => find_inode(w, x) = find_inode(v, x)
        /\ find_inode(w, nom) = IF EntryOf(w.disk, s, p).inode > 0
                                THEN EntryOf(w.disk, s, p).inode ELSE -1
    BY <1>2, <1>3, <1>6, <2>2, <2>6, Relisted
  <2>8. find_inode(w, nom) = a
    BY <1>3, <2>2, <2>7
  <2>9. Renamed(v, nom, a, w)
    BY <2>2, <2>4, <2>5, <2>7, <2>8 DEF Renamed
  <2>10. PastFine(w, t + 1)
    BY <1>0, <1>5, <2>2, WritePast
  <2> QED
    BY <2>2, <2>9, <2>10
<1>7. ASSUME Free(v.fat) # {}, w = GrowDir(v, e), add.ret = -1, find_inode(v, nom) = -1,
             NotNamed(v, s, n, nom)
      PROVE  IsVolume(w) /\ PastFine(w, t + 1) /\ Renamed(v, nom, a, w)
  <2> DEFINE b == alloc_block(v.fat)
             u == Extended(s, n, b)
             p == n * BLOCK_DIR_SIZE
  <2> HIDE DEF w
  <2>1. Grown(v, s, n, e, b, w, u)
    BY <1>0, <1>2, <1>3, <1>7, DirectoryGrown
  <2>2. DirOf(w) = DirOf(v) \cup {b}
    <3>1. w.fat \in Fats /\ IsChain(w.fat, ADR_DIR, u, n + 1) /\ ADR_DIR \in Values
      BY <2>1, ValuesTyped DEF Grown, HasDirectory, IsDirectory
    <3> HIDE DEF u, b
    <3>2. DirOf(w) = ChainSet(u, n + 1)
      BY <3>1, ChainFacts DEF DirOf
    <3>3. ChainSet(u, n + 1) = ChainSet(s, n) \cup {b}
      BY <1>4, ChainSetExtended DEF u
    <3> QED
      BY <1>4, <3>2, <3>3
  <2> HIDE DEF u, b, p
  <2>3. /\ b \in Blocs /\ v.fat[b] = FAT_FREE /\ b \notin DirOf(v)
        /\ s[n - 1] \in DirOf(v) /\ s[n - 1] \in Blocs
        /\ IsVolume(w) /\ HasDirectory(w, u, n + 1)
        /\ w.fat = [[v.fat EXCEPT ![b] = FAT_EOF] EXCEPT ![s[n - 1]] = b]
        /\ \A i \in Blocs : i # b => w.disk[i] = v.disk[i]
        /\ w.passe = Append(Append(Append(v.passe, OnDisk(v)),
                        [fat |-> v.fat, disk |-> w.disk]),
                        [fat |-> [v.fat EXCEPT ![b] = FAT_EOF], disk |-> w.disk])
    BY <1>4, <2>1 DEF Grown
  <2>4. /\ w.fat[b] = FAT_EOF /\ w.fat[s[n - 1]] = b /\ s[n - 1] # b
        /\ \A m \in Blocs : m # b /\ m # s[n - 1] => w.fat[m] = v.fat[m]
    <3> DEFINE z == s[n - 1]
    <3>1. z \in Blocs /\ z # b /\ w.fat = [[v.fat EXCEPT ![b] = FAT_EOF] EXCEPT ![z] = b]
      BY <2>3
    <3> HIDE DEF z
    <3>2. w.fat[b] = FAT_EOF /\ w.fat[z] = b
          /\ \A m \in Blocs : m # b /\ m # z => w.fat[m] = v.fat[m]
      BY <1>1, <2>3, <3>1 DEF Fats
    <3> QED
      BY <3>1, <3>2 DEF z
  <2>5. v.fat[s[n - 1]] # FAT_RESERVED /\ ~(b < ADR_DIR) /\ FAT_EOF \in Values /\ Scrap(v, S, b)
    <3>1. v.fat[s[n - 1]] # FAT_RESERVED
      BY <1>1, <2>3, DirOfMarked
    <3>2. ~(b < ADR_DIR)
      BY <1>1, <2>3, ValuesTyped DEF Reserved
    <3>3. Scrap(v, S, b)
      BY <1>0, <2>3, ScrapFound
    <3> QED
      BY <3>1, <3>2, <3>3, ValuesTyped
  <2>6. w.fat \in Fats /\ IsDisk(w.disk) /\ Sound(w)
    <3>1. w.fat \in Fats /\ IsDisk(w.disk)
      BY <2>3 DEF IsVolume
    <3>2. Reserved(w.fat)
      BY <1>1, <2>3, <2>4, <2>5 DEF Reserved
    <3> QED
      BY <2>3, <3>1, <3>2 DEF Sound
  <2>7. ChangedAt(v, s, n, w, u, n + 1, p) /\ OnlyNamed(v, s, n, p, nom)
        /\ EntryOf(w.disk, u, p) = e
    BY <1>7, <2>1 DEF ChangedAt, OnlyNamed, NotNamed, Grown, p
  <2>8. /\ \A x : x # nom => find_inode(w, x) = find_inode(v, x)
        /\ find_inode(w, nom) = IF EntryOf(w.disk, u, p).inode > 0
                                THEN EntryOf(w.disk, u, p).inode ELSE -1
    BY <1>2, <1>3, <2>3, <2>7, Relisted
  <2>9. find_inode(w, nom) = a
    BY <1>3, <2>7, <2>8
  <2>10. Renamed(v, nom, a, w)
    <3>1. \A m \in Blocs : m \notin DirOf(w) => w.disk[m] = v.disk[m] /\ w.fat[m] = v.fat[m]
      BY <2>2, <2>3, <2>4
    <3>2. \A m \in DirOf(w) : m \in DirOf(v) \/ (m \in Blocs /\ v.fat[m] = FAT_FREE)
      BY <2>2, <2>3
    <3> QED
      BY <2>6, <2>8, <2>9, <3>1, <3>2 DEF Renamed
  <2> DEFINE f == [v.fat EXCEPT ![b] = FAT_EOF]
             x1 == [fat |-> v.fat, disk |-> w.disk]
             x2 == [fat |-> f, disk |-> w.disk]
  <2>11. /\ f \in Fats /\ f[b] = FAT_EOF /\ \A m \in Blocs : m # b => f[m] = v.fat[m]
    BY <1>1, <2>3, <2>5 DEF Fats
  <2>12. ASSUME NEW g \in Fats, \A m \in Blocs : m # b => g[m] = v.fat[m],
                NEW x, x = [fat |-> g, disk |-> w.disk]
         PROVE  Fine(x, t + 1) /\ x = OnDisk(x)
    <3>1. x.fat = g /\ x.disk = w.disk /\ x = OnDisk(x)
      BY <2>12 DEF OnDisk
    <3>2. Reserved(g)
      BY <1>1, <2>3, <2>5, <2>12 DEF Reserved
    <3>3. \A m \in Blocs : w.disk[m] = v.disk[m] \/ (m \notin DirOf(v) /\ m \notin Live(v))
      BY <2>3, <2>5 DEF Scrap
    <3>4. \A m \in Blocs : g[m] = v.fat[m] \/ Scrap(v, S, m)
      BY <2>5, <2>12
    <3>5. Alike(v, S, x, S)
      BY <1>0, <2>6, <2>12, <3>1, <3>2, <3>3, <3>4, ScrapKept
    <3> QED
      BY <1>0, <3>1, <3>5 DEF Alike, Fine
  <2>13. Fine(x1, t + 1) /\ x1 = OnDisk(x1) /\ Fine(x2, t + 1) /\ x2 = OnDisk(x2)
    <3> HIDE DEF f
    <3> QED
      BY <1>1, <2>11, <2>12
  <2>14. AllFine(v.passe, t + 1) /\ IsPast(v.passe) /\ OnDisk(v) = OnDisk(OnDisk(v))
    BY <1>0 DEF PastFine, AllFine, IsVolume, OnDisk
  <2>15. w.passe = Append(Append(Append(v.passe, OnDisk(v)), x1), x2)
    BY <2>3
  <2> HIDE DEF x1, x2
  <2>16. AllFine(w.passe, t + 1)
    <3> DEFINE p1 == Append(v.passe, OnDisk(v))
               p2 == Append(p1, x1)
    <3>1. IsPast(p1) /\ AllFine(p1, t + 1)
      BY <1>5, <2>14, FineAppended
    <3>2. w.passe = Append(p2, x2)
      BY <2>15
    <3> HIDE DEF p1
    <3>3. IsPast(p2) /\ AllFine(p2, t + 1)
      BY <2>13, <3>1, FineAppended
    <3> HIDE DEF p2
    <3>4. AllFine(Append(p2, x2), t + 1)
      BY <2>13, <3>3, FineAppended
    <3> QED
      BY <3>2, <3>4
  <2> QED
    BY <2>3, <2>10, <2>16 DEF PastFine, AllFine
<1>8. \/ /\ w = v /\ add.ret = -1
         /\ nom \in NOMS_LONGS \/ (Free(v.fat) = {} /\ find_inode(v, nom) = -1)
      \/ /\ nom \notin NOMS_LONGS
         /\ \E p \in PlacesOf(n) :
              /\ w = SetEntry(v, p, e) /\ add.ret = find_inode(v, nom)
              /\ OnlyNamed(v, s, n, p, nom)
      \/ /\ nom \notin NOMS_LONGS
         /\ Free(v.fat) # {} /\ w = GrowDir(v, e)
         /\ add.ret = -1 /\ find_inode(v, nom) = -1
         /\ NotNamed(v, s, n, nom)
  <2>1. e = [name |-> nom, inode |-> a]
    BY DEF e
  <2> QED
    BY <1>2, <2>1, AddInode
<1> QED
  BY <1>6, <1>7, <1>8

(* A new file is open. *)
LEMMA EmptyWrites ==
  ASSUME NEW x, NEW T, Kept(x, T), NEW a, EmptyAt(x, T, a),
         NEW fl, fl = OFile(a, EmptyInode, FAT_EOF, 0, WRITE_MODE)
  PROVE  WritesIn(x, T, fl)
<1>1. /\ fl.length = 0 /\ fl.last = FAT_EOF /\ fl.current = FAT_EOF /\ fl.ptr = 0
      /\ fl.inode = a /\ ~Reads(fl) /\ IsOFile(fl)
  BY DEF OFile, EmptyInode, IsOFile, Reads, READ_MODE, WRITE_MODE
<1>2. /\ x.disk[a].last = FAT_EOF /\ x.disk[a].length = 0 /\ a \in Live(x) /\ a \notin Damaged(x, T)
      /\ Size(x, a) = 0
  BY DEF EmptyAt, EmptyInode
<1>3. Blocks(0) = 0 /\ 0 \in 0 .. MAX_LENGTH
  BY BlocksAre, SgfAssumption
<1> QED
  BY <1>1, <1>2, <1>3 DEF WritesIn

(* sgf_open_write() with a free block and a name that leads to no damaged   *)
(* file.                                                                    *)
LEMMA NewFileKept ==
  ASSUME NEW v, NEW S, NEW t, Resting(v, S, t), Free(v.fat) # {}, NEW nom \in NOMS,
         find_inode(v, nom) \notin Damaged(v, S), NEW r, r = NewFile(v, nom)
  PROVE  Ended(r, t)
<1> DEFINE a == alloc_block(v.fat)
           u == set_fat(write_block(v, a, EmptyInode), a, FAT_INODE)
           add == add_inode(u, nom, a)
           w == add.vol
           r0 == IF add.ret > 0 THEN sgf_remove(w, add.ret) ELSE Result(w, NULL)
           fl == OFile(a, EmptyInode, FAT_EOF, 0, WRITE_MODE)
           pd == find_inode(w, nom) # a
<1>1. r = [r0 EXCEPT !.file = fl, !.perdu = pd]
  BY DEF NewFile, EmptyInode
<1>2. /\ Resting(u, S, t) /\ Alike(v, S, u, S)
      /\ a \in Blocs /\ a > 0 /\ u.fat[a] = FAT_INODE /\ u.disk[a] = EmptyInode
      /\ Scrap(u, S, a)
  <2> HIDE DEF a
  <2> QED
    BY InodeMade DEF a
<1> HIDE DEF a, u
<1>3. \/ w = u /\ add.ret = -1
      \/ /\ IsVolume(w) /\ PastFine(w, t + 1) /\ Renamed(u, nom, a, w)
         /\ add.ret = find_inode(u, nom)
  BY <1>2, InodeEntered
<1> HIDE DEF add
<1>4. ASSUME NEW x, r0 = Result(x, NULL)
      PROVE  r.vol = x /\ r.file = fl /\ r.perdu = pd /\ r.panique = FALSE
  <2> HIDE DEF r0, fl, pd
  <2> QED
    BY <1>1, <1>4 DEF Result
<1>5. CASE w = u /\ add.ret = -1
  <2>1. r0 = Result(w, NULL)
    BY <1>5
  <2>2. r.perdu = pd
    BY <1>4, <2>1
  <2>3. pd = TRUE
    <3>1. find_inode(u, nom) = a /\ a # -1 => a \in Live(u)
      BY DEF Live
    <3> QED
      BY <1>2, <1>5, <3>1, ValuesTyped DEF Scrap
  <2> QED
    BY <2>2, <2>3 DEF Ended
<1>6. CASE /\ IsVolume(w) /\ PastFine(w, t + 1) /\ Renamed(u, nom, a, w)
           /\ add.ret = find_inode(u, nom)
  <2> DEFINE old == find_inode(u, nom)
  <2>1. old \notin Damaged(u, S) /\ Kept(u, S) /\ t \in Nat /\ Cardinality(Damaged(u, S)) <= t
    BY <1>2 DEF Alike, SameNames, Resting
  <2>2. old \in Nat \ {0} \/ old = -1
    <3>1. PICK s, n : HasDirectory(u, s, n)
      BY <2>1 DEF Kept, Sound
    <3> QED
      BY <3>1, FindTyped DEF HasDirectory
  <2>3. add.ret = old
    BY <1>6
  <2> HIDE DEF old
  <2>4. PICK T : /\ Kept(w, T) /\ EmptyAt(w, T, a)
                 /\ \A j \in Damaged(w, T) : j \in Damaged(u, S)
                 /\ old # -1 => LeftAt(u, S, w, T, old)
    BY <1>2, <1>6, <2>1, RenamedKept DEF old
  <2>5. Resting(w, T, t)
    <3>1. Cardinality(Damaged(w, T)) <= t
      <4> DEFINE D == Damaged(w, T)
      <4>1. D \subseteq Damaged(u, S)
        BY <2>4
      <4> HIDE DEF D
      <4>2. Cardinality(D) <= t
        BY <2>1, <4>1, FewDamaged
      <4> QED
        BY <4>2 DEF D
    <3> QED
      BY <1>6, <2>1, <2>4, <3>1 DEF Resting
  <2>6. ASSUME NEW x, r0 = Result(x, NULL), Resting(x, T, t), Alike(w, T, x, T)
        PROVE  Ended(r, t)
    <3>1. r.vol = x /\ r.file = fl /\ r.perdu = pd /\ r.panique = FALSE
      BY <1>4, <2>6
    <3>2. EmptyAt(x, T, a)
      BY <2>4, <2>6 DEF EmptyAt, Alike, Size
    <3>3. WritesIn(x, T, fl)
      BY <2>6, <3>2, EmptyWrites DEF Resting
    <3> HIDE DEF fl
    <3>4. Held(x, T, fl, t) /\ PastFine(x, t + 1)
      BY <2>6, <3>3 DEF Held, Resting
    <3>5. r.perdu \in BOOLEAN
      <4>1. pd \in BOOLEAN
        OBVIOUS
      <4> QED
        BY <3>1, <4>1
    <3> QED
      BY <3>1, <3>4, <3>5 DEF Ended
  <2>7. CASE old # -1
    <3> DEFINE s == S[old]
               n == Size(u, old)
    <3>1. old > 0 /\ LeftAt(u, S, w, T, old)
      BY <2>2, <2>4, <2>7
    <3>2. r0 = sgf_remove(w, old)
      BY <2>3, <3>1
    <3> HIDE DEF r0
    <3>3. /\ Scrap(w, T, old) /\ old \in Blocs /\ w.fat[old] = FAT_INODE
          /\ IsChain(w.fat, w.disk[old].first, s, n) /\ \A m \in ChainSet(s, n) : Scrap(w, T, m)
      BY <3>1 DEF LeftAt
    <3> HIDE DEF s, n
    <3>4. w.disk[old].first \in Values
      <4>1. w.disk[old].first = FAT_EOF \/ w.disk[old].first \in Blocs
        BY <3>3 DEF IsChain
      <4> QED
        BY <4>1, ValuesTyped
    <3>5. r0 = Result(r0.vol, NULL) /\ Resting(r0.vol, T, t) /\ Alike(w, T, r0.vol, T)
      BY <2>5, <3>2, <3>3, <3>4, ScrapFreed
    <3> QED
      BY <2>6, <3>5
  <2>8. CASE old = -1
    <3>1. r0 = Result(w, NULL)
      BY <2>3, <2>8
    <3>2. Alike(w, T, w, T)
      BY <2>4, AlikeSame
    <3> QED
      BY <2>5, <2>6, <3>1, <3>2
  <2> QED
    BY <2>7, <2>8
<1> QED
  BY <1>3, <1>5, <1>6
-----------------------------------------------------------------------------
(* The state of the program: unless something was lost or opened that      *)
(* should not be, t files at most are damaged, and a loop over a text has  *)
(* a file that is not damaged and has room.                                *)
Looping(v, S, fl, ap) ==
  /\ WritesIn(v, S, fl) /\ ap \in [op : {"puts", "write"}, reste : Seq(CHARS) \ {<<>>}]
  /\ fl.length + Len(ap.reste) <= MAX_LENGTH
AsHeld(v, md, fl, ap, t) ==
  /\ md # "marche" => fl = NULL
  /\ \E S : Held(v, S, fl, t) /\ (ap = Idle \/ (md = "marche" /\ Looping(v, S, fl, ap)))
Survives(v, md, fl, ap, pe, ab, t) ==
  t \in Nat /\ pe \in BOOLEAN /\ ab \in BOOLEAN /\ (pe \/ ab \/ AsHeld(v, md, fl, ap, t))
PInv == Survives(Volume, mode, file, appel, perte, abime, tues)

(* What is held is held of the same blocks. *)
LEMMA HeldSame ==
  ASSUME NEW v, NEW S, NEW fl, NEW t, Held(v, S, fl, t), NEW w, w.fat = v.fat, w.disk = v.disk
  PROVE  Held(w, S, fl, t) /\ (WritesIn(v, S, fl) => WritesIn(w, S, fl))
<1>1. Kept(v, S) /\ Cardinality(Damaged(v, S)) <= t
  BY DEF Held
<1>2. Alike(v, S, w, S)
  BY <1>1, AlikeSame
<1>3. Kept(w, S) /\ Live(w) = Live(v) /\ Damaged(w, S) = Damaged(v, S)
  BY <1>2 DEF Alike
<1>4. WritesIn(v, S, fl) => WritesIn(w, S, fl)
  BY <1>3 DEF WritesIn, Size
<1>5. ReadsIn(v, fl) => ReadsIn(w, fl)
  BY <1>3 DEF ReadsIn
<1> QED
  BY <1>1, <1>3, <1>4, <1>5 DEF Held

(* Between two writes of the loops nothing is going on. *)
LEMMA RestsNow ==
  ASSUME NEW S, NEW fl, NEW t \in Nat, Held(Volume, S, fl, t)
  PROVE  Resting(Volume, S, t)
<1> DEFINE v == Volume
<1>1. v = [fat |-> v.fat, disk |-> v.disk, passe |-> v.passe] /\ v.passe = <<>>
  BY DEF Volume
<1>2. Kept(v, S) /\ Cardinality(Damaged(v, S)) <= t
  BY DEF Held
<1> HIDE DEF v
<1>3. v.fat \in Fats /\ IsDisk(v.disk)
  BY <1>2 DEF Kept, Sound
<1>4. IsVolume(v)
  BY <1>1, <1>3, PastGrows DEF IsVolume
<1>5. PastFine(v, t + 1)
  BY <1>1 DEF PastFine
<1> QED
  BY <1>2, <1>4, <1>5 DEF Resting, v

(* Nothing changes but what is not of the files. *)
LEMMA SameSurvives ==
  ASSUME PInv, UNCHANGED <<volume, mode, file, appel, perte, abime, tues>>
  PROVE  PInv'
<1>1. Volume' = Volume
  BY DEF Volume, volume
<1> QED
  BY <1>1 DEF PInv

(* The open file changes, or a loop begins. *)
LEMMA FileHeld ==
  ASSUME tues \in Nat, perte \in BOOLEAN, UNCHANGED <<volume, perte, tues>>, abime' \in BOOLEAN,
         mode' # "marche" => file' = NULL,
         NEW S, Held(Volume, S, file', tues),
         appel' = Idle \/ (mode' = "marche" /\ Looping(Volume, S, file', appel'))
  PROVE  PInv'
<1>1. Volume' = Volume
  BY DEF Volume, volume
<1>2. AsHeld(Volume', mode', file', appel', tues')
  BY <1>1 DEF AsHeld
<1> QED
  BY <1>2 DEF PInv, Survives

(* A call leaves what its outcome holds. *)
LEMMA LeftHeld ==
  ASSUME tues \in Nat, perte \in BOOLEAN, abime' \in BOOLEAN, tues' = tues, mode = "marche",
         NEW r, Leaves(r), r.perdu \in BOOLEAN,
         \/ r.perdu
         \/ \E S : /\ Held(r.vol, S, IF r.panique THEN NULL ELSE r.file, tues)
                   /\ appel' = Idle \/ (~r.panique /\ Looping(r.vol, S, r.file, appel'))
  PROVE  PInv'
<1>1. /\ mode' = IF r.panique THEN "panique" ELSE "marche"
      /\ file' = IF r.panique THEN NULL ELSE r.file
      /\ perte' = (perte \/ r.perdu)
  BY Zenon DEF Leaves
<1>2. Volume'.fat = r.vol.fat /\ Volume'.disk = r.vol.disk
  BY DEF Leaves, Becomes, Volume
<1>3. perte' \in BOOLEAN
  BY <1>1
<1>4. CASE r.perdu
  BY <1>1, <1>3, <1>4 DEF PInv, Survives
<1>5. CASE ~r.perdu
  <2>1. PICK S : /\ Held(r.vol, S, file', tues)
                 /\ appel' = Idle \/ (~r.panique /\ Looping(r.vol, S, r.file, appel'))
    BY <1>1, <1>5
  <2>2. Held(Volume', S, file', tues) /\ (WritesIn(r.vol, S, file') => WritesIn(Volume', S, file'))
    BY <1>2, <2>1, HeldSame
  <2>3. appel' = Idle \/ (mode' = "marche" /\ Looping(Volume', S, file', appel'))
    BY <1>1, <2>1, <2>2 DEF Looping
  <2>4. mode' # "marche" => file' = NULL
    BY <1>1
  <2>5. AsHeld(Volume', mode', file', appel', tues')
    BY <2>2, <2>3, <2>4 DEF AsHeld
  <2> QED
    BY <1>3, <2>5 DEF PInv, Survives
<1> QED
  BY <1>4, <1>5

(* The disk just formatted: nothing is on it. *)
LEMMA PanneInitial == PanneInit => PInv
<1> SUFFICES ASSUME PanneInit PROVE PInv
  OBVIOUS
<1> DEFINE v == Volume
<1>1. /\ mode = "arret" /\ file = NULL /\ appel = Idle /\ perte = FALSE
      /\ tues = 0 /\ abime = FALSE
  BY DEF PanneInit, SgfInit
<1>2. Owned(v) /\ v.fat = create_empty_fat
  BY SgfInitial, VolumeIs DEF PanneInit, SgfInit, Formatted, FormattedVolume, SInv, State
<1>3. Leading(v)
  BY SgfInitial DEF PanneInit, SInv, State
<1>4. InodesOf(v) = {}
  BY <1>2, ValuesTyped DEF InodesOf, create_empty_fat
<1> HIDE DEF v
<1>5. Live(v) = {}
  BY <1>3, <1>4 DEF Leading, Live
<1>6. Sound(v) /\ OneName(v)
  BY <1>2, <1>3 DEF Owned, Leading, OneName
<1> DEFINE S == [i \in Blocs |-> <<>>]
<1>7. Kept(v, S) /\ Damaged(v, S) = {}
  BY <1>5, <1>6 DEF Kept, Cores, Damaged
<1> HIDE DEF S
<1>8. Held(v, S, file, tues)
  BY <1>1, <1>7, FS_EmptySet DEF Held
<1> QED
  BY <1>1, <1>8 DEF PInv, Survives, AsHeld, v

(* A call that ends. *)
LEMMA EndedHeld ==
  ASSUME tues \in Nat, perte \in BOOLEAN, abime' \in BOOLEAN, tues' = tues, mode = "marche",
         NEW r, Leaves(r), Ended(r, tues), appel' = Idle
  PROVE  PInv'
<1>1. r.perdu \in BOOLEAN
  BY DEF Ended
<1>2. r.perdu \/ \E S : Held(r.vol, S, IF r.panique THEN NULL ELSE r.file, tues)
  BY DEF Ended
<1> QED
  BY <1>1, <1>2, LeftHeld

(* A file that is open is read or written. *)
LEMMA OpenIs ==
  ASSUME ~perte, ~abime, PInv
  PROVE  /\ tues \in Nat /\ perte \in BOOLEAN /\ (mode # "marche" => file = NULL)
         /\ \E S : /\ Held(Volume, S, file, tues) /\ Resting(Volume, S, tues)
                   /\ file # NULL => WritesIn(Volume, S, file) \/ ReadsIn(Volume, file)
                   /\ appel = Idle \/ (mode = "marche" /\ Looping(Volume, S, file, appel))
<1>1. tues \in Nat /\ perte \in BOOLEAN /\ AsHeld(Volume, mode, file, appel, tues)
  BY DEF PInv, Survives
<1>2. PICK S : /\ Held(Volume, S, file, tues)
               /\ appel = Idle \/ (mode = "marche" /\ Looping(Volume, S, file, appel))
  BY <1>1 DEF AsHeld
<1>3. Resting(Volume, S, tues)
  BY <1>1, <1>2, RestsNow
<1>4. file # NULL => WritesIn(Volume, S, file) \/ ReadsIn(Volume, file)
  BY <1>2 DEF Held
<1> QED
  BY <1>1, <1>2, <1>3, <1>4 DEF AsHeld

(* init_sgf(). *)
LEMMA MountHeld ==
  ASSUME PInv, ~perte, ~abime, init_sgf, tues' = tues, abime' \in BOOLEAN
  PROVE  PInv'
<1>1. /\ mode # "marche" /\ mode' = "marche" /\ file' = NULL /\ appel' = Idle
      /\ UNCHANGED <<volume, perte>>
  BY DEF init_sgf
<1>2. tues \in Nat /\ perte \in BOOLEAN /\ file = NULL
  BY <1>1, OpenIs
<1>3. PICK S : Held(Volume, S, file, tues)
  BY OpenIs
<1>4. Held(Volume, S, file', tues)
  BY <1>1, <1>2, <1>3
<1> QED
  BY <1>1, <1>2, <1>4, FileHeld

(* What sgf_read_bloc() comes to: a panic, or the block in the buffer, the *)
(* same as before if it is the one of the position.                        *)
LEMMA ReadOutcome ==
  ASSUME NEW v, v.fat \in Fats, NEW fl, NEW n, n \in Int, NEW r, r = sgf_read_bloc(v, fl, n)
  PROVE  \/ r = Panic(v, fl)
         \/ \E a \in Blocs : /\ r = Result(v, Loaded(fl, a, Octets(v.disk[a])))
                             /\ n = BlockAt(fl.ptr) /\ fl.current \in Values => a = fl.current
<1> DEFINE d == BlockAt(fl.ptr)
           a == IF d <= n THEN Walk(v.fat, fl.current, n - d) ELSE Walk(v.fat, fl.first, n)
<1>1. r = IF n < Blocks(fl.length) /\ NU_BLOC_OK(a)
          THEN Result(v, Loaded(fl, a, Octets(v.disk[a]))) ELSE Panic(v, fl)
  BY DEF sgf_read_bloc, Loaded, BlockAt
<1>2. n = d /\ fl.current \in Values => a = fl.current
  <2> SUFFICES ASSUME n = d, fl.current \in Values PROVE a = fl.current
    OBVIOUS
  <2> HIDE DEF d
  <2>1. d <= n /\ n - d = 0
    OBVIOUS
  <2>2. Walk(v.fat, fl.current, 0) = fl.current
    BY WalkUnfolds
  <2> QED
    BY <2>1, <2>2
<1> HIDE DEF a
<1> QED
  BY <1>1, <1>2 DEF NU_BLOC_OK, d

(* A reader reads on, wherever it goes. *)
LEMMA MovedReads ==
  ASSUME NEW v, NEW fl, ReadsIn(v, fl), NEW gl, IsOFile(gl), SameOFile(fl, gl),
         gl.length = fl.length, gl.ptr \in Nat,
         gl.ptr # 0 => gl.current \in Blocs /\ gl.buffer = Octets(v.disk[gl.current])
  PROVE  ReadsIn(v, gl)
BY DEF ReadsIn, SameOFile, Reads

(* A reader's position is set, in the block that is in the buffer or in one *)
(* that is read.                                                            *)
Placed(v, fl, p, r0) ==
  \/ \E n \in Int : r0 = sgf_read_bloc(v, fl, n)
  \/ r0 = Result(v, fl) /\ (p = 0 \/ fl.ptr # 0)

(* The position a call sets leaves the disk and the file as they should be. *)
LEMMA MoveHeld ==
  ASSUME NEW v, NEW S, NEW t, Resting(v, S, t), NEW fl, ReadsIn(v, fl), NEW p \in Nat,
         NEW r0, Placed(v, fl, p, r0), NEW r, r = Moved(r0, p)
  PROVE  Ended(r, t)
<1>1. /\ IsOFile(fl) /\ Kept(v, S) /\ Cardinality(Damaged(v, S)) <= t /\ v.fat \in Fats
      /\ PastFine(v, t + 1)
  BY DEF Resting, ReadsIn, Kept, Sound
<1>2. CASE r0 = Panic(v, fl)
  <2>1. r = Panic(v, At(fl, p))
    BY <1>2, Moves
  <2>2. r.vol = v /\ r.perdu = FALSE /\ r.panique = TRUE
    BY <2>1 DEF Panic, Result
  <2>3. Held(v, S, NULL, t)
    BY <1>1 DEF Held
  <2> QED
    BY <1>1, <2>2, <2>3 DEF Ended
<1>3. ASSUME NEW hl, r0 = Result(v, hl), IsOFile(hl), SameOFile(fl, hl), hl.length = fl.length,
             p # 0 => hl.current \in Blocs /\ hl.buffer = Octets(v.disk[hl.current])
      PROVE  Ended(r, t)
  <2> DEFINE gl == At(hl, p)
  <2>1. r = Result(v, gl)
    BY <1>3, Moves
  <2>3. /\ IsOFile(gl) /\ SameOFile(hl, gl) /\ gl.length = hl.length /\ gl.ptr = p
        /\ gl.current = hl.current /\ gl.buffer = hl.buffer
    BY <1>3, AtSets
  <2> HIDE DEF gl
  <2>4. SameOFile(fl, gl)
    BY <1>3, <2>3 DEF SameOFile
  <2>5. ReadsIn(v, gl)
    BY <1>3, <2>3, <2>4, MovedReads
  <2>6. Held(v, S, gl, t)
    BY <1>1, <2>5 DEF Held
  <2> QED
    BY <1>1, <2>1, <2>6, EndedIs
<1>4. CASE r0 = Result(v, fl) /\ (p = 0 \/ fl.ptr # 0)
  BY <1>1, <1>3, <1>4 DEF ReadsIn, SameOFile
<1>5. ASSUME NEW a \in Blocs, r0 = Result(v, Loaded(fl, a, Octets(v.disk[a])))
      PROVE  Ended(r, t)
  <2> DEFINE hl == Loaded(fl, a, Octets(v.disk[a]))
  <2>1. /\ IsOFile(hl) /\ SameOFile(fl, hl) /\ hl.length = fl.length
        /\ hl.current = a /\ hl.buffer = Octets(v.disk[a])
    BY <1>1, LoadedSets
  <2> HIDE DEF hl
  <2> QED
    BY <1>3, <1>5, <2>1 DEF hl
<1>6. \A n \in Int : r0 = sgf_read_bloc(v, fl, n) =>
        r0 = Panic(v, fl) \/ \E a \in Blocs : r0 = Result(v, Loaded(fl, a, Octets(v.disk[a])))
  BY <1>1, ReadOutcome
<1> QED
  BY <1>2, <1>4, <1>5, <1>6 DEF Placed

(* One further is a position like others. *)
LEMMA StepMoves ==
  ASSUME NEW v, v.fat \in Fats, NEW fl, IsOFile(fl), NEW p, NEW r0, Placed(v, fl, p, r0)
  PROVE  Stepping(r0) = Moved(r0, fl.ptr + 1)
<1>1. ASSUME NEW hl, hl.ptr = fl.ptr, r0 = Result(v, hl) \/ r0 = Panic(v, hl)
      PROVE  Stepping(r0) = Moved(r0, fl.ptr + 1)
  <2>1. Further(hl) = At(hl, fl.ptr + 1)
    BY <1>1, FurtherIs
  <2>2. /\ Stepping(Result(v, hl)) = Result(v, Further(hl))
        /\ Stepping(Panic(v, hl)) = Panic(v, Further(hl))
    BY Stepped, Zenon DEF Stepping
  <2>3. /\ Moved(Result(v, hl), fl.ptr + 1) = Result(v, At(hl, fl.ptr + 1))
        /\ Moved(Panic(v, hl), fl.ptr + 1) = Panic(v, At(hl, fl.ptr + 1))
    BY Moves, Zenon
  <2> QED
    BY <1>1, <2>1, <2>2, <2>3
<1>2. \A a : Loaded(fl, a, Octets(v.disk[a])).ptr = fl.ptr
  BY LoadedSets
<1>3. \/ r0 = Panic(v, fl) \/ r0 = Result(v, fl)
      \/ \E a \in Blocs : r0 = Result(v, Loaded(fl, a, Octets(v.disk[a])))
  BY ReadOutcome DEF Placed
<1> QED
  BY <1>1, <1>2, <1>3

(* The open file of a reader, when it is open and nothing was lost. *)
LEMMA ReaderHeld ==
  ASSUME PInv, ~perte, ~abime, Reading
  PROVE  /\ tues \in Nat /\ perte \in BOOLEAN /\ mode = "marche" /\ appel = Idle
         /\ \E S : /\ Held(Volume, S, file, tues) /\ Resting(Volume, S, tues)
                   /\ ReadsIn(Volume, file)
<1>1. mode = "marche" /\ appel = Idle /\ file # NULL /\ Reads(file)
  BY DEF Reading, Ready, Reads
<1>2. PICK S : /\ Held(Volume, S, file, tues) /\ Resting(Volume, S, tues)
               /\ file # NULL => WritesIn(Volume, S, file) \/ ReadsIn(Volume, file)
  BY OpenIs
<1>3. ReadsIn(Volume, file)
  BY <1>1, <1>2 DEF WritesIn
<1> QED
  BY <1>1, <1>2, <1>3, OpenIs

(* sgf_getc(). *)
LEMMA GetcHeld ==
  ASSUME PInv, ~perte, ~abime, sgf_getc, tues' = tues, abime' \in BOOLEAN
  PROVE  PInv'
<1> DEFINE n == file.ptr \div BLOCK_SIZE
           r0 == IF file.ptr % BLOCK_SIZE = 0 THEN sgf_read_bloc(Volume, file, n)
                 ELSE Result(Volume, file)
<1>1. Reading /\ appel' = appel
  BY DEF sgf_getc
<1>2. tues \in Nat /\ perte \in BOOLEAN /\ mode = "marche" /\ appel = Idle
  BY <1>1, ReaderHeld
<1>3. PICK S : Held(Volume, S, file, tues) /\ Resting(Volume, S, tues) /\ ReadsIn(Volume, file)
  BY <1>1, ReaderHeld
<1>4. CASE file.ptr >= file.length
  <2>1. UNCHANGED <<volume, mode, file, perte>>
    BY <1>4 DEF sgf_getc
  <2>2. Held(Volume, S, file', tues)
    BY <1>3, <2>1
  <2> QED
    BY <1>1, <1>2, <2>1, <2>2, FileHeld
<1>5. CASE ~(file.ptr >= file.length)
  <2>1. Leaves(Stepping(r0))
    BY <1>5, Zenon DEF sgf_getc, Stepping
  <2>2. file.ptr \in Nat /\ IsOFile(file) /\ Volume.fat \in Fats
    BY <1>3 DEF ReadsIn, Held, Kept, Sound
  <2>3. /\ n \in Int /\ file.ptr + 1 \in Nat
        /\ file.ptr % BLOCK_SIZE # 0 => file.ptr # 0
    <3>1. BLOCK_SIZE \in Nat /\ BLOCK_SIZE >= 2
      BY SgfAssumption
    <3>2. n \in Nat
      BY <2>2, BlocksAre
    <3> QED
      BY <2>2, <3>1, <3>2
  <2> DEFINE p == file.ptr + 1
             r == Moved(r0, p)
  <2>4. Placed(Volume, file, p, r0)
    BY <2>3 DEF Placed
  <2> HIDE DEF r0, n
  <2>5. Stepping(r0) = r
    BY <2>2, <2>4, StepMoves
  <2>6. p \in Nat
    BY <2>3
  <2> HIDE DEF p
  <2>7. Ended(r, tues)
    BY <1>3, <2>4, <2>6, MoveHeld
  <2> HIDE DEF r
  <2> QED
    BY <1>1, <1>2, <2>1, <2>5, <2>7, EndedHeld
<1> QED
  BY <1>4, <1>5

(* sgf_seek(). *)
LEMMA SeekHeld ==
  ASSUME PInv, ~perte, ~abime, Reading, NEW pos \in -1 .. file.length, sgf_seek(pos),
         tues' = tues, abime' \in BOOLEAN
  PROVE  PInv'
<1> DEFINE n == SeekBlock(pos)
           r0 == IF n # LastBlock(file.ptr) THEN sgf_read_bloc(Volume, file, n)
                 ELSE Result(Volume, file)
<1>1. appel' = appel
  BY DEF sgf_seek
<1>2. tues \in Nat /\ perte \in BOOLEAN /\ mode = "marche" /\ appel = Idle
  BY ReaderHeld
<1>3. PICK S : Held(Volume, S, file, tues) /\ Resting(Volume, S, tues) /\ ReadsIn(Volume, file)
  BY ReaderHeld
<1>4. CASE pos < 0 \/ pos >= file.length
  <2>1. UNCHANGED <<volume, mode, file, perte>>
    BY <1>4 DEF sgf_seek, SeekRefused
  <2>2. Held(Volume, S, file', tues)
    BY <1>3, <2>1
  <2> QED
    BY <1>1, <1>2, <2>1, <2>2, FileHeld
<1>5. CASE ~(pos < 0 \/ pos >= file.length)
  <2>1. Leaves(Moved(r0, pos))
    BY <1>5, Zenon DEF sgf_seek, Moved
  <2>2. file.ptr \in Nat /\ pos \in Nat
    <3>1. file.ptr \in Nat
      BY <1>3 DEF ReadsIn
    <3>2. pos \in Int /\ pos >= 0
      BY <1>5
    <3> QED
      BY <3>1, <3>2
  <2>3. n \in Nat /\ (n = LastBlock(file.ptr) => file.ptr # 0)
    <3>1. BlockAt(pos) \in Nat /\ SeekBlock(pos) = BlockAt(pos)
      BY <2>2, LastBlocks
    <3>2. file.ptr = 0 => LastBlock(file.ptr) = -1
      BY <2>2, LastBlocks
    <3> QED
      BY <3>1, <3>2
  <2> DEFINE r == Moved(r0, pos)
  <2>4. Placed(Volume, file, pos, r0)
    BY <2>3 DEF Placed
  <2> HIDE DEF r0, n
  <2>5. Ended(r, tues)
    BY <1>3, <2>2, <2>4, MoveHeld
  <2> HIDE DEF r
  <2>6. Leaves(r)
    BY <2>1 DEF r
  <2> QED
    BY <1>1, <1>2, <2>5, <2>6, EndedHeld
<1> QED
  BY <1>4, <1>5

(* The calls that open a file find none open, and nothing going on. *)
LEMMA ClosedHeld ==
  ASSUME PInv, ~perte, ~abime, Closed
  PROVE  /\ tues \in Nat /\ perte \in BOOLEAN /\ mode = "marche" /\ appel = Idle /\ file = NULL
         /\ \E S : Held(Volume, S, file, tues) /\ Resting(Volume, S, tues)
BY OpenIs DEF Closed, Ready

(* A name that is opened to be written leads to no damaged file: the       *)
(* behaviours in which it does end there.                                  *)
LEMMA NotDamaged ==
  ASSUME PInv, ~perte, ~abime, NEW S, Held(Volume, S, file, tues), NEW nom \in NOMS,
         sgf_open_append(nom) \/ sgf_open_write(nom), ~Reopens
  PROVE  find_inode(Volume, nom) \notin Damaged(Volume, S)
<1>1. tues \in Nat
  BY OpenIs
<1>2. /\ \A n \in NOMS : find_inode(Volume, n) \in Damaged(Volume, S) => n \in Abimes
      /\ tues = 0 => Damaged(Volume, S) = {}
  BY <1>1, HeldHarmless
<1>3. tues = 0 \/ nom \notin Abimes
  <2>1. tues > 0 => nom \notin Abimes
    BY Zenon DEF Reopens
  <2> QED
    BY <1>1, <2>1
<1> QED
  BY <1>2, <1>3

(* sgf_open() to read. *)
LEMMA OpenReadHeld ==
  ASSUME PInv, ~perte, ~abime, NEW nom \in NOMS, sgf_open_read(nom), tues' = tues,
         abime' \in BOOLEAN
  PROVE  PInv'
<1> DEFINE v == Volume
           i == find_inode(v, nom)
           fl == OFile(i, v.disk[i], v.disk[i].first, 0, READ_MODE)
<1>1. /\ Closed /\ i >= 0 /\ file' = fl /\ UNCHANGED <<volume, mode, appel, perte>>
  BY VolumeIs DEF sgf_open_read
<1>2. tues \in Nat /\ perte \in BOOLEAN /\ mode = "marche" /\ appel = Idle
  BY <1>1, ClosedHeld
<1>3. PICK S : Held(v, S, file, tues)
  BY <1>1, ClosedHeld
<1>4. i \in Live(v)
  BY <1>1 DEF Live
<1>5. ReadsIn(v, fl)
  <2>1. /\ IsOFile(fl) /\ fl.mode = READ_MODE /\ fl.inode = i /\ fl.ptr = 0
        /\ fl.length = v.disk[i].length
    BY DEF OFile, IsOFile
  <2> HIDE DEF fl, i, v
  <2> QED
    BY <1>4, <2>1 DEF ReadsIn, Reads
<1> HIDE DEF fl, i
<1>6. Held(v, S, fl, tues)
  BY <1>3, <1>5 DEF Held
<1> HIDE DEF v
<1>7. Held(v, S, file', tues)
  BY <1>1, <1>6
<1> QED
  BY <1>1, <1>2, <1>7, FileHeld DEF v

(* A block read for a file that is being written leaves it as it was. *)
LEMMA LoadedEnds ==
  ASSUME NEW v, NEW S, NEW t, Resting(v, S, t), NEW fl, IsOFile(fl), ~Reads(fl), WritesIn(v, S, fl),
         NEW c, NEW r, r = Result(v, Loaded(fl, fl.current, c))
  PROVE  Ended(r, t)
<1> DEFINE gl == Loaded(fl, fl.current, c)
<1>1. /\ IsOFile(gl) /\ SameOFile(fl, gl) /\ gl.length = fl.length /\ gl.ptr = fl.ptr
      /\ gl.current = fl.current /\ gl.last = fl.last
  BY LoadedSets
<1>2. r = Result(v, gl)
  OBVIOUS
<1> HIDE DEF gl
<1>3. WritesIn(v, S, gl)
  BY <1>1 DEF WritesIn, SameOFile, Reads
<1>4. Held(v, S, gl, t) /\ PastFine(v, t + 1)
  BY <1>3 DEF Held, Resting
<1> QED
  BY <1>2, <1>4, EndedIs

(* sgf_open() to append: the last block is read if it is not full. *)
LEMMA AppendOpens ==
  ASSUME NEW v, NEW S, NEW t, Resting(v, S, t), NEW i \in Live(v), i \notin Damaged(v, S),
         NEW fl, fl = OFile(i, v.disk[i], v.disk[i].last, v.disk[i].length, APPEND_MODE),
         NEW r, r = IF fl.length % BLOCK_SIZE # 0
                    THEN sgf_read_bloc(v, fl, fl.ptr \div BLOCK_SIZE) ELSE Result(v, fl)
  PROVE  Ended(r, t)
<1> DEFINE n == fl.ptr \div BLOCK_SIZE
<1>1. /\ Kept(v, S) /\ Cardinality(Damaged(v, S)) <= t /\ v.fat \in Fats
      /\ PastFine(v, t + 1) /\ Prefix(v, i, S[i])
  BY DEF Resting, Kept, Cores, Sound
<1>2. /\ v.disk[i].length \in 0 .. MAX_LENGTH /\ v.disk[i].length \in Nat
      /\ v.disk[i].last \in Values
  BY <1>1, PrefixFacts, ValuesTyped
<1>3. /\ IsOFile(fl) /\ ~Reads(fl) /\ fl.inode = i /\ fl.ptr = v.disk[i].length
      /\ fl.length = v.disk[i].length /\ fl.last = v.disk[i].last /\ fl.current = v.disk[i].last
  BY DEF OFile, IsOFile, Reads, READ_MODE, APPEND_MODE
<1>4. WritesIn(v, S, fl)
  BY <1>2, <1>3 DEF WritesIn, Size
<1>5. CASE fl.length % BLOCK_SIZE = 0
  <2>1. r = Result(v, fl)
    BY <1>5
  <2>2. Held(v, S, fl, t)
    BY <1>1, <1>4 DEF Held
  <2> QED
    BY <1>1, <2>1, <2>2, EndedIs
<1>6. CASE fl.length % BLOCK_SIZE # 0
  <2>1. r = sgf_read_bloc(v, fl, n)
    BY <1>6
  <2>2. n = BlockAt(fl.ptr) /\ n \in Int
    <3>1. fl.ptr \in Nat /\ fl.ptr % BLOCK_SIZE # 0
      BY <1>2, <1>3, <1>6
    <3> QED
      BY <3>1, LastBlocks
  <2> HIDE DEF n
  <2>3. CASE r = Panic(v, fl)
    BY <2>3, PanicEnds
  <2>4. ASSUME NEW c, r = Result(v, Loaded(fl, fl.current, c)) PROVE Ended(r, t)
    BY <1>3, <1>4, <2>4, LoadedEnds
  <2>5. \/ r = Panic(v, fl)
        \/ \E a \in Blocs : r = Result(v, Loaded(fl, a, Octets(v.disk[a]))) /\ a = fl.current
    BY <1>1, <1>2, <1>3, <2>1, <2>2, ReadOutcome
  <2> QED
    BY <2>3, <2>4, <2>5, Zenon
<1> QED
  BY <1>5, <1>6

(* sgf_open() to append. *)
LEMMA OpenAppendHeld ==
  ASSUME PInv, ~perte, ~abime, NEW nom \in NOMS, sgf_open_append(nom), tues' = tues,
         abime' = Reopens, abime' \in BOOLEAN
  PROVE  PInv'
<1> DEFINE v == Volume
           i == find_inode(v, nom)
           fl == OFile(i, v.disk[i], v.disk[i].last, v.disk[i].length, APPEND_MODE)
           r == IF fl.length % BLOCK_SIZE # 0
                THEN sgf_read_bloc(v, fl, fl.ptr \div BLOCK_SIZE) ELSE Result(v, fl)
<1>1. Closed /\ i >= 0 /\ Leaves(r) /\ appel' = appel
  BY VolumeIs, Zenon DEF sgf_open_append
<1>2. tues \in Nat /\ perte \in BOOLEAN /\ mode = "marche" /\ appel = Idle
  BY <1>1, ClosedHeld
<1>3. PICK S : Held(v, S, file, tues) /\ Resting(v, S, tues)
  BY <1>1, ClosedHeld
<1>4. i \in Live(v)
  BY <1>1 DEF Live
<1>5. CASE abime' = TRUE
  <2>1. perte' \in BOOLEAN
    BY <1>1, Zenon DEF Leaves
  <2> QED
    BY <1>2, <1>5, <2>1 DEF PInv, Survives
<1>6. CASE abime' = FALSE
  <2>1. i \notin Damaged(v, S)
    <3>1. ~Reopens
      BY <1>6
    <3> QED
      BY <1>3, <3>1, NotDamaged
  <2> HIDE DEF v, i
  <2>2. Ended(r, tues)
    BY <1>3, <1>4, <2>1, AppendOpens
  <2> HIDE DEF r
  <2> QED
    BY <1>1, <1>2, <2>2, EndedHeld
<1> QED
  BY <1>5, <1>6

(* sgf_open() to write. *)
LEMMA OpenWriteHeld ==
  ASSUME PInv, ~perte, ~abime, NEW nom \in NOMS, sgf_open_write(nom), tues' = tues,
         abime' = Reopens, abime' \in BOOLEAN
  PROVE  PInv'
<1> DEFINE v == Volume
           r == NewFile(v, nom)
<1>1. Closed /\ Free(v.fat) # {} /\ Leaves(r) /\ appel' = appel
  BY VolumeIs, Zenon DEF sgf_open_write
<1>2. tues \in Nat /\ perte \in BOOLEAN /\ mode = "marche" /\ appel = Idle
  BY <1>1, ClosedHeld
<1>3. PICK S : Held(v, S, file, tues) /\ Resting(v, S, tues)
  BY <1>1, ClosedHeld
<1>4. CASE abime' = TRUE
  <2>1. perte' \in BOOLEAN
    BY <1>1, Zenon DEF Leaves
  <2> QED
    BY <1>2, <1>4, <2>1 DEF PInv, Survives
<1>5. CASE abime' = FALSE
  <2>1. find_inode(v, nom) \notin Damaged(v, S)
    <3>1. ~Reopens
      BY <1>5
    <3> QED
      BY <1>3, <3>1, NotDamaged
  <2> HIDE DEF v
  <2>2. Ended(r, tues)
    BY <1>1, <1>3, <2>1, NewFileKept
  <2> HIDE DEF r
  <2> QED
    BY <1>1, <1>2, <2>2, EndedHeld
<1> QED
  BY <1>4, <1>5

(* sgf_open() to write, on a disk that is full. *)
LEMMA OpenFullHeld ==
  ASSUME PInv, ~perte, ~abime, sgf_open_write_full, tues' = tues, abime' \in BOOLEAN
  PROVE  PInv'
<1>1. Closed /\ UNCHANGED <<volume, file, appel, perte>>
  BY DEF sgf_open_write_full
<1>2. tues \in Nat /\ perte \in BOOLEAN /\ appel = Idle /\ file = NULL
  BY <1>1, ClosedHeld
<1>3. PICK S : Held(Volume, S, file, tues)
  BY <1>1, ClosedHeld
<1>4. Held(Volume, S, file', tues) /\ appel' = Idle /\ file' = NULL
  BY <1>1, <1>2, <1>3
<1> QED
  BY <1>1, <1>2, <1>4, FileHeld

(* A call that the mode of the file forbids: nothing is written, and the   *)
(* file rests as it is or something was lost.                              *)
LEMMA WrongModeHeld ==
  ASSUME PInv, ~perte, ~abime, WrongMode, tues' = tues, abime' \in BOOLEAN
  PROVE  PInv'
<1>1. /\ appel = Idle /\ file' = NULL /\ UNCHANGED <<volume, appel>>
      /\ perte' = (perte \/ (Writing /\ file.ptr % BLOCK_SIZE # 0))
  BY DEF WrongMode, Ready
<1>2. PICK S : Held(Volume, S, file, tues)
  BY OpenIs
<1>3. tues \in Nat /\ perte \in BOOLEAN /\ perte' \in BOOLEAN
  BY <1>1, OpenIs, Zenon
<1>4. CASE perte'
  BY <1>3, <1>4 DEF PInv, Survives
<1>5. CASE ~perte'
  <2>1. perte' = perte
    BY <1>3, <1>5
  <2>2. Held(Volume, S, file', tues)
    BY <1>1, <1>2 DEF Held
  <2> QED
    BY <1>1, <1>3, <2>1, <2>2, FileHeld
<1> QED
  BY <1>4, <1>5

(* The call of sgf_puts() or sgf_write(). *)
LEMMA BeginHeld ==
  ASSUME PInv, ~perte, ~abime, NEW op \in {"puts", "write"}, NEW t \in TEXTES, Begin(op, t),
         tues' = tues, abime' \in BOOLEAN
  PROVE  PInv'
<1>1. /\ mode = "marche" /\ file # NULL /\ file.mode # READ_MODE
      /\ file.length + Len(t) <= MAX_LENGTH /\ appel' = [op |-> op, reste |-> t]
      /\ UNCHANGED <<volume, mode, perte>> /\ file' = file
  BY DEF Begin, Writing, Ready
<1>2. t \in Seq(CHARS) \ {<<>>}
  BY SgfAssumption
<1>3. PICK S : /\ Held(Volume, S, file, tues)
               /\ file # NULL => WritesIn(Volume, S, file) \/ ReadsIn(Volume, file)
  BY OpenIs
<1>4. tues \in Nat /\ perte \in BOOLEAN
  BY OpenIs
<1>5. WritesIn(Volume, S, file)
  BY <1>1, <1>3 DEF ReadsIn, Reads
<1>6. /\ appel' \in [op : {"puts", "write"}, reste : Seq(CHARS) \ {<<>>}] /\ appel'.reste = t
  BY <1>1, <1>2
<1>7. Looping(Volume, S, file', appel')
  BY <1>1, <1>5, <1>6 DEF Looping
<1>8. Held(Volume, S, file', tues) /\ mode' = "marche"
  BY <1>1, <1>3
<1> QED
  BY <1>1, <1>4, <1>7, <1>8, FileHeld

(* In such a loop, when nothing was lost. *)
LEMMA LoopHeld ==
  ASSUME PInv, ~perte, ~abime, appel.op # "rien"
  PROVE  /\ tues \in Nat /\ perte \in BOOLEAN /\ mode = "marche"
         /\ \E S : Resting(Volume, S, tues) /\ Looping(Volume, S, file, appel)
<1>1. PICK S : /\ Resting(Volume, S, tues)
               /\ appel = Idle \/ (mode = "marche" /\ Looping(Volume, S, file, appel))
  BY OpenIs
<1>2. appel # Idle
  BY DEF Idle
<1> QED
  BY <1>1, <1>2, OpenIs

(* What is left of the text when n characters are written. *)
LEMMA ShorterIs ==
  ASSUME NEW ap, ap \in [op : {"puts", "write"}, reste : Seq(CHARS) \ {<<>>}],
         NEW n \in 1 .. Len(ap.reste), n # Len(ap.reste)
  PROVE  /\ Shorter(ap, n) \in [op : {"puts", "write"}, reste : Seq(CHARS) \ {<<>>}]
         /\ Len(Shorter(ap, n).reste) = Len(ap.reste) - n
<1> DEFINE t == ap.reste
           s == SubSeq(t, n + 1, Len(t))
<1>1. t \in Seq(CHARS) /\ Len(t) \in Nat /\ n \in Nat /\ n + 1 \in 1 .. Len(t)
  OBVIOUS
<1>2. s \in Seq(CHARS) /\ Len(s) = Len(t) - n
  BY <1>1
<1>3. s # <<>>
  <2> HIDE DEF s
  <2>1. Len(s) # 0
    BY <1>1, <1>2
  <2>2. Len(<<>>) = 0
    OBVIOUS
  <2> QED
    BY <2>1, <2>2, Zenon
<1>4. Shorter(ap, n) = [ap EXCEPT !.reste = s]
  BY DEF Shorter
<1> HIDE DEF s
<1> QED
  BY <1>2, <1>3, <1>4

(* A turn of such a loop. *)
LEMMA AdvanceHeld ==
  ASSUME PInv, ~perte, ~abime, appel.op # "rien", tues' = tues, abime' \in BOOLEAN,
         NEW n \in 1 .. Len(appel.reste), NEW L, L = file.length + n,
         NEW r, Continued(r, tues, L), Advance(r, n)
  PROVE  PInv'
<1>1. /\ Leaves(r)
      /\ appel' = IF r.panique \/ n = Len(appel.reste) THEN Idle ELSE Shorter(appel, n)
  BY Zenon DEF Advance, Shorter
<1>2. tues \in Nat /\ perte \in BOOLEAN /\ mode = "marche"
  BY LoopHeld
<1>3. /\ appel \in [op : {"puts", "write"}, reste : Seq(CHARS) \ {<<>>}]
      /\ file.length + Len(appel.reste) <= MAX_LENGTH /\ file.length \in Nat
  BY LoopHeld, SgfAssumption DEF Looping, WritesIn
<1>4. r.perdu \in BOOLEAN
  BY DEF Continued
<1>5. CASE r.perdu
  BY <1>1, <1>2, <1>4, <1>5, LeftHeld
<1>6. CASE ~r.perdu
  <2>1. PICK S : /\ Kept(r.vol, S) /\ Cardinality(Damaged(r.vol, S)) <= tues
                 /\ WritesIn(r.vol, S, r.file) /\ r.file.length = L /\ r.panique = FALSE
    BY <1>6 DEF Continued
  <2>2. Held(r.vol, S, r.file, tues)
    BY <2>1 DEF Held
  <2>3. CASE n = Len(appel.reste)
    <3>1. appel' = Idle
      BY <1>1, <2>3
    <3> QED
      BY <1>1, <1>2, <1>4, <2>1, <2>2, <3>1, LeftHeld
  <2>4. CASE n # Len(appel.reste)
    <3> DEFINE ap == Shorter(appel, n)
    <3>1. appel' = ap
      BY <1>1, <2>1, <2>4
    <3>2. /\ ap \in [op : {"puts", "write"}, reste : Seq(CHARS) \ {<<>>}]
          /\ Len(ap.reste) = Len(appel.reste) - n
      BY <1>3, <2>4, ShorterIs
    <3> HIDE DEF ap
    <3>3. r.file.length + Len(ap.reste) <= MAX_LENGTH
      <4>1. Len(appel.reste) \in Nat /\ n \in Nat
        BY <1>3
      <4> QED
        BY <1>3, <2>1, <3>2, <4>1, SgfAssumption
    <3>4. Looping(r.vol, S, r.file, ap)
      BY <2>1, <3>2, <3>3 DEF Looping
    <3> QED
      BY <1>1, <1>2, <1>4, <2>1, <2>2, <3>1, <3>4, LeftHeld
  <2> QED
    BY <2>3, <2>4
<1> QED
  BY <1>4, <1>5, <1>6

(* One character of a text, or the part that fits in the block. *)
LEMMA LoopFits ==
  ASSUME NEW v, NEW S, NEW fl, NEW ap, Looping(v, S, fl, ap)
  PROVE  /\ fl.length + 1 <= MAX_LENGTH /\ 1 \in 1 .. Len(ap.reste)
         /\ LET s == Chunk(fl, ap.reste) IN Fits(fl, s) /\ Len(s) \in 1 .. Len(ap.reste)
<1> DEFINE t == ap.reste
           s == Chunk(fl, t)
<1>1. /\ t \in Seq(CHARS) /\ Len(t) \in Nat \ {0}
      /\ fl.length + Len(t) <= MAX_LENGTH /\ fl.length \in Nat /\ fl.ptr \in Nat
  BY SgfAssumption DEF Looping, WritesIn
<1>2. /\ s \in Seq(CHARS) /\ Len(s) \in 1 .. Len(t)
      /\ Len(s) \in 1 .. BLOCK_SIZE - (fl.ptr % BLOCK_SIZE)
  BY <1>1, ChunkIs
<1> HIDE DEF s
<1>3. fl.length + Len(s) <= MAX_LENGTH /\ fl.length + 1 <= MAX_LENGTH /\ 1 \in 1 .. Len(t)
  BY <1>1, <1>2, SgfAssumption
<1> QED
  BY <1>2, <1>3 DEF Fits, s

(* A turn of sgf_puts(). *)
LEMMA PutsHeld ==
  ASSUME PInv, ~perte, ~abime, sgf_puts, tues' = tues, abime' \in BOOLEAN
  PROVE  PInv'
<1> DEFINE r == sgf_putc(Volume, file, Head(appel.reste))
           L == file.length + 1
<1>1. appel.op # "rien" /\ Advance(r, 1)
  BY DEF sgf_puts
<1>2. PICK S : Resting(Volume, S, tues) /\ Looping(Volume, S, file, appel)
  BY <1>1, LoopHeld
<1>3. L <= MAX_LENGTH /\ 1 \in 1 .. Len(appel.reste) /\ WritesIn(Volume, S, file)
  BY <1>2, LoopFits DEF Looping
<1>4. Continued(r, tues, L)
  BY <1>2, <1>3, PutcKept
<1> HIDE DEF r
<1> QED
  BY <1>1, <1>3, <1>4, AdvanceHeld

(* A turn of sgf_write(). *)
LEMMA WriteHeld ==
  ASSUME PInv, ~perte, ~abime, sgf_write, tues' = tues, abime' \in BOOLEAN
  PROVE  PInv'
<1> DEFINE s == Chunk(file, appel.reste)
           r == WriteChunk(Volume, file, s)
           L == file.length + Len(s)
<1>1. appel.op # "rien" /\ Advance(r, Len(s))
  BY DEF sgf_write
<1>2. PICK S : Resting(Volume, S, tues) /\ Looping(Volume, S, file, appel)
  BY <1>1, LoopHeld
<1>3. Fits(file, s) /\ Len(s) \in 1 .. Len(appel.reste) /\ WritesIn(Volume, S, file)
  BY <1>2, LoopFits DEF Looping
<1> HIDE DEF s
<1>4. Continued(r, tues, L)
  BY <1>2, <1>3, ChunkKept
<1> HIDE DEF r
<1> QED
  BY <1>1, <1>3, <1>4, AdvanceHeld

(* sgf_close(). *)
LEMMA CloseHeld ==
  ASSUME PInv, ~perte, ~abime, sgf_close, tues' = tues, abime' \in BOOLEAN
  PROVE  PInv'
<1> DEFINE r == CloseFile(Volume, file)
<1>1. mode = "marche" /\ appel = Idle /\ file # NULL /\ Leaves(r) /\ appel' = appel
  BY DEF sgf_close, Ready
<1>2. PICK S : /\ Resting(Volume, S, tues)
               /\ file # NULL => WritesIn(Volume, S, file) \/ ReadsIn(Volume, file)
  BY OpenIs
<1>3. Ended(r, tues)
  BY <1>1, <1>2, CloseKept
<1>4. tues \in Nat /\ perte \in BOOLEAN
  BY OpenIs
<1> HIDE DEF r
<1> QED
  BY <1>1, <1>3, <1>4, EndedHeld

(* What the calls are in which the program may be killed. *)
LEMMA InCallIs ==
  ASSUME mode = "marche", NEW r \in InCall, appel = Idle \/ appel.op \in {"puts", "write"}
  PROVE  \/ appel.op = "puts" /\ r = sgf_putc(Volume, file, Head(appel.reste))
         \/ appel.op = "write" /\ r = WriteChunk(Volume, file, Chunk(file, appel.reste))
         \/ file # NULL /\ r = CloseFile(Volume, file)
         \/ Closed /\ Free(fat) # {} /\ \E nom \in NOMS : r = NewFile(Volume, nom)
<1>1. Idle.op = "rien"
  BY DEF Idle
<1>2. CASE appel.op = "puts"
  <2>1. appel.op # "write" /\ ~Ready /\ ~Closed
    BY <1>1, <1>2 DEF Ready, Closed
  <2>2. InCall = {sgf_putc(Volume, file, Head(appel.reste))}
    BY <1>2, <2>1 DEF InCall
  <2> QED
    BY <1>2, <2>2
<1>3. CASE appel.op = "write"
  <2>1. appel.op # "puts" /\ ~Ready /\ ~Closed
    BY <1>1, <1>3 DEF Ready, Closed
  <2>2. InCall = {WriteChunk(Volume, file, Chunk(file, appel.reste))}
    BY <1>3, <2>1 DEF InCall
  <2> QED
    BY <1>3, <2>2
<1>4. CASE appel = Idle
  <2>1. appel.op # "puts" /\ appel.op # "write" /\ Ready
    BY <1>1, <1>4 DEF Ready
  <2>2. CASE file # NULL
    <3>1. ~Closed
      BY <2>2 DEF Closed
    <3>2. InCall = {CloseFile(Volume, file)}
      BY <2>1, <2>2, <3>1 DEF InCall
    <3> QED
      BY <2>2, <3>2
  <2>3. CASE file = NULL
    <3>1. Closed
      BY <2>1, <2>3 DEF Closed
    <3>2. InCall = IF Free(fat) = {} THEN {} ELSE {NewFile(Volume, nom) : nom \in NOMS}
      BY <2>1, <2>3, <3>1 DEF InCall
    <3> QED
      BY <3>1, <3>2
  <2> QED
    BY <2>2, <2>3
<1> QED
  BY <1>2, <1>3, <1>4

(* Whatever it has left behind in the call, one file more is damaged at    *)
(* most, if nothing was lost and no damaged file is overwritten.           *)
LEMMA CallFine ==
  ASSUME PInv, ~perte, ~abime, mode = "marche", NEW r \in InCall, ~r.perdu, ~Overwrites(r)
  PROVE  PastFine(r.vol, tues + 1)
<1> DEFINE v == Volume
           t == tues
<1>1. t \in Nat
  BY OpenIs
<1>2. PICK S : /\ Held(v, S, file, t) /\ Resting(v, S, t)
               /\ file # NULL => WritesIn(v, S, file) \/ ReadsIn(v, file)
               /\ appel = Idle \/ Looping(v, S, file, appel)
  BY OpenIs
<1>3. appel = Idle \/ appel.op \in {"puts", "write"}
  BY <1>2 DEF Looping
<1>4. \/ appel.op = "puts" /\ r = sgf_putc(v, file, Head(appel.reste))
      \/ appel.op = "write" /\ r = WriteChunk(v, file, Chunk(file, appel.reste))
      \/ file # NULL /\ r = CloseFile(v, file)
      \/ Closed /\ Free(v.fat) # {} /\ \E nom \in NOMS : r = NewFile(v, nom)
  BY <1>3, InCallIs, VolumeIs
<1>5. appel.op \in {"puts", "write"} => Looping(v, S, file, appel)
  BY <1>2 DEF Idle
<1>6. \A nom \in NOMS : find_inode(v, nom) \in Damaged(v, S) => nom \in Abimes
  BY <1>1, <1>2, HeldHarmless
<1>7. \A nom \in NOMS : Closed /\ r = NewFile(v, nom) => nom \notin Abimes
  BY DEF Overwrites
<1> HIDE DEF v, t
<1>8. CASE appel.op = "puts" /\ r = sgf_putc(v, file, Head(appel.reste))
  <2>1. WritesIn(v, S, file) /\ file.length + 1 <= MAX_LENGTH
    BY <1>5, <1>8, LoopFits DEF Looping
  <2>2. Continued(r, t, file.length + 1)
    BY <1>2, <1>8, <2>1, PutcKept
  <2> QED
    BY <2>2 DEF Continued, t
<1>9. CASE appel.op = "write" /\ r = WriteChunk(v, file, Chunk(file, appel.reste))
  <2> DEFINE s == Chunk(file, appel.reste)
  <2>1. WritesIn(v, S, file) /\ Fits(file, s)
    BY <1>5, <1>9, LoopFits DEF Looping
  <2> HIDE DEF s
  <2>2. r = WriteChunk(v, file, s)
    BY <1>9 DEF s
  <2>3. Continued(r, t, file.length + Len(s))
    BY <1>2, <2>1, <2>2, ChunkKept
  <2> QED
    BY <2>3 DEF Continued, t
<1>10. CASE file # NULL /\ r = CloseFile(v, file)
  <2>1. Ended(r, t)
    BY <1>2, <1>10, CloseKept
  <2> QED
    BY <2>1 DEF Ended, t
<1>11. ASSUME Closed, Free(v.fat) # {}, NEW nom \in NOMS, r = NewFile(v, nom)
       PROVE  PastFine(r.vol, tues + 1)
  <2>1. find_inode(v, nom) \notin Damaged(v, S)
    BY <1>6, <1>7, <1>11
  <2>2. Ended(r, t)
    BY <1>2, <1>11, <2>1, NewFileKept
  <2> QED
    BY <2>2 DEF Ended, t
<1> QED
  BY <1>4, <1>8, <1>9, <1>10, <1>11

(* A program is killed. *)
LEMMA KillHeld == PInv /\ Kill => PInv'
<1> SUFFICES ASSUME PInv, Kill PROVE PInv'
  OBVIOUS
<1>1. /\ mode = "marche" /\ tues' = tues + 1 /\ mode' = "arret" /\ file' = NULL /\ appel' = Idle
      /\ \/ UNCHANGED <<volume, perte, abime>>
         \/ \E r \in InCall : \E k \in DOMAIN r.vol.passe :
              /\ Becomes(Forgotten(r.vol.passe[k]))
              /\ perte' = (perte \/ r.perdu) /\ abime' = (abime \/ Overwrites(r))
  BY DEF Kill, Killed
<1>2. tues \in Nat /\ perte \in BOOLEAN /\ abime \in BOOLEAN
  BY DEF PInv, Survives
<1>3. tues' \in Nat /\ perte' \in BOOLEAN /\ abime' \in BOOLEAN
  <2>1. \A r : (perte \/ r.perdu) \in BOOLEAN /\ (abime \/ Overwrites(r)) \in BOOLEAN
    BY Zenon
  <2>2. tues' \in Nat
    BY <1>1, <1>2
  <2>3. CASE UNCHANGED <<volume, perte, abime>>
    BY <1>2, <2>2, <2>3
  <2>4. CASE \E r : perte' = (perte \/ r.perdu) /\ abime' = (abime \/ Overwrites(r))
    BY <2>1, <2>2, <2>4, Zenon
  <2> QED
    BY <1>1, <2>3, <2>4, Zenon
<1>4. CASE perte \/ abime
  <2>1. CASE UNCHANGED <<volume, perte, abime>>
    BY <1>3, <1>4, <2>1 DEF PInv, Survives
  <2>2. CASE \E r : perte' = (perte \/ r.perdu) /\ abime' = (abime \/ Overwrites(r))
    <3>1. perte' \/ abime'
      BY <1>4, <2>2, Zenon
    <3> QED
      BY <1>3, <3>1 DEF PInv, Survives
  <2> QED
    BY <1>1, <2>1, <2>2, Zenon
<1>5. ASSUME ~perte, ~abime, NEW S, Held(Volume', S, NULL, tues') PROVE PInv'
  <2>1. AsHeld(Volume', mode', file', appel', tues')
    BY <1>1, <1>5 DEF AsHeld
  <2> QED
    BY <1>3, <2>1 DEF PInv, Survives
<1>6. ASSUME ~perte, ~abime, UNCHANGED <<volume, perte, abime>> PROVE PInv'
  <2>1. PICK S : Held(Volume, S, file, tues)
    BY <1>6, OpenIs
  <2>2. Kept(Volume, S) /\ Cardinality(Damaged(Volume, S)) <= tues
    BY <2>1 DEF Held
  <2>3. Cardinality(Damaged(Volume, S)) \in Nat
    BY <1>2, <2>2, FewDamaged
  <2>4. Cardinality(Damaged(Volume, S)) <= tues'
    BY <1>1, <1>2, <2>2, <2>3
  <2>5. Volume' = Volume
    BY <1>6 DEF Volume, volume
  <2>6. Held(Volume', S, NULL, tues')
    BY <2>2, <2>4, <2>5 DEF Held
  <2> QED
    BY <1>5, <1>6, <2>6
<1>7. ASSUME ~perte, ~abime, NEW r \in InCall, NEW k \in DOMAIN r.vol.passe,
             Becomes(Forgotten(r.vol.passe[k])),
             perte' = (perte \/ r.perdu), abime' = (abime \/ Overwrites(r))
      PROVE  PInv'
  <2>1. CASE r.perdu \/ Overwrites(r)
    <3>1. perte' \/ abime'
      BY <1>7, <2>1
    <3> QED
      BY <1>3, <3>1 DEF PInv, Survives
  <2>2. CASE ~(r.perdu \/ Overwrites(r))
    <3>1. PastFine(r.vol, tues')
      BY <1>1, <1>7, <2>2, CallFine
    <3> DEFINE x == r.vol.passe[k]
    <3>2. Fine(x, tues') /\ x = OnDisk(x)
      BY <1>7, <3>1 DEF PastFine
    <3>3. Volume'.fat = Forgotten(x).fat /\ Volume'.disk = Forgotten(x).disk
      BY <1>7 DEF Becomes, Volume
    <3> HIDE DEF x
    <3>4. Fine(Volume', tues')
      BY <3>2, <3>3, ForgottenFine
    <3>5. PICK S : Held(Volume', S, NULL, tues')
      BY <3>4 DEF Fine, Held
    <3> QED
      BY <1>5, <1>7, <3>5
  <2> QED
    BY <2>1, <2>2
<1> QED
  BY <1>1, <1>4, <1>6, <1>7

(* Any step. *)
LEMMA PanneStep == PInv /\ [PanneNext]_panne => PInv'
<1> SUFFICES ASSUME PInv, [PanneNext]_panne PROVE PInv'
  OBVIOUS
<1>1. CASE UNCHANGED panne
  BY <1>1, SameSurvives DEF panne, sgf
<1>2. CASE Kill
  BY <1>2, KillHeld
<1>3. ASSUME ~perte, ~abime, SgfNext, tues' = tues, abime' = Reopens
      PROVE  PInv'
  <2>1. abime' \in BOOLEAN
    BY <1>3, Zenon DEF Reopens
  <2>2. CASE init_sgf
    BY <1>3, <2>1, <2>2, MountHeld
  <2>3. ASSUME NEW nom \in NOMS,
               OpenNull(nom) \/ sgf_open_read(nom) \/ sgf_open_append(nom) \/ sgf_open_write(nom)
        PROVE  PInv'
    <3>1. CASE OpenNull(nom)
      <4>1. Closed /\ UNCHANGED <<volume, mode, file, appel, perte>>
        BY <3>1, NullSame
      <4>2. tues \in Nat /\ perte \in BOOLEAN /\ mode = "marche" /\ appel = Idle
            /\ \E S : Held(Volume, S, file, tues)
        BY <1>3, <4>1, ClosedHeld
      <4>3. \E S : Held(Volume, S, file', tues)
        BY <4>1, <4>2
      <4> QED
        BY <1>3, <2>1, <4>1, <4>2, <4>3, FileHeld
    <3>2. CASE sgf_open_read(nom)
      BY <1>3, <2>1, <3>2, OpenReadHeld
    <3>3. CASE sgf_open_append(nom)
      BY <1>3, <2>1, <3>3, OpenAppendHeld
    <3>4. CASE sgf_open_write(nom)
      BY <1>3, <2>1, <3>4, OpenWriteHeld
    <3> QED
      BY <2>3, <3>1, <3>2, <3>3, <3>4
  <2>4. CASE sgf_open_write_full
    BY <1>3, <2>1, <2>4, OpenFullHeld
  <2>5. CASE sgf_getc
    BY <1>3, <2>1, <2>5, GetcHeld
  <2>6. CASE Reading /\ \E pos \in -1 .. file.length : sgf_seek(pos)
    BY <1>3, <2>1, <2>6, SeekHeld
  <2>7. CASE \E op \in {"puts", "write"}, t \in TEXTES : Begin(op, t)
    BY <1>3, <2>1, <2>7, BeginHeld
  <2>8. CASE sgf_puts
    BY <1>3, <2>1, <2>8, PutsHeld
  <2>9. CASE sgf_write
    BY <1>3, <2>1, <2>9, WriteHeld
  <2>10. CASE sgf_close
    BY <1>3, <2>1, <2>10, CloseHeld
  <2>11. CASE WrongMode
    BY <1>3, <2>1, <2>11, WrongModeHeld
  <2> QED
    BY <1>3, <2>2, <2>3, <2>4, <2>5, <2>6, <2>7, <2>8, <2>9, <2>10, <2>11 DEF SgfNext, OpenNull
<1> QED
  BY <1>1, <1>2, <1>3 DEF PanneNext

(* PInv is an invariant of SgfPanne. *)
LEMMA PanneInvariant == PanneSpec => []PInv
BY PanneInitial, PanneStep, PTL DEF PanneSpec

(* It says of the files what is to be shown. *)
LEMMA HarmlessNow == PInv => KillHarmsOne
<1> SUFFICES ASSUME PInv PROVE KillHarmsOne
  OBVIOUS
<1>1. CASE perte \/ abime
  BY <1>1 DEF KillHarmsOne
<1>2. CASE ~perte /\ ~abime
  BY <1>2, OpenIs, HeldHarmless
<1> QED
  BY <1>1, <1>2

(* On every disk, whenever programs are killed, between two calls or in one *)
(* between any two of its block writes, and however often: each kill        *)
(* damages one file at most, the one being written.  The others have their  *)
(* blocks to themselves and chains that fit their lengths, names lead to    *)
(* their own inodes, and the directory is whole.                            *)
THEOREM KillSafe == PanneSpec => []KillHarmsOne
<1>1. PInv => KillHarmsOne
  BY HarmlessNow
<1> QED
  BY <1>1, PanneInvariant, PTL
=============================================================================
