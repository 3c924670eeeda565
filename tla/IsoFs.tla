------------------------------- MODULE IsoFs -------------------------------
(***************************************************************************)
(* The game disc, iso.c: finding a file by its path in the ISO 9660 tree,  *)
(* in an image that may hold another as the file USER_L0.IMG.              *)
(*                                                                         *)
(* An image is a function from absolute sectors to what is recorded there. *)
(* A directory occupies consecutive sectors, of each of which the model    *)
(* keeps the records with the offsets they begin at; a record does not     *)
(* cross a sector's end, what is left before it is zero.  Names are model  *)
(* values; case and version suffixes, which name_eq disregards, are not    *)
(* represented.  A host file is never short.                               *)
(***************************************************************************)
EXTENDS Integers, Sequences

CONSTANTS
    Discs,      \* images: descriptors (sector -> root) and directories
    SECTOR,     \* 2048
    PVD,        \* 16, the sector of the volume descriptor
    Wrapper,    \* USER_L0.IMG
    Paths,      \* sequences of names the game looks for
    RawPaths    \* sce_lbn paths: a sector and a size, -1 when it names none

VARIABLES
    image,      \* the image opened
    offset,     \* s_iso_offset
    opened,     \* s_iso # NULL
    asked,      \* the path last looked up, <<>> for none
    raw,        \* the raw path last looked up, or Absent
    located     \* what iso_lookup found

isoVars == <<image, offset, opened, asked, raw, located>>

Absent == [lba |-> -1, size |-> 0]

IsoInit ==
    /\ image = CHOOSE d \in Discs : TRUE
    /\ offset = 0 /\ opened = FALSE
    /\ asked = <<>> /\ raw = Absent /\ located = Absent

-----------------------------------------------------------------------------
SectorAfter(o) == ((o \div SECTOR) + 1) * SECTOR

(* Of a directory: its size in bytes and its records by offset, no two of  *)
(* one name.  A record begins a sector or where another ends, and none     *)
(* crosses the end of a sector or begins within another.                   *)
Directory(dir) ==
    /\ dir.size \in Nat /\ DOMAIN dir.records \subseteq 0 .. dir.size - 1
    /\ \A o \in DOMAIN dir.records :
          /\ dir.records[o].length \in 1 .. SectorAfter(o) - o
          /\ \A p \in DOMAIN dir.records :
                /\ ~ (o < p /\ p < o + dir.records[o].length)
                /\ dir.records[p].name = dir.records[o].name => p = o
          /\ o % SECTOR = 0 \/ \E p \in DOMAIN dir.records : o = p + dir.records[p].length

AtZeroEnds(o, dir) == dir.size   \* variant: nothing follows the padding of a sector
PastPadding(o, dir) == SectorAfter(o)

Named(dir, name) == {o \in DOMAIN dir.records : dir.records[o].name = name}

(* The sectors of the disc, or of the disc inside it, in the image.        *)
Volume(d) ==
    LET root == d.directories[d.volumes[PVD]]
        w    == Named(root, Wrapper)
    IN IF w = {} THEN 0 ELSE root.records[CHOOSE o \in w : TRUE].lba

(* Every directory of the tree is on the disc.                             *)
ASSUME IsoAssumption ==
    /\ SECTOR \in Nat \ {0} /\ PVD \in Nat /\ Discs # {}
    /\ \A path \in Paths : Len(path) \in Nat
    /\ \A d \in Discs :
          /\ \A k \in DOMAIN d.directories : Directory(d.directories[k])
          /\ d.volumes[PVD] \in DOMAIN d.directories
          /\ \E tree \in SUBSET DOMAIN d.directories :
                /\ Volume(d) + d.volumes[Volume(d) + PVD] \in tree
                /\ \A k \in tree : \A o \in DOMAIN d.directories[k].records :
                      d.directories[k].records[o].isdir =>
                          Volume(d) + d.directories[k].records[o].lba \in tree

(* The walk over a directory: where the record after or at offset o is     *)
(* that satisfies the test, as an offset, or the end.                      *)
Walk(dir, wanted) ==
    LET at[o \in 0 .. dir.size + SECTOR] ==
            IF o >= dir.size THEN dir.size
            ELSE IF o \notin DOMAIN dir.records THEN at[PastPadding(o, dir)]
            ELSE IF dir.records[o].name \in wanted THEN o
            ELSE at[o + dir.records[o].length]
    IN at[0]

(* dir_find: a record by name; no path names the dots.                     *)
DirFind(dir, name) ==
    LET o == Walk(dir, {name})
    IN IF o \in DOMAIN dir.records THEN dir.records[o] ELSE Absent

(* detect_wrapper: the volume of the image itself, searched for the other. *)
Detect(d) ==
    LET root == d.directories[d.volumes[PVD]]
        o    == Walk(root, {Wrapper})
    IN IF o \in DOMAIN root.records THEN root.records[o].lba ELSE 0

(* The volume read through the offset, and one step of iso_lookup.         *)
Root(d, off) == [lba |-> d.volumes[off + PVD], isdir |-> TRUE,
                 size |-> d.directories[off + d.volumes[off + PVD]].size]

Below(d, off, at, name) ==
    IF at = Absent \/ ~at.isdir THEN Absent
    ELSE DirFind(d.directories[off + at.lba], name)

IsoLookup(d, off, path) ==
    LET at[i \in 0 .. Len(path)] ==
            IF i = 0 THEN Root(d, off) ELSE Below(d, off, at[i - 1], path[i])
    IN at[Len(path)]

(* The first use of the disc opens it.                                     *)
OpenDisc(d) ==
    /\ ~opened
    /\ opened' = TRUE /\ image' = d
    /\ offset' = Detect(d)
    /\ UNCHANGED <<asked, raw, located>>

(* Where iso_read then reads, in sectors of the image.                     *)
AtSector(off, at) == IF at = Absent THEN Absent ELSE [lba |-> off + at.lba, size |-> at.size]

LookupPath(path) ==
    /\ opened
    /\ asked' = path /\ raw' = Absent
    /\ located' = AtSector(offset, IsoLookup(image, offset, path))
    /\ UNCHANGED <<image, offset, opened>>

(* A path with sce_lbn in it names the sector itself, and no file; one     *)
(* sector when it names no size.                                           *)
Sized(sce) == IF sce.size = -1 THEN [sce EXCEPT !.size = SECTOR] ELSE sce

LookupRaw(sce) ==
    /\ opened
    /\ asked' = <<>> /\ raw' = sce
    /\ located' = AtSector(offset, Sized(sce))
    /\ UNCHANGED <<image, offset, opened>>

IsoNext ==
    \/ \E d \in Discs : OpenDisc(d)
    \/ \E path \in Paths : LookupPath(path)
    \/ \E sce \in RawPaths : LookupRaw(sce)

IsoSpec == IsoInit /\ [][IsoNext]_isoVars

-----------------------------------------------------------------------------
(* What the tree says, whatever the order and place of its records.        *)
Child(d, at, name) ==
    IF at = Absent \/ ~at.isdir THEN Absent
    ELSE LET dir == d.directories[Volume(d) + at.lba]
         IN IF Named(dir, name) = {} THEN Absent
            ELSE dir.records[CHOOSE o \in Named(dir, name) : TRUE]

InTree(d, path) ==
    LET at[i \in 0 .. Len(path)] ==
            IF i = 0 THEN Root(d, Volume(d)) ELSE Child(d, at[i - 1], path[i])
    IN at[Len(path)]

(* A path leads to the file or directory the tree of the disc, or of the   *)
(* disc inside it, has by that path, and to nothing when it has none: past *)
(* the end of a sector, through a file, or beside a wrapper.  A raw path   *)
(* counts its sectors from the start of that same disc.                    *)
FoundByName ==
    /\ opened /\ asked # <<>> => located = AtSector(Volume(image), InTree(image, asked))
    /\ raw # Absent => located = AtSector(Volume(image), Sized(raw))
=============================================================================
