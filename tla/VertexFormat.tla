---------------------------- MODULE VertexFormat ----------------------------
(***************************************************************************)
(* How the GE reads vertices (ge.c 185-354, 783-803, 1664-1684): the       *)
(* vertex type register decodes to a layout, a PRIM reads its vertices by  *)
(* it and leaves the vertex or index pointer behind the last one, and the  *)
(* next PRIM goes on from there.  The values in the fields are left out:   *)
(* what is kept of a read is the bytes it touches.                         *)
(***************************************************************************)
EXTENDS Integers, FiniteSets

CONSTANTS VertexTypes,   \* values of the vertex type register, as records
          Counts3D,      \* vertices of a PRIM
          Base           \* where the display list puts its vertices

\* The colour codes 1..3 are reserved: the code has no size for them, and its
\* alignment would then put the fields back to the beginning (ge.c 204, 222).
ASSUME VertexAssumption ==
    /\ VertexTypes \subseteq [wt : 0..3, wc : 0..7, tc : 0..3, col : {0} \cup 4..7, nrm : 0..3,
                              pos : 0..3, through : BOOLEAN, idx : 0..3]
    /\ VertexTypes # {} /\ Counts3D \subseteq Nat
    /\ Base \in Nat /\ Base % 4 = 0

VARIABLES vtype,   \* ge.vtype
          vaddr,   \* ge.vaddr
          iaddr,   \* ge.iaddr
          fetched,   \* vertices of the PRIMs since the pointers were set
          touched  \* the bytes those read, with the vertex and field they are of
vtxVars == <<vtype, vaddr, iaddr, fetched, touched>>

Size(fmt)    == CASE fmt = 0 -> 0 [] fmt = 1 -> 1 [] fmt = 2 -> 2 [] fmt = 3 -> 4
ColSize(fmt) == IF fmt = 7 THEN 4 ELSE IF fmt >= 4 THEN 2 ELSE 0
AlignTo(off, a) == IF a = 0 THEN off ELSE ((off + a - 1) \div a) * a

\* variant: a count field of zero means that there are no weights
WeightsAsCounted(t) == t.wc

\* Skinning weights of a vertex: the field holds their number less one.
Weights(t) == t.wc + 1

(* decode_vtype: each field is aligned to its component and follows the    *)
(* one before; the vertex is as long as the widest component makes it.     *)
Layout(t) ==
    LET wOff == 0
        wEnd == IF t.wt = 0 THEN 0 ELSE Size(t.wt) * Weights(t)
        tOff == AlignTo(wEnd, Size(t.tc))
        tEnd == tOff + 2 * Size(t.tc)
        cOff == AlignTo(tEnd, ColSize(t.col))
        cEnd == cOff + ColSize(t.col)
        nOff == AlignTo(cEnd, Size(t.nrm))
        nEnd == nOff + 3 * Size(t.nrm)
        p    == Size(IF t.pos = 0 THEN 3 ELSE t.pos)
        pOff == AlignTo(nEnd, p)
        \* the sizes are 0, 1, 2 and 4: the largest alignment is the largest size
        wide == CHOOSE a \in {1, Size(t.wt), Size(t.tc), ColSize(t.col), Size(t.nrm), p} :
                    \A b \in {1, Size(t.wt), Size(t.tc), ColSize(t.col), Size(t.nrm), p} : b <= a
    IN [w |-> wOff, tc |-> tOff, col |-> cOff, nrm |-> nOff, pos |-> pOff,
        stride |-> AlignTo(pOff + 3 * p, wide)]

-----------------------------------------------------------------------------
(* The reads of one vertex: for each field its offset, the size of its     *)
(* components as the reader takes them, and their number.                  *)

ReadWeights(t, l) == [off |-> l.w, size |-> Size(t.wt), n |-> t.wc + 1]
ReadTc(t, l)      == [off |-> l.tc, size |-> Size(t.tc), n |-> 2]
ReadColor(t, l)   == [off |-> l.col, size |-> IF t.col = 7 THEN 4 ELSE 2, n |-> 1]
ReadNrm(t, l)     == [off |-> l.nrm, size |-> Size(t.nrm), n |-> 3]
\* a position without a format is laid out as floats and read as bytes
ReadPos(t, l)     == [off |-> l.pos, size |-> IF t.pos = 0 THEN 1 ELSE Size(t.pos), n |-> 3]

(* load_vtx reads no normals and weights; transform mode reads all.        *)
Reads(t, l) ==
    {<<"pos", ReadPos(t, l)>>}
    \cup (IF t.tc # 0 THEN {<<"tc", ReadTc(t, l)>>} ELSE {})
    \cup (IF ColSize(t.col) # 0 THEN {<<"col", ReadColor(t, l)>>} ELSE {})
    \cup (IF t.nrm # 0 /\ ~t.through THEN {<<"nrm", ReadNrm(t, l)>>} ELSE {})
    \cup (IF t.wt # 0 /\ ~t.through THEN {<<"w", ReadWeights(t, l)>>} ELSE {})

(* prim_vtx_addr of the i-th vertex, without indices.                      *)
VtxAddr(i, l) == vaddr + i * l.stride

BytesOf(t, count) ==
    LET l == Layout(t)
    IN UNION {{[at |-> VtxAddr(i, l) + r[2].off + k, of |-> <<fetched + i, r[1]>>] :
                   k \in 0..r[2].size * r[2].n - 1} : i \in 0..count - 1, r \in Reads(t, l)}

IndexBytes(t, count) ==
    LET size == Size(t.idx)
    IN UNION {{[at |-> iaddr + i * size + k, of |-> <<fetched + i, "index">>] : k \in 0..size - 1} :
                  i \in 0..count - 1}

-----------------------------------------------------------------------------
FirstType == CHOOSE t \in VertexTypes : TRUE

VertexInit ==
    /\ vtype = FirstType
    /\ vaddr = Base /\ iaddr = Base
    /\ fetched = 0 /\ touched = {}

(* VERTEXTYPE with VADDR and IADDR: the list turns to another mesh.        *)
VertexType(t) ==
    /\ vtype' = t
    /\ vaddr' = Base /\ iaddr' = Base
    /\ fetched' = 0 /\ touched' = {}

(* The start of draw_prim, and the reads of its vertices.  The vertices an *)
(* index picks are the game's business: of an indexed PRIM the indices are *)
(* followed.                                                               *)
DrawPrim(count) ==
    /\ IF vtype.idx = 0
       THEN /\ touched' = touched \cup BytesOf(vtype, count)
            /\ vaddr' = vaddr + count * Layout(vtype).stride
            /\ UNCHANGED iaddr
       ELSE /\ touched' = touched \cup IndexBytes(vtype, count)
            /\ iaddr' = iaddr + (count * 2 ^ (vtype.idx - 1))
            /\ UNCHANGED vaddr
    /\ fetched' = fetched + count
    /\ UNCHANGED vtype

VertexNext ==
    \/ /\ vtype = FirstType /\ fetched = 0        \* bound: one change of type
       /\ \E t \in VertexTypes \ {FirstType} : VertexType(t)
    \/ fetched <= 2 /\ \E n \in Counts3D : DrawPrim(n)     \* bound: two PRIMs or three

VertexSpec == VertexInit /\ [][VertexNext]_vtxVars

-----------------------------------------------------------------------------
(* Every byte belongs to one field of one vertex: no field is read over    *)
(* its neighbour or past the end of its vertex, and a PRIM goes on exactly *)
(* where the last one stopped, leaving out nothing and reading nothing     *)
(* twice.  Components are read at their natural alignment (ge.c 185-234:   *)
(* "the old guard skipped that case, misaligning every later field").      *)
OneFieldPerByte ==
    /\ \A x, y \in touched : x.at = y.at => x.of = y.of
    /\ LET l    == Layout(vtype)
           unit == IF vtype.idx = 0 THEN l.stride ELSE Size(vtype.idx)
       IN /\ \A x \in touched : (x.at - Base) \div unit = x.of[1]
          /\ \A r \in Reads(vtype, l) : /\ (Base + r[2].off) % r[2].size = 0
                                        /\ l.stride % r[2].size = 0
=============================================================================
