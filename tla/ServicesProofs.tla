--------------------------- MODULE ServicesProofs ---------------------------
(***************************************************************************)
(* What the services promise holds for every value of their constants.     *)
(* They share no state: dialogs and the saves they make, audio output,     *)
(* voices, and the ring of pad samples, each with an inductive invariant   *)
(* of its own.                                                             *)
(***************************************************************************)
EXTENDS Dialogs, Sound, CtrlRing, WellFoundedInduction, TLAPS

(* A set of numbers that is not empty has a least one.                     *)
LEMMA HasLeast ==
    ASSUME NEW S, S \subseteq Nat, S # {}
    PROVE  \E x \in S : \A y \in S : x <= y
<1> DEFINE R == OpToRel(<, Nat)
<1>1. IsWellFoundedOn(R, Nat)
  BY NatLessThanWellFounded
<1>2. PICK x \in S : \A y \in S : ~ (<<y, x>> \in R)
  BY <1>1, IsWellFoundedOnSubset, WFMin
<1>3. ASSUME NEW y \in S PROVE x <= y
  <2>1. x \in Nat /\ y \in Nat /\ ~ (y < x)
    BY <1>2 DEF OpToRel
  <2> QED  BY <2>1
<1> QED  BY <1>3

-----------------------------------------------------------------------------
(* Dialogs and saves, for any names, lists of names, files and parameter   *)
(* blocks, and any number of polls.                                        *)

(* The first of some positions or names.                                   *)
LEMMA FirstIs ==
    ASSUME NEW S, S \subseteq Nat, S # {}
    PROVE  FirstOf(S) \in S /\ \A m \in S : FirstOf(S) <= m
BY HasLeast DEF FirstOf

LEMMA FirstIsUnique ==
    ASSUME NEW S, S \subseteq Nat, NEW n \in S, \A m \in S : n <= m
    PROVE  FirstOf(S) = n
<1>1. FirstOf(S) \in S /\ \A m \in S : FirstOf(S) <= m
  BY FirstIs
<1>2. FirstOf(S) <= n /\ n <= FirstOf(S) /\ n \in Nat /\ FirstOf(S) \in Nat
  BY <1>1
<1> QED  BY <1>2

(* What is asked of the savedata dialog, and the load that would follow a  *)
(* save.                                                                   *)
Asks == Requests(SaveLists)

LEMMA AskIs ==
    ASSUME NEW r \in Asks
    PROVE  /\ r.mode \in Modes /\ r.save \in Saves \cup {Wild}
           /\ r.data \in {"none", "named", "given"}
           /\ r.list \in Seq(Saves \cup {Wild}) /\ r.blobs \in SUBSET Blobs
           /\ DOMAIN r.list \subseteq Nat
           /\ \A i \in DOMAIN r.list : r.list[i] \in Saves \cup {Wild}
<1>1. r \in [mode : Modes, save : Asked, list : SaveLists,
            data : {"none", "named", "given"}, blobs : SUBSET Blobs]
  BY DEF Asks, Requests
<1>2. r.save \in Saves \cup {Wild} /\ r.list \in Seq(Saves \cup {Wild})
  BY <1>1, SaveAssumption, DialogAssumption DEF Wild
<1>3. DOMAIN r.list = 1 .. Len(r.list) /\ Len(r.list) \in Nat
  BY <1>2
<1>4. DOMAIN r.list \subseteq Nat /\ \A i \in DOMAIN r.list : r.list[i] \in Saves \cup {Wild}
  BY <1>2, <1>3
<1> QED  BY <1>1, <1>2, <1>4

LEMMA AsLoadIs ==
    ASSUME NEW r \in Asks, r.mode \in SaveModes
    PROVE  /\ AsLoad(r).save = r.save /\ AsLoad(r).list = r.list
           /\ AsLoad(r).data = IF r.data = "none" THEN "none" ELSE "named"
           /\ AsLoad(r).mode \in LoadModes
           /\ Listed(AsLoad(r)) = Listed(r)
           /\ AsLoad(r).mode # "LISTSAVE"
<1>1. r.mode = "SAVE" \/ r.mode = "LISTSAVE" \/ r.mode = "MAKEDATA"
  BY DEF SaveModes
<1>2. PICK m : /\ m = AsLoad(r).mode
               /\ r.mode = "SAVE" => m = "LOAD"
               /\ r.mode = "LISTSAVE" => m = "LISTLOAD"
               /\ r.mode = "MAKEDATA" => m = "READDATA"
  BY <1>1 DEF AsLoad
<1>3. AsLoad(r).save = r.save /\ AsLoad(r).list = r.list
  BY DEF AsLoad
<1>4. AsLoad(r).data = IF r.data = "none" THEN "none" ELSE "named"
  BY DEF AsLoad
<1>5. m \in LoadModes /\ m # "LISTSAVE" /\ (m \in ListModes <=> r.mode \in ListModes)
  BY <1>1, <1>2 DEF LoadModes, ListModes
<1>6. Listed(AsLoad(r)) = Listed(r)
  BY <1>2, <1>3, <1>5 DEF Listed
<1> QED  BY <1>2, <1>3, <1>4, <1>5, <1>6

NamesIn(s)  == {i \in DOMAIN s : s[i] # Wild}
Among(E, s) == {i \in DOMAIN s : s[i] # Wild /\ s[i] \in E}

(* The name resolved to when the saves E exist.                            *)
Choice(E, listed, makes, s, save) ==
    IF listed /\ Among(E, s) # {} THEN s[FirstOf(Among(E, s))]
    ELSE IF listed /\ makes /\ NamesIn(s) # {} THEN s[FirstOf(NamesIn(s))]
    ELSE IF save # Wild THEN save
    ELSE IF E # {} THEN FirstOf(E) ELSE 0

(* A load resolves the name as the save before it did, although the save   *)
(* exists now.                                                             *)
Sensible(E, listed, makes, s, save) ==
    /\ E \subseteq Names /\ listed \in BOOLEAN /\ makes \in BOOLEAN
    /\ DOMAIN s \subseteq Nat /\ \A i \in DOMAIN s : s[i] \in Saves \cup {Wild}
    /\ save \in Saves \cup {Wild} /\ (save = Wild => listed)

LEMMA ChoiceStays ==
    ASSUME NEW E, NEW listed, NEW makes, NEW s, NEW save, Sensible(E, listed, makes, s, save),
           NEW no, ~ no,
           NEW n, n = Choice(E, listed, makes, s, save)
    PROVE  Choice(E \cup {n}, listed, no, s, save) = n
<1> USE DEF Sensible
<1>0. /\ E \subseteq Nat /\ Saves \subseteq Nat \ {0} /\ Wild = -1
      /\ Among(E, s) \subseteq Nat /\ NamesIn(s) \subseteq Nat
  BY SaveAssumption DEF Names, Among, NamesIn, Wild
<1>1. CASE listed /\ Among(E, s) # {}
  <2>1. FirstOf(Among(E, s)) \in Among(E, s) /\ n = s[FirstOf(Among(E, s))]
    BY <1>0, <1>1, FirstIs DEF Choice
  <2>2. E \cup {n} = E
    BY <2>1 DEF Among
  <2> QED  BY <1>1, <2>1, <2>2 DEF Choice
<1>2. CASE listed /\ makes /\ Among(E, s) = {} /\ NamesIn(s) # {}
  <2>1. PICK k : /\ k \in NamesIn(s) /\ n = s[k] /\ \A m \in NamesIn(s) : k <= m
    BY <1>0, <1>2, FirstIs DEF Choice
  <2>2. Among(E \cup {n}, s) \subseteq NamesIn(s) /\ k \in Among(E \cup {n}, s)
    BY <2>1 DEF Among, NamesIn
  <2>3. FirstOf(Among(E \cup {n}, s)) = k
    BY <1>0, <2>1, <2>2, FirstIsUnique
  <2> QED  BY <1>2, <2>1, <2>2, <2>3 DEF Choice
<1>3. CASE ~ (listed /\ Among(E, s) # {}) /\ ~ (listed /\ makes /\ NamesIn(s) # {}) /\ save # Wild
  <2>1. n = save
    BY <1>3 DEF Choice
  <2>2. CASE listed /\ Among(E \cup {n}, s) # {}
    <3>1. FirstOf(Among(E \cup {n}, s)) \in Among(E \cup {n}, s)
      <4>1. Among(E \cup {n}, s) \subseteq Nat
        BY DEF Among
      <4> QED  BY <2>2, <4>1, FirstIs
    <3>2. \A i \in Among(E \cup {n}, s) : s[i] = n
      BY <1>3, <2>2 DEF Among
    <3> QED  BY <2>2, <3>1, <3>2 DEF Choice
  <2>3. CASE ~ (listed /\ Among(E \cup {n}, s) # {})
    BY <1>3, <2>1, <2>3 DEF Choice
  <2> QED  BY <2>2, <2>3
<1>4. CASE /\ ~ (listed /\ Among(E, s) # {}) /\ ~ (listed /\ makes /\ NamesIn(s) # {})
           /\ save = Wild
  <2>0. n = IF E # {} THEN FirstOf(E) ELSE 0
    BY <1>4 DEF Choice
  <2>1. CASE E # {}
    <3>1. n = FirstOf(E) /\ n \in E
      BY <1>0, <2>0, <2>1, FirstIs
    <3>2. E \cup {n} = E
      BY <3>1
    <3> QED  BY <1>4, <2>1, <3>1, <3>2 DEF Choice
  <2>2. CASE E = {}
    <3>1. n = 0 /\ E \cup {n} = {0}
      BY <2>0, <2>2
    <3>2. Among({0}, s) = {}
      BY <1>0 DEF Among
    <3>3. FirstOf({0}) = 0
      BY FirstIsUnique
    <3> QED  BY <1>4, <3>1, <3>2, <3>3 DEF Choice
  <2> QED  BY <2>1, <2>2
<1> QED  BY <1>1, <1>2, <1>3, <1>4

LEMMA ResolveIs ==
    ASSUME NEW r
    PROVE  /\ Resolve(r) = Choice(exists, Listed(r), r.mode = "LISTSAVE", r.list, r.save)
           /\ Resolve(r)' = Choice(exists', Listed(r), r.mode = "LISTSAVE", r.list, r.save)
<1>1. Named(r) = NamesIn(r.list)
  BY DEF Named, NamesIn
<1>2. Found(r) = Among(exists, r.list)
  BY DEF Named, Found, Among
<1>3. Found(r)' = Among(exists', r.list)
  BY DEF Named, Found, Among
<1>4. Named(r)' = Named(r) /\ Listed(r)' = Listed(r)
  BY DEF Named, Listed
<1>5. Resolve(r) = Choice(exists, Listed(r), r.mode = "LISTSAVE", r.list, r.save)
  BY <1>1, <1>2 DEF Resolve, Choice
<1>6. Resolve(r)' = Choice(exists', Listed(r), r.mode = "LISTSAVE", r.list, r.save)
  BY <1>1, <1>3, <1>4 DEF Resolve, Choice
<1> QED  BY <1>5, <1>6

LEMMA LoadResolvesAlike ==
    ASSUME exists \subseteq Names, NEW r \in Asks, r.mode \in SaveModes,
           exists' = exists \cup {Resolve(r)}
    PROVE  Resolve(AsLoad(r))' = Resolve(r)
<1>1. PICK l : l = AsLoad(r)
  OBVIOUS
<1>2. /\ l.save = r.save /\ l.list = r.list /\ l.mode # "LISTSAVE"
      /\ Listed(l) = Listed(r)
  BY <1>1, AsLoadIs
<1>3. PICK listed \in BOOLEAN, makes \in BOOLEAN :
         /\ listed = Listed(r) /\ makes = (r.mode = "LISTSAVE")
  BY DEF Listed
<1>4. Resolve(r) = Choice(exists, listed, makes, r.list, r.save)
  BY <1>3, ResolveIs
<1>4a. PICK no \in BOOLEAN : ~ no
  OBVIOUS
<1>5. Resolve(l)' = Choice(exists', listed, no, r.list, r.save)
  <2>1. no = (l.mode = "LISTSAVE")
    BY <1>2, <1>4a
  <2> QED  BY <1>2, <1>3, <2>1, ResolveIs
<1>6. r.save = Wild => listed
  BY <1>3 DEF Listed
<1>7. PICK n : n = Resolve(r)
  OBVIOUS
<1>8. PICK s : s = r.list
  OBVIOUS
<1>8a. PICK sv : sv = r.save
  OBVIOUS
<1>8b. /\ sv \in Saves \cup {Wild} /\ DOMAIN s \subseteq Nat
       /\ \A i \in DOMAIN s : s[i] \in Saves \cup {Wild}
  BY <1>8, <1>8a, AskIs
<1>9. PICK E : E = exists /\ E \subseteq Names
  OBVIOUS
<1>10. n = Choice(E, listed, makes, s, sv) /\ (sv = Wild => listed)
  BY <1>4, <1>6, <1>7, <1>8, <1>8a, <1>9
<1>10a. Sensible(E, listed, makes, s, sv)
  BY <1>3, <1>8b, <1>9, <1>10 DEF Sensible
<1>11. Choice(E \cup {n}, listed, no, s, sv) = n
  BY <1>4a, <1>10, <1>10a, ChoiceStays
<1>12. Choice(exists \cup {n}, listed, no, r.list, r.save) = n
  BY <1>8, <1>8a, <1>9, <1>11
<1> QED  BY <1>1, <1>5, <1>7, <1>12
-----------------------------------------------------------------------------

(* What is stored: the saves that exist, and what their files hold.        *)
Contents == Int
DiskOK == disk \in [Names -> [Files -> Contents]]
StoreOK == exists \subseteq Names /\ DiskOK /\ saves \in Nat

LEMMA ResolvesToName ==
    ASSUME exists \subseteq Names, NEW r \in Asks
    PROVE  Resolve(r) \in Names
<1>1. PICK s : s = r.list
  OBVIOUS
<1>1a. PICK sv : sv = r.save
  OBVIOUS
<1>1b. /\ sv \in Saves \cup {Wild} /\ DOMAIN s \subseteq Nat
       /\ \A i \in DOMAIN s : s[i] \in Saves \cup {Wild}
  BY <1>1, <1>1a, AskIs
<1>2. /\ Found(r) \subseteq Nat /\ Named(r) \subseteq Nat /\ exists \subseteq Nat
      /\ Saves \subseteq Names /\ 0 \in Names
  BY <1>1, <1>1a, <1>1b, SaveAssumption DEF Found, Named, Names
<1>3. Found(r) # {} => r.list[FirstOf(Found(r))] \in Names
  BY <1>1, <1>1a, <1>1b, <1>2, FirstIs DEF Found, Named
<1>4. Named(r) # {} => r.list[FirstOf(Named(r))] \in Names
  BY <1>1, <1>1a, <1>1b, <1>2, FirstIs DEF Named, Wild
<1>5. r.save # Wild => r.save \in Names
  BY <1>1, <1>1a, <1>1b, <1>2
<1>6. exists # {} => FirstOf(exists) \in Names
  BY <1>2, FirstIs
<1> QED  BY <1>2, <1>3, <1>4, <1>5, <1>6 DEF Resolve

(* A save that went well, and the load after it.                           *)
Stored(r, m, b) == [ok |-> TRUE, req |-> r, missed |-> m, before |-> b]

LEMMA StoredFields ==
    ASSUME NEW r, NEW m, NEW b, NEW s, s = Stored(r, m, b)
    PROVE  s.req = r /\ s.missed = m /\ s.before = b
BY DEF Stored

LEMMA LoadIsOk ==
    ASSUME NEW l, Resolve(l)' \in exists',
           l.data # "none" => disk'[Resolve(l)'][Data] # NoFile
    PROVE  LoadResult(l)' = "ok"
BY DEF LoadResult

(* What becomes of a write, and what the host failed at.                   *)
LEMMA FatesAre ==
    ASSUME NEW r, NEW fate \in Fates(r)
    PROVE  /\ DOMAIN fate = Files \cup {"dir"}
           /\ \A f \in Files : fate[f] \in {"done", "kept", "torn", "unflushed"}
           /\ \A f \in Files \cup {"dir"} : f \in Missed(fate) <=> fate[f] # "done"
<1>1. DOMAIN AllDone = Files \cup {"dir"} /\ \A f \in Files \cup {"dir"} : AllDone[f] = "done"
  BY DEF AllDone
<1>2. fate = AllDone \/ \E x, y \in {"kept", "torn", "unflushed", Data, Sfo, "dir"} :
                           y \in {"kept", "torn", "unflushed"} /\ fate = [AllDone EXCEPT ![x] = y]
  BY DEF Fates
<1>3. /\ DOMAIN fate = Files \cup {"dir"}
      /\ \A f \in Files \cup {"dir"} : fate[f] \in {"done", "kept", "torn", "unflushed"}
  BY <1>1, <1>2
<1> QED  BY <1>3 DEF Missed

LEMMA NamesApart == Data \notin {Sfo} \cup Blobs
BY SaveAssumption DEF Data, Sfo

(* What a save stored.                                                     *)
LEMMA WritesAre ==
    ASSUME StoreOK, NEW r \in Asks, r.mode \in SaveModes, NEW fate \in Fates(r),
           NEW n \in Names, n = Resolve(r), n \in Mkdirs(r, fate), ~ DataFails(r, fate),
           disk' = DoSave(r, fate)
    PROVE  /\ r.data = "given" => disk'[n][Data] \in {saves + 1, Torn}
           /\ r.data = "given" /\ Data \notin Missed(fate) => disk'[n][Data] = saves + 1
           /\ r.data # "given" => disk'[n][Data] = disk[n][Data]
           /\ \A f \in {Sfo} \cup r.blobs : f \notin Missed(fate) => disk'[n][f] = saves + 1
<1>1. r.blobs \subseteq Blobs
  BY AskIs
<1>2. PICK W : W = (IF r.data = "given" THEN {Data} ELSE {}) \cup ({Sfo} \cup r.blobs)
  OBVIOUS
<1>3. PICK h : h = [f \in Files |-> IF f \in W THEN Left(disk[n][f], saves + 1, fate[f])
                                    ELSE disk[n][f]]
  OBVIOUS
<1>4. disk' = [disk EXCEPT ![n] = h]
  BY <1>2, <1>3 DEF DoSave
<1>5. disk'[n] = h
  BY <1>4 DEF StoreOK, DiskOK
<1>6. {Sfo} \cup r.blobs \subseteq W /\ W \subseteq Files /\ Data \in Files
  BY <1>1, <1>2 DEF Files
<1>7. \A f \in Files : f \in W /\ f \notin Missed(fate) => h[f] = saves + 1
  BY <1>3, FatesAre DEF Left
<1>8. r.data = "given" => Data \in W /\ fate[Data] \in {"done", "unflushed"}
  BY <1>2, <1>6, FatesAre DEF DataFails, Fails
<1>9. r.data = "given" => h[Data] \in {saves + 1, Torn}
  BY <1>3, <1>6, <1>8 DEF Left
<1>10. r.data # "given" => h[Data] = disk[n][Data]
  <2>1. r.data # "given" => Data \notin W
    BY <1>1, <1>2, NamesApart
  <2> QED  BY <1>3, <1>6, <2>1
<1> QED  BY <1>5, <1>6, <1>7, <1>8, <1>9, <1>10

LEMMA SaveStores ==
    ASSUME StoreOK, NEW r \in Asks, r.mode \in SaveModes, NEW fate \in Fates(r),
           exists' = Mkdirs(r, fate), disk' = DoSave(r, fate), saves' = saves + 1,
           last' = IF SaveResult(r, fate) = "ok"
                   THEN [ok |-> TRUE, req |-> r, missed |-> Missed(fate),
                         before |-> disk[Resolve(r)][Data]]
                   ELSE NoLast
    PROVE  SaveThenLoad'
<1>1. PICK m : m = Missed(fate)
  OBVIOUS
<1>2. CASE SaveResult(r, fate) # "ok"
  <2>1. last' = NoLast
    BY <1>2
  <2>2. ~ last'.ok
    BY <2>1 DEF NoLast
  <2> QED  BY <2>2 DEF SaveThenLoad
<1>3. CASE SaveResult(r, fate) = "ok"
  <2>1. PICK n \in Names : n = Resolve(r)
    BY ResolvesToName DEF StoreOK
  <2>2. PICK b : b = disk[n][Data]
    OBVIOUS
  <2>3. last' = Stored(r, m, b)
    BY <1>1, <1>3, <2>1, <2>2 DEF Stored
  <2>4. last'.req = r /\ last'.missed = m /\ last'.before = b
    BY <2>3, StoredFields
  <2>5. ~ DataFails(r, fate)
    BY <1>3 DEF SaveResult
  <2>6. PICK l : l = AsLoad(r)
    OBVIOUS
  <2>7. l.data = IF r.data = "none" THEN "none" ELSE "named"
    BY <2>6, AsLoadIs
  <2>8. AsLoad(last.req)' = l
    BY <2>4, <2>6 DEF AsLoad
  <2>9. SaveThenLoad' =
          (last'.ok =>
             /\ r.data = "given" \/ (r.data = "none" /\ "dir" \notin m) => LoadResult(l)' = "ok"
             /\ r.data = "given" /\ Data \notin m => Loaded(l)'[Data] = saves'
             /\ r.data # "given" /\ "dir" \notin m => Loaded(l)'[Data] = b
             /\ m \subseteq {Data} => \A f \in {Sfo} \cup r.blobs : Loaded(l)'[f] = saves')
    BY <2>4, <2>8 DEF SaveThenLoad
  <2>10. CASE n \notin Mkdirs(r, fate)
    <3>1. r.data # "given"
      BY <2>1, <2>5, <2>10 DEF DataFails
    <3>2. fate["dir"] # "done"
      BY <2>1, <2>10 DEF Mkdirs
    <3>3. "dir" \in m
      BY <1>1, <3>2, FatesAre
    <3>4. "dir" # Data
      BY DEF Data
    <3> QED  BY <2>9, <3>1, <3>3, <3>4
  <2>11. CASE n \in Mkdirs(r, fate)
    <3>1. exists' = exists \cup {Resolve(r)}
      BY <2>1, <2>11 DEF Mkdirs
    <3>2. Resolve(l)' = n
      BY <2>1, <2>6, <3>1, LoadResolvesAlike DEF StoreOK
    <3>3. /\ r.data = "given" => disk'[n][Data] \in {saves', Torn}
          /\ r.data = "given" /\ Data \notin m => disk'[n][Data] = saves'
          /\ r.data # "given" => disk'[n][Data] = b
          /\ \A f \in {Sfo} \cup r.blobs : f \notin m => disk'[n][f] = saves'
      BY <1>1, <2>1, <2>2, <2>5, <2>11, WritesAre
    <3>4. saves' # NoFile /\ Torn # NoFile
      BY DEF StoreOK, NoFile, Torn
    <3>5. r.data \in {"given", "none"} => LoadResult(l)' = "ok"
      <4>1. r.data = "given" => disk'[n][Data] # NoFile
        BY <3>3, <3>4
      <4>2. r.data = "none" => l.data = "none"
        BY <2>7
      <4> QED  BY <2>1, <3>1, <3>2, <4>1, <4>2, LoadIsOk
    <3>6. m \subseteq {Data} => \A f \in {Sfo} \cup r.blobs : disk'[n][f] = saves'
      <4>1. \A f \in {Sfo} \cup r.blobs : f # Data
        BY NamesApart, AskIs
      <4> QED  BY <3>3, <4>1
    <3>7. Loaded(l)' = disk'[n]
      BY <3>2 DEF Loaded
    <3>8. \A f : Loaded(l)'[f] = disk'[n][f]
      BY <3>7
    <3>9. r.data = "given" \/ (r.data = "none" /\ "dir" \notin m) => LoadResult(l)' = "ok"
      BY <3>5
    <3>10. r.data = "given" /\ Data \notin m => Loaded(l)'[Data] = saves'
      BY <3>3, <3>8
    <3>11. r.data # "given" /\ "dir" \notin m => Loaded(l)'[Data] = b
      BY <3>3, <3>8
    <3>12. m \subseteq {Data} => \A f \in {Sfo} \cup r.blobs : Loaded(l)'[f] = saves'
      BY <3>6, <3>8
    <3> QED  BY <2>9, <3>9, <3>10, <3>11, <3>12, Zenon
  <2> QED  BY <2>10, <2>11
<1> QED  BY <1>2, <1>3
-----------------------------------------------------------------------------
LEMMA StoreHolds ==
    ASSUME StoreOK, NEW r \in Asks, NEW fate \in Fates(r), Execute(r, fate)
    PROVE  StoreOK'
<1>1. PICK n \in Names : n = Resolve(r)
  BY ResolvesToName DEF StoreOK
<1>2. CASE r.mode \in SaveModes /\ exists' = Mkdirs(r, fate) /\ disk' = DoSave(r, fate)
           /\ saves' = saves + 1
  <2>1. exists' \subseteq Names
    BY <1>1, <1>2 DEF StoreOK, Mkdirs
  <2>2. saves' \in Nat
    BY <1>2 DEF StoreOK
  <2>3. CASE disk' = disk
    BY <2>1, <2>2, <2>3 DEF StoreOK, DiskOK
  <2>4. CASE disk' # disk
    <3>1. PICK W : disk' = [disk EXCEPT ![n] = [f \in Files |->
                     IF f \in W THEN Left(disk[n][f], saves + 1, fate[f]) ELSE disk[n][f]]]
      BY <1>1, <1>2, <2>4 DEF DoSave
    <3>2. PICK h : h = [f \in Files |->
                     IF f \in W THEN Left(disk[n][f], saves + 1, fate[f]) ELSE disk[n][f]]
      OBVIOUS
    <3>3. \A f \in Files : fate[f] \in {"done", "kept", "torn", "unflushed"}
      BY FatesAre
    <3>4. \A f \in Files : disk[n][f] \in Int /\ Left(disk[n][f], saves + 1, fate[f]) \in Int
      <4>1. \A f \in Files : disk[n][f] \in Int
        BY DEF StoreOK, DiskOK, Contents
      <4> QED  BY <3>3, <4>1 DEF Left, Torn, StoreOK
    <3>5. h \in [Files -> Int]
      BY <3>2, <3>4
    <3>6. disk' = [disk EXCEPT ![n] = h]
      BY <3>1, <3>2
    <3> QED  BY <2>1, <2>2, <3>5, <3>6 DEF StoreOK, DiskOK, Contents
  <2> QED  BY <2>3, <2>4
<1>3. CASE exists' = exists \ {n} /\ disk' = [disk EXCEPT ![n] = NoSave] /\ saves' = saves
  <2>1. NoSave \in [Files -> Int]
    BY DEF NoSave, NoFile
  <2> QED  BY <1>3, <2>1 DEF StoreOK, DiskOK, Contents
<1>4. CASE /\ disk' = IF r.data # "none" THEN [disk EXCEPT ![n] = [disk[n] EXCEPT ![Data] = NoFile]] ELSE disk
           /\ exists' = exists /\ saves' = saves
  <2>1. [disk[n] EXCEPT ![Data] = NoFile] \in [Files -> Int]
    <3>1. PICK g \in [Files -> Int] : g = disk[n]
      BY DEF StoreOK, DiskOK, Contents
    <3>2. \A c \in Int : [g EXCEPT ![Data] = c] \in [Files -> Int]
      BY <3>1, Zenon
    <3> QED  BY <3>1, <3>2 DEF NoFile
  <2> QED  BY <1>4, <2>1 DEF StoreOK, DiskOK, Contents
<1>5. CASE UNCHANGED saveVars
  BY <1>5 DEF StoreOK, DiskOK, saveVars
<1> QED
  <2>1. \/ r.mode \in SaveModes /\ exists' = Mkdirs(r, fate) /\ disk' = DoSave(r, fate)
           /\ saves' = saves + 1
        \/ exists' = exists \ {n} /\ disk' = [disk EXCEPT ![n] = NoSave] /\ saves' = saves
        \/ /\ disk' = IF r.data # "none" THEN [disk EXCEPT ![n] = [disk[n] EXCEPT ![Data] = NoFile]] ELSE disk
           /\ exists' = exists /\ saves' = saves
        \/ UNCHANGED saveVars
    BY <1>1 DEF Execute
  <2> QED  BY <1>2, <1>3, <1>4, <1>5, <2>1

(* While no dialog is up the model remembers no save.                      *)
NoDialog == {"idle", "oskWait", "oskDone", "oskClosing"}

(* The inductive invariant is the property, with the types of what is      *)
(* stored.                                                                 *)
SavedInv ==
    /\ StoreOK
    /\ game \in NoDialog => ~ last.ok
    /\ SaveThenLoad

LEMMA NothingSaved == ~ NoLast.ok
BY DEF NoLast

LEMMA SavedInit == DialogInit => SavedInv
<1> SUFFICES ASSUME DialogInit PROVE SavedInv
  OBVIOUS
<1>1. ~ last.ok
  BY NothingSaved DEF DialogInit, SaveInit
<1>2. StoreOK
  BY DEF DialogInit, SaveInit, StoreOK, DiskOK, Contents, NoSave, NoFile
<1> QED  BY <1>1, <1>2 DEF SavedInv, SaveThenLoad

(* Nothing but a dialog touches what is stored.                            *)
LEMMA LoadsAlike ==
    ASSUME exists' = exists, disk' = disk, NEW l
    PROVE  LoadResult(l)' = LoadResult(l) /\ Loaded(l)' = Loaded(l)
<1>1. Named(l)' = Named(l)
  BY DEF Named
<1>2. Found(l)' = Found(l)
  BY <1>1 DEF Found
<1>3. Resolve(l)' = Resolve(l)
  BY <1>1, <1>2 DEF Resolve, Listed
<1>4. Loaded(l)' = Loaded(l)
  BY <1>3 DEF Loaded
<1>5. LoadResult(l)' = LoadResult(l)
  <2>1. PICK n : n = Resolve(l)
    OBVIOUS
  <2>2. Resolve(l)' = n
    BY <1>3, <2>1
  <2> QED  BY <2>1, <2>2 DEF LoadResult
<1> QED  BY <1>4, <1>5

LEMMA SavedKept ==
    ASSUME SavedInv, UNCHANGED saveVars, game' \in NoDialog => game \in NoDialog
    PROVE  SavedInv'
<1>1. StoreOK'
  BY DEF SavedInv, saveVars, StoreOK, DiskOK
<1>2. SaveThenLoad'
  <2>1. exists' = exists /\ disk' = disk /\ saves' = saves /\ last' = last
    BY DEF saveVars
  <2>2. PICK l : l = AsLoad(last.req)
    OBVIOUS
  <2>3. AsLoad(last.req)' = l
    BY <2>1, <2>2 DEF AsLoad
  <2>4. LoadResult(l)' = LoadResult(l) /\ Loaded(l)' = Loaded(l)
    BY <2>1, LoadsAlike
  <2> QED  BY <2>1, <2>2, <2>3, <2>4 DEF SavedInv, SaveThenLoad
<1> QED  BY <1>1, <1>2 DEF SavedInv, saveVars

LEMMA SavedByDialog ==
    ASSUME SavedInv, NEW p \in Params, NEW r \in Asks, NEW fate \in Fates(r),
           SavedataInitStart(p, r, fate)
    PROVE  SavedInv'
<1>1. game = "idle" /\ game' = "wait" /\ Execute(r, fate)
  BY DEF SavedataInitStart, Start
<1>2. StoreOK'
  BY <1>1, StoreHolds DEF SavedInv
<1>3. SaveThenLoad'
  <2>1. CASE r.mode \in SaveModes
    <3>1. r.mode \notin DeleteModes /\ r.mode # "ERASE"
          /\ r.mode \notin LoadModes \cup {"SIZES", "LIST", "FILES"}
      BY <2>1 DEF SaveModes, DeleteModes, LoadModes
    <3> QED  BY <1>1, <2>1, <3>1, SaveStores DEF Execute, SavedInv
  <2>2. CASE r.mode \notin SaveModes
    <3>1. last' = last
      BY <1>1, <2>2 DEF Execute, saveVars
    <3>2. ~ last'.ok
      BY <1>1, <3>1 DEF SavedInv, NoDialog
    <3> QED  BY <3>2 DEF SaveThenLoad
  <2> QED  BY <2>1, <2>2
<1> QED  BY <1>1, <1>2, <1>3 DEF SavedInv, NoDialog

LEMMA SavedStep == SavedInv /\ [DialogNext]_dlgVars => SavedInv'
<1> SUFFICES ASSUME SavedInv, [DialogNext]_dlgVars PROVE SavedInv'
  OBVIOUS
<1>1. CASE \E p \in Params, r \in Requests(SaveLists) :
             \E fate \in Fates(r) : SavedataInitStart(p, r, fate)
  BY <1>1, SavedByDialog DEF Asks
<1>2. CASE \E p \in Params : MsgDialogInitStart(p)
  <2>1. UNCHANGED saveVars /\ game' = "wait"
    BY <1>2 DEF MsgDialogInitStart, Start
  <2> QED  BY <2>1, SavedKept DEF NoDialog
<1>3. CASE DlgGetStatus
  <2>1. CASE game' = "idle"
    <3>1. last' = NoLast /\ exists' = exists /\ disk' = disk /\ saves' = saves
      BY <1>3, <2>1 DEF DlgGetStatus
    <3>2. ~ last'.ok
      BY <3>1, NothingSaved
    <3> QED  BY <3>1, <3>2 DEF SavedInv, SaveThenLoad, StoreOK, DiskOK
  <2>2. CASE game' # "idle"
    <3>1. UNCHANGED saveVars
      BY <1>3, <2>2 DEF DlgGetStatus, saveVars
    <3>2. game' \in NoDialog => game \in NoDialog
      BY <1>3, <2>2 DEF DlgGetStatus, NoDialog
    <3> QED  BY <3>1, <3>2, SavedKept
  <2> QED  BY <2>1, <2>2
<1>4. CASE SavedataUpdate
  BY <1>4, SavedKept DEF SavedataUpdate
<1>5. CASE DlgShutdown
  <2>1. UNCHANGED saveVars /\ game' = "closing"
    BY <1>5 DEF DlgShutdown
  <2> QED  BY <2>1, SavedKept DEF NoDialog
<1>6. CASE OskInitStart
  <2>1. UNCHANGED saveVars /\ game = "idle"
    BY <1>6 DEF OskInitStart
  <2> QED  BY <2>1, SavedKept DEF NoDialog
<1>7. CASE OskGetStatus
  <2>1. UNCHANGED saveVars /\ (game' = game \/ game \in NoDialog)
    BY <1>7 DEF OskGetStatus, NoDialog
  <2> QED  BY <2>1, SavedKept
<1>8. CASE OskShutdown
  <2>1. UNCHANGED saveVars /\ game \in NoDialog
    BY <1>8 DEF OskShutdown, NoDialog
  <2> QED  BY <2>1, SavedKept
<1>9. CASE UNCHANGED dlgVars
  BY <1>9, SavedKept DEF dlgVars
<1> QED  BY <1>1, <1>2, <1>3, <1>4, <1>5, <1>6, <1>7, <1>8, <1>9 DEF DialogNext

(* What a save stored, a load with the same parameters finds, under the    *)
(* name the save resolved, and whole, although the names that exist have   *)
(* changed through it.                                                     *)
THEOREM SavesCanBeLoaded == DialogSpec => []SaveThenLoad
<1>1. DialogSpec => []SavedInv
  BY SavedInit, SavedStep, PTL DEF DialogSpec
<1>2. SavedInv => SaveThenLoad
  BY DEF SavedInv
<1> QED  BY <1>1, <1>2, PTL

-----------------------------------------------------------------------------

(* A dialog that is up, its record and the parameter block of its caller.  *)
WithDialog == {"wait", "done", "closing"}

DialogIs(st, t, p, r) == [status |-> st, tick |-> t, param |-> p, result |-> r]
IsRecord(d) == d = [f \in {"status", "tick", "param", "result"} |-> d[f]]

(* The inductive invariant.  From its start to its end the dialog has the  *)
(* block and the result of the game's own request, and once finished the   *)
(* result is in the block.                                                 *)
ResultInv ==
    /\ IsRecord(dlg)
    /\ block = [p \in Params |-> block[p]]
    /\ game \in WithDialog => dlg.param \in Params
    /\ game = "wait" => /\ dlg.status \in {INITIALIZE, RUNNING, FINISHED}
                        /\ dlg.result = goal
                        /\ dlg.status = FINISHED => block[dlg.param] = goal
    /\ game = "done" => dlg.status = FINISHED /\ block[dlg.param] = goal

(* Setting up a dialog.                                                    *)
LEMMA DialogFields ==
    ASSUME NEW st, NEW t, NEW p, NEW r, NEW d, d = DialogIs(st, t, p, r)
    PROVE  d.status = st /\ d.param = p /\ d.result = r /\ IsRecord(d)
BY DEF DialogIs, IsRecord

LEMMA StatusSet ==
    ASSUME NEW d, IsRecord(d), NEW st, NEW e, e = [d EXCEPT !.status = st]
    PROVE  e.status = st /\ e.param = d.param /\ e.result = d.result /\ IsRecord(e)
BY DEF IsRecord

LEMMA ResultInit == DialogInit => ResultInv
<1> SUFFICES ASSUME DialogInit PROVE ResultInv
  OBVIOUS
<1>1. block = [p \in Params |-> block[p]]
  BY DEF DialogInit, Unset
<1>2. dlg = DialogIs(NONE, 0, NoParam, "ok")
  BY DEF DialogInit, DialogIs
<1>3. IsRecord(dlg)
  BY <1>2, DialogFields
<1> QED  BY <1>1, <1>3 DEF DialogInit, ResultInv, WithDialog

LEMMA Started ==
    ASSUME ResultInv, NEW p \in Params, NEW r, Start(p, r)
    PROVE  ResultInv'
<1>1. /\ dlg' = DialogIs(INITIALIZE, 0, p, r)
      /\ game' = "wait" /\ goal' = r /\ block' = Unset
  BY DEF Start, DialogIs
<1>2. block' = [q \in Params |-> block'[q]]
  BY <1>1 DEF Unset
<1>3. dlg'.status = INITIALIZE /\ dlg'.param = p /\ dlg'.result = r /\ IsRecord(dlg')
  BY <1>1, DialogFields
<1> QED  BY <1>1, <1>2, <1>3 DEF ResultInv, INITIALIZE, FINISHED

(* A poll advances the status, and nothing else but the count.             *)
Opened == [dlg EXCEPT !.status = RUNNING, !.tick = 0]
Ticked == [dlg EXCEPT !.tick = dlg.tick + 1,
                      !.status = IF dlg.tick + 1 > Polls THEN FINISHED ELSE RUNNING]
Gone   == [dlg EXCEPT !.status = NONE]

LEMMA AdvancedIs ==
    DlgAdvanced = CASE dlg.status = INITIALIZE -> Opened
                    [] dlg.status = RUNNING -> Ticked
                    [] dlg.status = SHUTDOWN -> Gone
                    [] OTHER -> dlg
BY DEF DlgAdvanced, Opened, Ticked, Gone

LEMMA ArmsAre ==
    ASSUME IsRecord(dlg)
    PROVE  /\ Opened.param = dlg.param /\ Opened.result = dlg.result /\ IsRecord(Opened)
           /\ Opened.status = RUNNING
           /\ Ticked.param = dlg.param /\ Ticked.result = dlg.result /\ IsRecord(Ticked)
           /\ Ticked.status \in {RUNNING, FINISHED}
           /\ Gone.param = dlg.param /\ Gone.result = dlg.result /\ IsRecord(Gone)
           /\ Gone.status = NONE
<1>1. /\ Opened.param = dlg.param /\ Opened.result = dlg.result /\ IsRecord(Opened)
      /\ Opened.status = RUNNING
  BY DEF Opened, IsRecord
<1>2. /\ Ticked.param = dlg.param /\ Ticked.result = dlg.result /\ IsRecord(Ticked)
      /\ Ticked.status \in {RUNNING, FINISHED}
  BY DEF Ticked, IsRecord
<1>3. /\ Gone.param = dlg.param /\ Gone.result = dlg.result /\ IsRecord(Gone)
      /\ Gone.status = NONE
  BY DEF Gone, IsRecord
<1> QED  BY <1>1, <1>2, <1>3

LEMMA PollIs ==
    ASSUME IsRecord(dlg), NEW e, e = DlgAdvanced
    PROVE  /\ e.param = dlg.param /\ e.result = dlg.result /\ IsRecord(e)
           /\ e.status = dlg.status \/ <<dlg.status, e.status>> \in
                {<<INITIALIZE, RUNNING>>, <<RUNNING, FINISHED>>, <<SHUTDOWN, NONE>>}
<1>1. CASE dlg.status = INITIALIZE
  <2>1. e = Opened
    BY <1>1, AdvancedIs DEF RUNNING, INITIALIZE, SHUTDOWN
  <2> QED  BY <1>1, <2>1, ArmsAre
<1>2. CASE dlg.status = RUNNING
  <2>1. e = Ticked
    BY <1>2, AdvancedIs DEF RUNNING, INITIALIZE, SHUTDOWN
  <2> QED  BY <1>2, <2>1, ArmsAre
<1>3. CASE dlg.status = SHUTDOWN
  <2>1. e = Gone
    BY <1>3, AdvancedIs DEF RUNNING, INITIALIZE, SHUTDOWN
  <2> QED  BY <1>3, <2>1, ArmsAre
<1>4. CASE dlg.status \notin {INITIALIZE, RUNNING, SHUTDOWN}
  BY <1>4, AdvancedIs
<1> QED  BY <1>1, <1>2, <1>3, <1>4

LEMMA BlockType ==
    ASSUME block = [p \in Params |-> block[p]]
    PROVE  /\ Finish = [p \in Params |-> Finish[p]]
           /\ dlg.param \in Params => Finish[dlg.param] = dlg.result
           /\ Unset = [p \in Params |-> Unset[p]]
BY DEF Finish, Unset

(* One poll of the status, whatever the dialog was at.                     *)
LEMMA Polled ==
    ASSUME ResultInv, DlgGetStatus
    PROVE  ResultInv'
<1>1. dlg' = DlgAdvanced
  BY DEF DlgGetStatus
<1>2. PICK s : s = DlgAdvanced.status
  OBVIOUS
<1>3. /\ dlg'.status = s /\ dlg'.param = dlg.param /\ dlg'.result = dlg.result /\ IsRecord(dlg')
      /\ s = dlg.status \/ <<dlg.status, s>> \in
           {<<INITIALIZE, RUNNING>>, <<RUNNING, FINISHED>>, <<SHUTDOWN, NONE>>}
  BY <1>1, <1>2, PollIs DEF ResultInv
<1>4. block' = [p \in Params |-> block'[p]]
  <2>1. block' = Unset \/ block' = Finish \/ block' = block
    BY DEF DlgGetStatus
  <2> QED  BY <2>1, BlockType DEF ResultInv
<1>5. CASE game' = "idle"
  BY <1>3, <1>4, <1>5 DEF ResultInv, WithDialog
<1>6. CASE game' # "idle"
  <2>1. /\ goal' = goal
        /\ block' = IF dlg.status = RUNNING /\ s = FINISHED THEN Finish ELSE block
    BY <1>2, <1>6 DEF DlgGetStatus
  <2>2. \/ game = "wait" /\ dlg.status = FINISHED /\ game' = "done"
        \/ game' = game /\ ~ (game = "wait" /\ dlg.status = FINISHED)
    BY <1>6 DEF DlgGetStatus
  <2>3. game \in WithDialog => dlg.param \in Params
    BY DEF ResultInv
  <2>4. game' \in WithDialog => game \in WithDialog
    BY <2>2 DEF WithDialog
  <2>5. game' = "wait" => /\ dlg'.status \in {INITIALIZE, RUNNING, FINISHED}
                          /\ dlg'.result = goal'
                          /\ dlg'.status = FINISHED => block'[dlg'.param] = goal'
    <3> SUFFICES ASSUME game' = "wait"
                 PROVE  /\ dlg'.status \in {INITIALIZE, RUNNING, FINISHED}
                        /\ dlg'.result = goal'
                        /\ dlg'.status = FINISHED => block'[dlg'.param] = goal'
      OBVIOUS
    <3>1. game = "wait" /\ dlg.status \in {INITIALIZE, RUNNING}
      BY <2>2 DEF ResultInv
    <3>2. dlg.result = goal /\ dlg.param \in Params
      BY <3>1 DEF ResultInv, WithDialog
    <3>3. Finish[dlg.param] = dlg.result
      BY <3>2, BlockType DEF ResultInv
    <3>4. s \in {INITIALIZE, RUNNING, FINISHED} /\ (s = FINISHED => dlg.status = RUNNING)
      BY <1>3, <3>1 DEF INITIALIZE, RUNNING, FINISHED, SHUTDOWN
    <3> QED  BY <1>3, <2>1, <3>2, <3>3, <3>4
  <2>6. game' = "done" => dlg'.status = FINISHED /\ block'[dlg'.param] = goal'
    <3> SUFFICES ASSUME game' = "done" PROVE dlg'.status = FINISHED /\ block'[dlg'.param] = goal'
      OBVIOUS
    <3>1. dlg.status = FINISHED /\ block[dlg.param] = goal
      BY <2>2 DEF ResultInv
    <3>2. s = FINISHED
      BY <1>3, <3>1 DEF INITIALIZE, RUNNING, FINISHED, SHUTDOWN
    <3> QED  BY <1>3, <2>1, <3>1, <3>2 DEF FINISHED, RUNNING
  <2> QED  BY <1>3, <1>4, <2>3, <2>4, <2>5, <2>6 DEF ResultInv
<1> QED  BY <1>5, <1>6

LEMMA Unaffected ==
    ASSUME ResultInv, UNCHANGED <<dlg, block, goal>>, game' = game \/ game' \notin WithDialog
    PROVE  ResultInv'
BY DEF ResultInv, WithDialog

LEMMA ResultStep == ResultInv /\ [DialogNext]_dlgVars => ResultInv'
<1> SUFFICES ASSUME ResultInv, [DialogNext]_dlgVars PROVE ResultInv'
  OBVIOUS
<1>1. CASE \E p \in Params, r \in Requests(SaveLists) :
             \E fate \in Fates(r) : SavedataInitStart(p, r, fate)
  BY <1>1, Started DEF SavedataInitStart
<1>2. CASE \E p \in Params : MsgDialogInitStart(p)
  BY <1>2, Started DEF MsgDialogInitStart
<1>3. CASE DlgGetStatus
  BY <1>3, Polled
<1>4. CASE SavedataUpdate
  <2>1. dlg' = [dlg EXCEPT !.status = FINISHED]
    BY <1>4 DEF SavedataUpdate
  <2>2. /\ dlg'.status = FINISHED /\ dlg'.param = dlg.param /\ dlg'.result = dlg.result
        /\ IsRecord(dlg')
    BY <2>1, StatusSet DEF ResultInv
  <2>3. block' = Finish /\ game' = game /\ goal' = goal /\ dlg.status = RUNNING
    BY <1>4 DEF SavedataUpdate
  <2>4. /\ Finish = [p \in Params |-> Finish[p]]
        /\ dlg.param \in Params => Finish[dlg.param] = dlg.result
    BY BlockType DEF ResultInv
  <2>5. game # "done"
    BY <2>3 DEF ResultInv, FINISHED, RUNNING
  <2>6. block' = [p \in Params |-> block'[p]]
    BY <2>3, <2>4
  <2> QED  BY <2>1, <2>2, <2>3, <2>4, <2>5, <2>6 DEF ResultInv, WithDialog
<1>5. CASE DlgShutdown
  <2>1. dlg' = [dlg EXCEPT !.status = SHUTDOWN]
    BY <1>5 DEF DlgShutdown
  <2>2. /\ dlg'.status = SHUTDOWN /\ dlg'.param = dlg.param /\ dlg'.result = dlg.result
        /\ IsRecord(dlg')
    BY <2>1, StatusSet DEF ResultInv
  <2>3. block' = block /\ game \in WithDialog /\ game' = "closing" /\ goal' = goal
    BY <1>5 DEF DlgShutdown, WithDialog
  <2> QED  BY <2>1, <2>2, <2>3 DEF ResultInv
<1>6. CASE OskInitStart
  BY <1>6, Unaffected DEF OskInitStart, WithDialog
<1>7. CASE OskGetStatus
  BY <1>7, Unaffected DEF OskGetStatus, WithDialog
<1>8. CASE OskShutdown
  BY <1>8, Unaffected DEF OskShutdown, WithDialog
<1>9. CASE UNCHANGED dlgVars
  BY <1>9, Unaffected DEF dlgVars
<1> QED  BY <1>1, <1>2, <1>3, <1>4, <1>5, <1>6, <1>7, <1>8, <1>9 DEF DialogNext

(* When a dialog says that it is finished, the parameter block its caller  *)
(* reads has the result of this very request.                              *)
THEOREM DialogsReturnOwnResult == DialogSpec => []FinishedMeansOwnResult
<1>1. DialogSpec => []ResultInv
  BY ResultInit, ResultStep, PTL DEF DialogSpec
<1>2. ResultInv => FinishedMeansOwnResult
  BY DEF ResultInv, FinishedMeansOwnResult
<1> QED  BY <1>1, <1>2, PTL

-----------------------------------------------------------------------------
(* Output, for any size of the ring, of a block and of what the channels   *)
(* queue.                                                                  *)

(* A frame of a channel, so many frames from the one next played.          *)
Frame(c, x) == [ch |-> c, at |-> x]

LEMMA FrameIs ==
    ASSUME NEW c, NEW x
    PROVE  Frame(c, x).ch = c /\ Frame(c, x).at = x
BY DEF Frame

Later(f, n) == [f EXCEPT !.at = f.at - n]

(* A cell's frame is one meant for it.                                     *)
MeantFor(f, i) ==
    /\ f = Frame(f.ch, f.at)
    /\ f.ch \in Channels /\ f.at \in Cells
    /\ (pos + f.at) % RING_FRAMES = i
    /\ f.at < lead[f.ch]

(* The channels.                                                           *)
ChanOK == chan \in [Channels -> [used : BOOLEAN, len : Nat]]

(* The inductive invariant.  A cell holds only frames that are due when it *)
(* is played, each less far ahead than its channel has queued.             *)
RingInv ==
    /\ pos \in Cells
    /\ lead \in [Channels -> Behind..RING_FRAMES]
    /\ cell = [i \in Cells |-> cell[i]]
    /\ \A i \in Cells : \A f \in cell[i] : MeantFor(f, i)
    /\ ChanOK

LEMMA RingSizes == RING_FRAMES \in Nat \ {0} /\ BLOCK_FRAMES \in Nat \ {0} /\ Lens \subseteq Nat \ {0}
BY AudioAssumption

LEMMA RingInit == AudioInit => RingInv
<1> SUFFICES ASSUME AudioInit PROVE RingInv
  OBVIOUS
<1>1. pos \in Cells /\ lead \in [Channels -> Behind..RING_FRAMES]
  BY RingSizes DEF AudioInit, Cells, Behind
<1>2. ChanOK
  BY DEF AudioInit, ChanOK
<1>3. cell = [i \in Cells |-> cell[i]] /\ \A i \in Cells : cell[i] = {}
  BY DEF AudioInit
<1> QED  BY <1>1, <1>2, <1>3 DEF RingInv

(* A push that mixes m frames from w on.                                   *)
LEMMA PushRoom ==
    ASSUME RingInv, NEW c \in Channels, NEW n \in Nat
    PROVE  /\ Begin(c) \in 0..RING_FRAMES /\ Begin(c) >= lead[c]
           /\ Room(c, n) \in Nat /\ Begin(c) + Room(c, n) \in 0..RING_FRAMES
<1>1. lead[c] \in Behind..RING_FRAMES
  BY DEF RingInv
<1>2. Begin(c) \in 0..RING_FRAMES /\ Begin(c) >= lead[c]
  BY <1>1, RingSizes DEF Begin, Behind
<1> QED  BY <1>2, RingSizes DEF Room

(* Queueing: the frames follow those the channel queued before.            *)
LEMMA PushHolds ==
    ASSUME RingInv, NEW c \in Channels, NEW n \in Nat, Push(c, n), UNCHANGED <<pos, chan>>
    PROVE  RingInv'
<1>1. PICK w, m : w = Begin(c) /\ m = Room(c, n)
  OBVIOUS
<1>2. w \in 0..RING_FRAMES /\ w >= lead[c] /\ m \in Nat /\ w + m \in 0..RING_FRAMES
  BY <1>1, PushRoom
<1>3. /\ cell' = [i \in Cells |->
                    cell[i] \cup {[ch |-> c, at |-> f] :
                      f \in {w + k : k \in {j \in 0..m - 1 : (pos + w + j) % RING_FRAMES = i}}}]
      /\ lead' = [lead EXCEPT ![c] = w + m]
  BY <1>1 DEF Push
<1>4. lead' \in [Channels -> Behind..RING_FRAMES] /\ lead'[c] = w + m
  BY <1>2, <1>3, RingSizes DEF RingInv, Behind
<1>5. \A d \in Channels : lead'[d] >= lead[d]
  BY <1>2, <1>3, RingSizes DEF RingInv, Behind
<1>6. ASSUME NEW i \in Cells, NEW f \in cell'[i] PROVE MeantFor(f, i)'
  <2>1. CASE f \in cell[i]
    <3>1. MeantFor(f, i)
      BY <2>1 DEF RingInv
    <3>2. lead'[f.ch] >= lead[f.ch] /\ lead[f.ch] \in Int /\ lead'[f.ch] \in Int /\ f.at \in Int
      BY <1>4, <1>5, <3>1, RingSizes DEF MeantFor, RingInv, Behind, Cells
    <3> QED  BY <3>1, <3>2 DEF MeantFor
  <2>2. CASE f \notin cell[i]
    <3>1. PICK k \in 0..m - 1 : f = Frame(c, w + k) /\ (pos + w + k) % RING_FRAMES = i
      BY <1>3, <2>2 DEF Frame
    <3>2. f.ch = c /\ f.at = w + k
      BY <3>1, FrameIs
    <3>3. w + k \in Cells /\ w + k < lead'[c]
      BY <1>2, <1>4, RingSizes DEF Cells
    <3>4. pos + (w + k) = pos + w + k
      BY <1>2, RingSizes DEF RingInv, Cells
    <3> QED  BY <3>1, <3>2, <3>3, <3>4 DEF MeantFor
  <2> QED  BY <2>1, <2>2
<1>7. cell' = [i \in Cells |-> cell'[i]]
  BY <1>3
<1> QED  BY <1>4, <1>6, <1>7 DEF RingInv, ChanOK

(* Positions in the ring, as it turns.                                     *)
LEMMA DivideWith ==
    ASSUME NEW R \in Nat \ {0}, NEW n \in Int
    PROVE  \E q \in Int, r \in 0..R - 1 : n % R = r /\ n = R * q + r
<1>1. PICK q : q = n \div R
  OBVIOUS
<1>2. PICK r : r = n % R
  OBVIOUS
<1>3. q \in Int /\ r \in 0..R - 1 /\ n = R * q + r
  BY <1>1, <1>2
<1> QED  BY <1>2, <1>3

LEMMA RemainderIs ==
    ASSUME NEW R \in Nat \ {0}, NEW q \in Int, NEW r \in 0..R - 1
    PROVE  (R * q + r) % R = r
OBVIOUS

LEMMA RingTurns ==
    ASSUME NEW R \in Nat \ {0}, NEW p \in 0..R - 1, NEW b \in Nat, NEW a \in Nat, b <= a
    PROVE  (((p + b) % R) + (a - b)) % R = (p + a) % R
<1>1. PICK q \in Int, r \in 0..R - 1 : (p + b) % R = r /\ p + b = R * q + r
  <2>1. p + b \in Int
    OBVIOUS
  <2> QED  BY <2>1, DivideWith
<1>2. PICK s \in Int, t \in 0..R - 1 : (p + a) % R = t /\ p + a = R * s + t
  <2>1. p + a \in Int
    OBVIOUS
  <2> QED  BY <2>1, DivideWith
<1>3. PICK d \in Int : d = s - q
  OBVIOUS
<1>4. r + (a - b) = R * d + t
  <2>1. R * d = R * s - R * q
    BY <1>3
  <2> QED  BY <1>1, <1>2, <2>1
<1>5. (R * d + t) % R = t
  BY RemainderIs
<1> QED  BY <1>1, <1>2, <1>4, <1>5

(* Playing a block: what is left is so many frames nearer.                 *)
LEMMA FeedHolds ==
    ASSUME RingInv, Feed
    PROVE  RingInv'
<1>1. PICK B, R : B = BLOCK_FRAMES /\ R = RING_FRAMES /\ B \in Nat \ {0} /\ R \in Nat \ {0}
  BY RingSizes
<1>2. /\ pos' = (pos + B) % R
      /\ lead' = [c \in Channels |-> IF lead[c] < B THEN Behind ELSE lead[c] - B]
      /\ cell' = [i \in Cells |-> IF \E k \in 0..B - 1 : (pos + k) % R = i THEN {}
                                  ELSE {Later(f, B) : f \in cell[i]}]
      /\ chan' = chan
  BY <1>1 DEF Feed, Later
<1>3. pos' \in Cells
  BY <1>1, <1>2 DEF RingInv, Cells
<1>4. lead' \in [Channels -> Behind..RING_FRAMES]
  BY <1>1, <1>2 DEF RingInv, Behind
<1>5. ASSUME NEW i \in Cells, NEW g \in cell'[i] PROVE MeantFor(g, i)'
  <2>1. PICK f \in cell[i] : g = Later(f, B)
    BY <1>2
  <2>2. MeantFor(f, i) /\ \A k \in 0..B - 1 : (pos + k) % R # i
    BY <1>2 DEF RingInv
  <2>3. PICK c \in Channels, x \in Cells : f = Frame(c, x) /\ f.ch = c /\ f.at = x
    BY <2>2 DEF MeantFor
  <2>4. x >= B /\ x \in Nat /\ x < R
    BY <1>1, <2>2, <2>3 DEF MeantFor, Cells
  <2>5. g = Frame(c, x - B)
    <3>1. Later(Frame(c, x), B) = Frame(c, x - B)
      BY DEF Later, Frame
    <3> QED  BY <2>1, <2>3, <3>1
  <2>6. g.ch = c /\ g.at = x - B
    BY <2>5, FrameIs
  <2>7. (pos' + (x - B)) % R = i
    <3>1. pos \in 0..R - 1
      BY <1>1 DEF RingInv, Cells
    <3>2. (((pos + B) % R) + (x - B)) % R = (pos + x) % R
      BY <1>1, <2>4, <3>1, RingTurns
    <3> QED  BY <1>1, <1>2, <2>2, <2>3, <3>2 DEF MeantFor
  <2>8. x - B \in Cells
    BY <1>1, <2>4 DEF Cells
  <2>9. x - B < lead'[c]
    <3>1. lead[c] \in Int /\ x < lead[c]
      BY <1>1, <2>2, <2>3 DEF MeantFor, RingInv, Behind
    <3> QED  BY <1>1, <1>2, <2>4, <3>1
  <2> QED  BY <1>1, <2>3, <2>5, <2>6, <2>7, <2>8, <2>9 DEF MeantFor
<1>6. cell' = [i \in Cells |-> cell'[i]]
  BY <1>2
<1> QED  BY <1>2, <1>3, <1>4, <1>5, <1>6 DEF RingInv, ChanOK

LEMMA RingKept ==
    ASSUME RingInv, UNCHANGED <<pos, lead, cell>>, ChanOK'
    PROVE  RingInv'
BY DEF RingInv, MeantFor

LEMMA RingStep == RingInv /\ [AudioNext]_audioVars => RingInv'
<1> SUFFICES ASSUME RingInv, [AudioNext]_audioVars PROVE RingInv'
  OBVIOUS
<1>0. ChanOK
  BY DEF RingInv
<1>1. ASSUME NEW c \in Channels, NEW n \in Lens, ChReserve(c, n) \/ SetChannelDataLen(c, n)
      PROVE  RingInv'
  <2>1. n \in Nat
    BY RingSizes
  <2>2. ChanOK'
    <3>1. PICK r \in [used : BOOLEAN, len : Nat] : r = chan[c]
      BY <1>0 DEF ChanOK
    <3>2. PICK s \in [used : BOOLEAN, len : Nat] : chan' = [chan EXCEPT ![c] = s]
      <4>1. CASE ChReserve(c, n)
        <5>1. [used |-> TRUE, len |-> n] \in [used : BOOLEAN, len : Nat]
          BY <2>1
        <5> QED  BY <4>1, <5>1 DEF ChReserve
      <4>2. CASE SetChannelDataLen(c, n)
        <5>1. [r EXCEPT !.len = n] \in [used : BOOLEAN, len : Nat]
          BY <2>1
        <5>2. chan' = [chan EXCEPT ![c] = [r EXCEPT !.len = n]]
          BY <3>1, <4>2 DEF SetChannelDataLen
        <5> QED  BY <5>1, <5>2
      <4> QED  BY <1>1, <4>1, <4>2
    <3> QED  BY <1>0, <3>2 DEF ChanOK
  <2> QED  BY <1>1, <2>2, RingKept DEF ChReserve, SetChannelDataLen
<1>2. ASSUME NEW c \in Channels, ChRelease(c) PROVE RingInv'
  <2>1. ChanOK'
    <3>1. PICK r \in [used : BOOLEAN, len : Nat] : r = chan[c]
      BY <1>0 DEF ChanOK
    <3>2. [r EXCEPT !.used = FALSE] \in [used : BOOLEAN, len : Nat]
      OBVIOUS
    <3>3. chan' = [chan EXCEPT ![c] = [r EXCEPT !.used = FALSE]]
      BY <1>2, <3>1 DEF ChRelease
    <3> QED  BY <1>0, <3>2, <3>3 DEF ChanOK
  <2> QED  BY <1>2, <2>1, RingKept DEF ChRelease
<1>3. ASSUME NEW c \in Channels, Output(c) PROVE RingInv'
  <2>1. chan' = chan /\ pos' = pos /\ ChanOK' /\ chan[c].len \in Nat
    BY <1>0, <1>3 DEF Output, ChanOK
  <2>2. CASE UNCHANGED <<lead, cell>>
    BY <2>1, <2>2, RingKept
  <2>3. CASE Push(c, chan[c].len)
    BY <2>1, <2>3, PushHolds
  <2> QED  BY <1>3, <2>2, <2>3 DEF Output
<1>4. ASSUME NEW c \in Channels, Resume(c) PROVE RingInv'
  BY <1>0, <1>4, RingKept DEF Resume, ChanOK
<1>5. CASE Feed
  BY <1>5, FeedHolds
<1>6. CASE Played
  BY <1>0, <1>6, RingKept DEF Played, ChanOK
<1>7. CASE UNCHANGED audioVars
  BY <1>0, <1>7, RingKept DEF audioVars, ChanOK
<1> QED  BY <1>1, <1>2, <1>3, <1>4, <1>5, <1>6, <1>7 DEF AudioNext

(* Whatever the channels queue and the device takes, a frame is mixed with *)
(* the frames that are due with it.                                        *)
THEOREM FramesArePlayedWhenDue == AudioSpec => []MixedForItsFrame
<1>1. AudioSpec => []RingInv
  BY RingInit, RingStep, PTL DEF AudioSpec
<1>2. RingInv => MixedForItsFrame
  BY DEF RingInv, MeantFor, MixedForItsFrame
<1> QED  BY <1>1, <1>2, PTL

-----------------------------------------------------------------------------
(* Voices, for any streams of blocks, pitches and grains.                  *)

(* A voice's record.                                                       *)
VoiceFields == {"on", "vag", "pos", "loop", "pitch", "bufn", "bufi", "frac", "block", "due", "skipped"}
IsVoice(v) == v = [f \in VoiceFields |-> v[f]]

(* The block after the one being played.                                   *)
Following(v) == IF v.vag[v.block + 1] = "loop" /\ v.loop >= 0 THEN v.loop ELSE v.block + 1

(* The invariant of one voice.  The next block decoded is the one that     *)
(* follows, and the sample due is the next of the block at hand, or the    *)
(* first of the next.                                                      *)
InOrder(v) ==
    /\ IsVoice(v)
    /\ v.pos \in Nat /\ v.loop \in Int /\ v.pitch \in Nat /\ v.bufi \in Nat /\ v.frac \in Nat
    /\ v.bufn \in {0, SAMPLES}
    /\ v.bufn = SAMPLES => v.block \in Nat /\ v.pos = Following(v)
    /\ v.due = IF v.bufi < v.bufn THEN v.block * SAMPLES + v.bufi ELSE v.pos * SAMPLES
    /\ v.skipped = FALSE

LEMMA SasSizes == SAMPLES \in Nat \ {0} /\ Native \in Nat \ {0} /\ Pitches \subseteq Nat /\ Grains \subseteq Nat
BY SasAssumption

(* A voice that is off.                                                    *)
LEMMA SilentIs ==
    /\ IsVoice(Silent)
    /\ Silent.pos = 0 /\ Silent.loop = -1 /\ Silent.pitch = Native /\ Silent.bufn = 0
    /\ Silent.bufi = 0 /\ Silent.frac = 0 /\ Silent.due = 0 /\ Silent.skipped = FALSE
BY DEF Silent, IsVoice, VoiceFields, None

LEMMA SilentInOrder == InOrder(Silent)
BY SilentIs, SasSizes DEF InOrder

(* The voice when its next block is decoded.                               *)
LEMMA DecodedIs ==
    ASSUME NEW v, IsVoice(v), NEW w, w = Decoded(v)
    PROVE  /\ IsVoice(w)
           /\ w.on = v.on /\ w.vag = v.vag /\ w.pitch = v.pitch /\ w.frac = v.frac
           /\ w.due = v.due /\ w.skipped = v.skipped
           /\ w.bufn = SAMPLES /\ w.bufi = 0 /\ w.block = v.pos
           /\ w.loop = IF Flags(v) = "start" THEN v.pos ELSE v.loop
           /\ w.pos = IF Flags(v) = "loop" /\ w.loop >= 0 THEN w.loop ELSE v.pos + 1
<1>1. PICK l : l = IF Flags(v) = "start" THEN v.pos ELSE v.loop
  OBVIOUS
<1>2. PICK p : p = IF Flags(v) = "loop" /\ l >= 0 THEN l ELSE v.pos + 1
  OBVIOUS
<1>3. w = [v EXCEPT !.loop = l, !.block = v.pos, !.pos = p, !.bufn = SAMPLES, !.bufi = 0]
  BY <1>1, <1>2 DEF Decoded
<1>4. /\ IsVoice(w)
      /\ w.on = v.on /\ w.vag = v.vag /\ w.pitch = v.pitch /\ w.frac = v.frac
      /\ w.due = v.due /\ w.skipped = v.skipped
      /\ w.bufn = SAMPLES /\ w.bufi = 0 /\ w.block = v.pos /\ w.loop = l /\ w.pos = p
  BY <1>3 DEF IsVoice, VoiceFields
<1> QED  BY <1>1, <1>2, <1>4

(* One output sample moves the voice on by as many samples as its pitch    *)
(* adds up to.                                                             *)
Resampled(w, frac, step, due, skipped) ==
    [w EXCEPT !.frac = frac, !.bufi = w.bufi + step, !.due = due, !.skipped = skipped]

LEMMA ResampledIs ==
    ASSUME NEW w, IsVoice(w), NEW frac, NEW step, NEW due, NEW skipped,
           NEW x, x = Resampled(w, frac, step, due, skipped)
    PROVE  /\ IsVoice(x)
           /\ x.on = w.on /\ x.vag = w.vag /\ x.pitch = w.pitch /\ x.pos = w.pos
           /\ x.loop = w.loop /\ x.bufn = w.bufn /\ x.block = w.block
           /\ x.frac = frac /\ x.bufi = w.bufi + step /\ x.due = due /\ x.skipped = skipped
BY DEF Resampled, IsVoice, VoiceFields

LEMMA BlockOf ==
    ASSUME NEW S \in Nat \ {0}, NEW b \in Nat, NEW x \in Nat
    PROVE  (b * S + x) \div S = b <=> x < S
<1>1. PICK q \in Int, r \in 0..S - 1 : q = (b * S + x) \div S /\ b * S + x = S * q + r
  <2>1. PICK n : n = b * S + x /\ n \in Nat
    OBVIOUS
  <2>2. PICK q : q = n \div S
    OBVIOUS
  <2>3. PICK r : r = n % S
    OBVIOUS
  <2>4. q \in Int /\ r \in 0..S - 1 /\ n = S * q + r
    BY <2>1, <2>2, <2>3
  <2> QED  BY <2>1, <2>2, <2>4
<1>2. ASSUME q = b PROVE x < S
  BY <1>1, <1>2
<1>3. ASSUME x < S PROVE q = b
  <2>1. PICK d \in Int : d = q - b
    OBVIOUS
  <2>2. S * d = x - r
    BY <1>1, <2>1
  <2>3. d < 1 /\ d > -1
    BY <1>3, <2>2
  <2> QED  BY <2>1, <2>3
<1> QED  BY <1>1, <1>2, <1>3

(* A turn from the sample s that is due to the next.                       *)
LEMMA TurnInOrder ==
    ASSUME NEW w, IsVoice(w), w.bufn = SAMPLES, w.bufi \in Nat, w.bufi < SAMPLES,
           w.block \in Nat, w.pos \in Nat, w.loop \in Int, w.pitch \in Nat, w.frac \in Nat,
           w.pos = Following(w), w.due = w.block * SAMPLES + w.bufi, w.skipped = FALSE,
           NEW x,
           x = Resampled(w, (w.frac + w.pitch) % Native, (w.frac + w.pitch) \div Native,
                      After(w, w.block * SAMPLES + w.bufi, (w.frac + w.pitch) \div Native),
                      w.skipped \/ w.block * SAMPLES + w.bufi # w.due)
    PROVE  InOrder(x)
<1>1. PICK step : step = (w.frac + w.pitch) \div Native
  OBVIOUS
<1>2. PICK frac : frac = (w.frac + w.pitch) % Native
  OBVIOUS
<1>3. step \in Nat /\ frac \in Nat
  BY <1>1, <1>2, SasSizes
<1>4. PICK s : s = w.block * SAMPLES + w.bufi
  OBVIOUS
<1>5. PICK due : due = After(w, s, step)
  OBVIOUS
<1>6. PICK sk : sk = (w.skipped \/ s # w.due)
  OBVIOUS
<1>7. x = Resampled(w, frac, step, due, sk)
  BY <1>1, <1>2, <1>4, <1>5, <1>6
<1>8. /\ IsVoice(x)
      /\ x.vag = w.vag /\ x.pitch = w.pitch /\ x.pos = w.pos
      /\ x.loop = w.loop /\ x.bufn = w.bufn /\ x.block = w.block
      /\ x.frac = frac /\ x.bufi = w.bufi + step /\ x.due = due /\ x.skipped = sk
  BY <1>7, ResampledIs
<1>9. sk = FALSE
  BY <1>4, <1>6
<1>10. Following(x) = Following(w)
  BY <1>8 DEF Following
<1>11. s \div SAMPLES = w.block
  BY <1>4, SasSizes, BlockOf
<1>12. s + step = w.block * SAMPLES + (w.bufi + step)
  BY <1>3, <1>4, SasSizes
<1>13. (s + step) \div SAMPLES = w.block <=> w.bufi + step < SAMPLES
  <2>1. w.bufi + step \in Nat
    BY <1>3
  <2> QED  BY <1>12, <2>1, SasSizes, BlockOf
<1>14. due = IF w.bufi + step < SAMPLES THEN w.block * SAMPLES + (w.bufi + step) ELSE w.pos * SAMPLES
  <2>1. SAMPLES * w.pos = w.pos * SAMPLES
    BY SasSizes
  <2>2. due = IF (s + step) \div SAMPLES = w.block THEN s + step ELSE SAMPLES * Following(w)
    BY <1>5, <1>11 DEF After, Following
  <2> QED  BY <1>12, <1>13, <2>1, <2>2
<1> QED  BY <1>3, <1>8, <1>9, <1>10, <1>14, SasSizes DEF InOrder

LEMMA MixedInOrder ==
    ASSUME NEW v, InOrder(v)
    PROVE  InOrder(Mixed(v))
<1>1. CASE ~ v.on
  BY <1>1 DEF Mixed
<1>2. CASE v.on /\ v.bufi >= v.bufn /\ ~ HasBlock(v)
  <2>1. PICK x : x = [v EXCEPT !.on = FALSE]
    OBVIOUS
  <2>2. Mixed(v) = x
    BY <1>2, <2>1 DEF Mixed
  <2>3. /\ IsVoice(x)
        /\ x.vag = v.vag /\ x.pitch = v.pitch /\ x.pos = v.pos /\ x.loop = v.loop /\ x.bufn = v.bufn
        /\ x.bufi = v.bufi /\ x.frac = v.frac /\ x.block = v.block /\ x.due = v.due
        /\ x.skipped = v.skipped
    BY <2>1 DEF InOrder, IsVoice, VoiceFields
  <2>4. Following(x) = Following(v)
    BY <2>3 DEF Following
  <2> QED  BY <2>2, <2>3, <2>4 DEF InOrder
<1>3. CASE v.on /\ ~ (v.bufi >= v.bufn /\ ~ HasBlock(v))
  <2>1. PICK w : w = IF v.bufi >= v.bufn THEN Decoded(v) ELSE v
    OBVIOUS
  <2>2. /\ IsVoice(w) /\ w.bufn = SAMPLES /\ w.bufi \in Nat /\ w.bufi < SAMPLES
        /\ w.block \in Nat /\ w.pos \in Nat /\ w.loop \in Int /\ w.pitch \in Nat /\ w.frac \in Nat
        /\ w.pos = Following(w) /\ w.due = w.block * SAMPLES + w.bufi /\ w.skipped = FALSE
    <3>1. CASE v.bufi >= v.bufn
      <4>1. w = Decoded(v)
        BY <2>1, <3>1
      <4>2. /\ IsVoice(w)
            /\ w.on = v.on /\ w.vag = v.vag /\ w.pitch = v.pitch /\ w.frac = v.frac
            /\ w.due = v.due /\ w.skipped = v.skipped
            /\ w.bufn = SAMPLES /\ w.bufi = 0 /\ w.block = v.pos
            /\ w.loop = IF Flags(v) = "start" THEN v.pos ELSE v.loop
            /\ w.pos = IF Flags(v) = "loop" /\ w.loop >= 0 THEN w.loop ELSE v.pos + 1
        BY <4>1, DecodedIs DEF InOrder
      <4>3. w.loop \in Int /\ w.pos \in Nat
        BY <4>2 DEF InOrder
      <4>4. w.pos = Following(w)
        BY <4>2 DEF Following, Flags
      <4>5. w.due = w.block * SAMPLES + w.bufi
        <5>1. v.due = v.pos * SAMPLES
          BY <3>1, SasSizes DEF InOrder
        <5>2. v.pos * SAMPLES \in Nat
          BY SasSizes DEF InOrder
        <5> QED  BY <4>2, <5>1, <5>2
      <4> QED  BY <4>2, <4>3, <4>4, <4>5, SasSizes DEF InOrder
    <3>2. CASE ~ (v.bufi >= v.bufn)
      <4>1. w = v
        BY <2>1, <3>2
      <4>2. v.bufi < v.bufn /\ v.bufn = SAMPLES
        BY <3>2, SasSizes DEF InOrder
      <4> QED  BY <4>1, <4>2 DEF InOrder
    <3> QED  BY <3>1, <3>2
  <2>3. Mixed(v) = Resampled(w, (w.frac + w.pitch) % Native, (w.frac + w.pitch) \div Native,
                          After(w, w.block * SAMPLES + w.bufi, (w.frac + w.pitch) \div Native),
                          w.skipped \/ w.block * SAMPLES + w.bufi # w.due)
    <3>1. w.due = v.due
      <4>1. CASE v.bufi >= v.bufn
        BY <2>1, <4>1, DecodedIs DEF InOrder
      <4>2. CASE ~ (v.bufi >= v.bufn)
        BY <2>1, <4>2
      <4> QED  BY <4>1, <4>2
    <3> QED  BY <1>3, <2>1, <3>1 DEF Mixed, Resampled
  <2>4. PICK x : x = Mixed(v)
    OBVIOUS
  <2> QED  BY <2>2, <2>3, <2>4, TurnInOrder
<1> QED  BY <1>1, <1>2, <1>3

-----------------------------------------------------------------------------
(* A grain is so many turns.  They are a recursive function, which exists  *)
(* and keeps the order in all its values as no number can be the least one *)
(* where it does not.                                                      *)
Turn(x) == CHOOSE w \in {Mixed(u) : u \in {x}} : TRUE

LEMMA TurnIs == ASSUME NEW x PROVE Turn(x) = Mixed(x)
<1>1. {Mixed(u) : u \in {x}} = {Mixed(x)}
  OBVIOUS
<1>2. Turn(x) \in {Mixed(x)}
  BY <1>1 DEF Turn
<1> QED  BY <1>2

IsTurns(g, v, n) == g = [i \in 0..n |-> IF i = 0 THEN v ELSE Turn(g[i - 1])]
Turns(v, n) == CHOOSE g : IsTurns(g, v, n)

LEMMA GrainIs == ASSUME NEW v, NEW n PROVE MixedGrain(v, n) = Turns(v, n)[n]
BY DEF MixedGrain, Turns, IsTurns, Turn

LEMMA TurnsExist ==
    ASSUME NEW v, NEW n \in Nat
    PROVE  IsTurns(Turns(v, n), v, n)
<1> DEFINE Without == {m \in Nat : ~ \E g : IsTurns(g, v, m)}
<1>1. Without = {}
  <2> SUFFICES ASSUME Without # {} PROVE FALSE
    OBVIOUS
  <2>1. PICK m \in Without : \A y \in Without : m <= y
    <3>1. Without \subseteq Nat
      OBVIOUS
    <3> QED  BY <3>1, HasLeast
  <2>2. CASE m = 0
    <3>1. PICK g : g = [i \in 0..0 |-> v]
      OBVIOUS
    <3>2. IsTurns(g, v, 0)
      BY <3>1 DEF IsTurns
    <3> QED  BY <2>1, <2>2, <3>2
  <2>3. CASE m # 0
    <3>1. m - 1 \in Nat /\ m - 1 \notin Without
      BY <2>1, <2>3
    <3>2. PICK g : IsTurns(g, v, m - 1)
      BY <3>1
    <3>3. PICK h : h = [i \in 0..m |-> IF i = m THEN Turn(g[m - 1]) ELSE g[i]]
      OBVIOUS
    <3>4. \A i \in 0..m : h[i] = IF i = 0 THEN v ELSE Turn(h[i - 1])
      <4> TAKE i \in 0..m
      <4>1. CASE i = m
        <5>1. h[i] = Turn(g[m - 1]) /\ h[m - 1] = g[m - 1]
          BY <2>3, <3>3, <4>1
        <5> QED  BY <2>3, <4>1, <5>1
      <4>2. CASE i # m
        <5>1. i \in 0..m - 1 /\ h[i] = g[i]
          BY <3>3, <4>2
        <5>2. g[i] = IF i = 0 THEN v ELSE Turn(g[i - 1])
          BY <3>2, <5>1 DEF IsTurns
        <5>3. i # 0 => h[i - 1] = g[i - 1]
          BY <3>3, <4>2
        <5> QED  BY <5>1, <5>2, <5>3
      <4> QED  BY <4>1, <4>2
    <3>5. IsTurns(h, v, m)
      BY <3>3, <3>4 DEF IsTurns
    <3> QED  BY <2>1, <3>5
  <2> QED  BY <2>2, <2>3
<1>2. \E g : IsTurns(g, v, n)
  BY <1>1
<1> QED  BY <1>2 DEF Turns

LEMMA GrainInOrder ==
    ASSUME NEW v, InOrder(v), NEW n \in Nat
    PROVE  InOrder(MixedGrain(v, n))
<1>1. PICK g : g = Turns(v, n) /\ IsTurns(g, v, n)
  BY TurnsExist
<1> DEFINE Wrong == {i \in 0..n : ~ InOrder(g[i])}
<1>2. Wrong = {}
  <2> SUFFICES ASSUME Wrong # {} PROVE FALSE
    OBVIOUS
  <2>1. PICK i \in Wrong : \A y \in Wrong : i <= y
    <3>1. Wrong \subseteq Nat
      OBVIOUS
    <3> QED  BY <3>1, HasLeast
  <2>2. g[i] = IF i = 0 THEN v ELSE Turn(g[i - 1])
    BY <1>1, <2>1 DEF IsTurns
  <2>3. CASE i = 0
    BY <2>1, <2>2, <2>3
  <2>4. CASE i # 0
    <3>1. i - 1 \in 0..n /\ i - 1 \notin Wrong
      BY <2>1, <2>4
    <3>2. InOrder(Mixed(g[i - 1]))
      BY <3>1, MixedInOrder
    <3>3. g[i] = Mixed(g[i - 1])
      BY <2>2, <2>4, TurnIs
    <3> QED  BY <2>1, <3>2, <3>3
  <2> QED  BY <2>3, <2>4
<1>3. InOrder(g[n])
  BY <1>2
<1> QED  BY <1>1, <1>3, GrainIs

-----------------------------------------------------------------------------

(* The inductive invariant: every voice is in order.                       *)
VoicesInv ==
    /\ voice = [v \in Voices |-> voice[v]]
    /\ \A v \in Voices : InOrder(voice[v])
    /\ grain \in Nat

LEMMA VoicesInit == SasInitial => VoicesInv
<1> SUFFICES ASSUME SasInitial PROVE VoicesInv
  OBVIOUS
<1>1. \A v \in Voices : voice[v] = Silent
  BY DEF SasInitial
<1>2. grain \in Nat
  BY SasAssumption DEF SasInitial
<1>3. voice = [v \in Voices |-> voice[v]]
  BY DEF SasInitial
<1> QED  BY <1>1, <1>2, <1>3, SilentInOrder DEF VoicesInv

(* One voice is set.                                                       *)
LEMMA OneSet ==
    ASSUME VoicesInv, NEW v \in Voices, NEW x, InOrder(x), voice' = [voice EXCEPT ![v] = x],
           UNCHANGED grain
    PROVE  VoicesInv'
<1>1. voice' = [u \in Voices |-> IF u = v THEN x ELSE voice[u]]
  BY DEF VoicesInv
<1>2. voice' = [u \in Voices |-> voice'[u]]
  BY <1>1
<1>3. \A u \in Voices : InOrder(voice'[u])
  BY <1>1 DEF VoicesInv
<1> QED  BY <1>2, <1>3 DEF VoicesInv

LEMMA RewoundIs ==
    ASSUME NEW v, InOrder(v), NEW x, x = Rewound(v)
    PROVE  /\ IsVoice(x) /\ x.pos = 0 /\ x.bufn = 0 /\ x.bufi = 0 /\ x.frac = 0 /\ x.due = 0
           /\ x.loop = v.loop /\ x.pitch = v.pitch /\ x.skipped = FALSE
<1>1. IsVoice(v) /\ v.skipped = FALSE
  BY DEF InOrder
<1>2. /\ IsVoice(x) /\ x.pos = 0 /\ x.bufn = 0 /\ x.bufi = 0 /\ x.frac = 0 /\ x.due = 0
      /\ x.loop = v.loop /\ x.pitch = v.pitch /\ x.skipped = v.skipped
  BY <1>1 DEF Rewound, IsVoice, VoiceFields
<1> QED  BY <1>1, <1>2

LEMMA SetInOrder ==
    ASSUME VoicesInv, NEW v \in Voices, NEW s, NEW looped, SetVoice(v, s, looped)
    PROVE  VoicesInv'
<1>1. PICK r : r = Rewound(voice[v])
  OBVIOUS
<1>2. PICK l : l = IF looped THEN 0 ELSE None
  OBVIOUS
<1>3. PICK x : x = [r EXCEPT !.vag = s, !.loop = l]
  OBVIOUS
<1>4. /\ IsVoice(r) /\ r.pos = 0 /\ r.bufn = 0 /\ r.bufi = 0 /\ r.frac = 0 /\ r.due = 0
      /\ r.loop = voice[v].loop /\ r.pitch = voice[v].pitch /\ r.skipped = FALSE
  BY <1>1, RewoundIs DEF VoicesInv
<1>5. /\ IsVoice(x) /\ x.pos = r.pos /\ x.bufn = r.bufn /\ x.bufi = r.bufi /\ x.frac = r.frac
      /\ x.due = r.due /\ x.loop = l /\ x.pitch = r.pitch /\ x.skipped = r.skipped
  BY <1>3, <1>4 DEF IsVoice, VoiceFields
<1>6. l \in Int /\ voice[v].pitch \in Nat
  BY <1>2 DEF VoicesInv, InOrder, None
<1>7. InOrder(x)
  BY <1>4, <1>5, <1>6, SasSizes DEF InOrder
<1>8. voice' = [voice EXCEPT ![v] = x] /\ grain' = grain
  BY <1>1, <1>2, <1>3 DEF SetVoice
<1> QED  BY <1>7, <1>8, OneSet

LEMMA KeyedInOrder ==
    ASSUME VoicesInv, NEW v \in Voices, SetKeyOn(v)
    PROVE  VoicesInv'
<1>1. PICK r : r = Rewound(voice[v])
  OBVIOUS
<1>2. PICK on : on = (voice[v].vag # <<>>)
  OBVIOUS
<1>3. PICK x : x = [r EXCEPT !.on = on]
  OBVIOUS
<1>4. /\ IsVoice(r) /\ r.pos = 0 /\ r.bufn = 0 /\ r.bufi = 0 /\ r.frac = 0 /\ r.due = 0
      /\ r.loop = voice[v].loop /\ r.pitch = voice[v].pitch /\ r.skipped = FALSE
  BY <1>1, RewoundIs DEF VoicesInv
<1>5. /\ IsVoice(x) /\ x.pos = r.pos /\ x.bufn = r.bufn /\ x.bufi = r.bufi /\ x.frac = r.frac
      /\ x.due = r.due /\ x.loop = r.loop /\ x.pitch = r.pitch /\ x.skipped = r.skipped
  BY <1>3, <1>4 DEF IsVoice, VoiceFields
<1>6. voice[v].loop \in Int /\ voice[v].pitch \in Nat
  BY DEF VoicesInv, InOrder
<1>7. InOrder(x)
  BY <1>4, <1>5, <1>6, SasSizes DEF InOrder
<1>8. voice' = [voice EXCEPT ![v] = x] /\ grain' = grain
  BY <1>1, <1>2, <1>3 DEF SetKeyOn
<1> QED  BY <1>7, <1>8, OneSet

(* A change of pitch, or the end of a key, is no change of the place.      *)
LEMMA PlaceKept ==
    ASSUME NEW v, InOrder(v), NEW x,
           \/ \E p \in Nat : x = [v EXCEPT !.pitch = p]
           \/ x = [v EXCEPT !.on = FALSE]
    PROVE  InOrder(x)
<1>1. /\ IsVoice(x) /\ x.pitch \in Nat
      /\ x.vag = v.vag /\ x.pos = v.pos /\ x.loop = v.loop /\ x.bufn = v.bufn
      /\ x.bufi = v.bufi /\ x.frac = v.frac /\ x.block = v.block /\ x.due = v.due
      /\ x.skipped = v.skipped
  <2>1. CASE x = [v EXCEPT !.on = FALSE]
    BY <2>1 DEF InOrder, IsVoice, VoiceFields
  <2>2. ASSUME NEW p \in Nat, x = [v EXCEPT !.pitch = p]
        PROVE  /\ IsVoice(x) /\ x.pitch \in Nat
               /\ x.vag = v.vag /\ x.pos = v.pos /\ x.loop = v.loop /\ x.bufn = v.bufn
               /\ x.bufi = v.bufi /\ x.frac = v.frac /\ x.block = v.block /\ x.due = v.due
               /\ x.skipped = v.skipped
    BY <2>2 DEF InOrder, IsVoice, VoiceFields
  <2> QED  BY <2>1, <2>2
<1>2. Following(x) = Following(v)
  BY <1>1 DEF Following
<1> QED  BY <1>1, <1>2 DEF InOrder

LEMMA VoicesStep == VoicesInv /\ [SasNext]_sasVars => VoicesInv'
<1> SUFFICES ASSUME VoicesInv, [SasNext]_sasVars PROVE VoicesInv'
  OBVIOUS
<1>1. CASE SasCore
  <2>1. voice' = [v \in Voices |-> MixedGrain(voice[v], grain)] /\ grain' = grain
    BY <1>1 DEF SasCore
  <2>2. \A v \in Voices : InOrder(voice'[v])
    BY <2>1, GrainInOrder DEF VoicesInv
  <2>3. voice' = [v \in Voices |-> voice'[v]]
    BY <2>1
  <2> QED  BY <2>1, <2>2, <2>3 DEF VoicesInv
<1>2. ASSUME NEW n \in Grains, SasInit(n) PROVE VoicesInv'
  <2>1. voice' = [v \in Voices |-> Silent] /\ grain' \in Nat
    BY <1>2, SasSizes DEF SasInit
  <2>2. voice' = [v \in Voices |-> voice'[v]] /\ \A v \in Voices : voice'[v] = Silent
    BY <2>1
  <2> QED  BY <2>1, <2>2, SilentInOrder DEF VoicesInv
<1>3. ASSUME NEW v \in Voices, NEW s \in Streams, NEW looped \in BOOLEAN, SetVoice(v, s, looped)
      PROVE  VoicesInv'
  BY <1>3, SetInOrder
<1>4. ASSUME NEW v \in Voices, NEW p \in Pitches, SetPitch(v, p) PROVE VoicesInv'
  <2>1. PICK x : x = [voice[v] EXCEPT !.pitch = p]
    OBVIOUS
  <2>2. InOrder(x)
    BY <2>1, SasSizes, PlaceKept DEF VoicesInv
  <2>3. voice' = [voice EXCEPT ![v] = x] /\ grain' = grain
    BY <1>4, <2>1 DEF SetPitch
  <2> QED  BY <2>2, <2>3, OneSet
<1>5. ASSUME NEW v \in Voices, SetKeyOn(v) PROVE VoicesInv'
  BY <1>5, KeyedInOrder
<1>6. ASSUME NEW v \in Voices, SetKeyOff(v) PROVE VoicesInv'
  <2>1. PICK x : x = [voice[v] EXCEPT !.on = FALSE]
    OBVIOUS
  <2>2. InOrder(x)
    BY <2>1, PlaceKept DEF VoicesInv
  <2>3. voice' = [voice EXCEPT ![v] = x] /\ grain' = grain
    BY <1>6, <2>1 DEF SetKeyOff
  <2> QED  BY <2>2, <2>3, OneSet
<1>7. CASE UNCHANGED sasVars
  BY <1>7 DEF sasVars, VoicesInv
<1> QED  BY <1>1, <1>2, <1>3, <1>4, <1>5, <1>6, <1>7 DEF SasNext

(* Whatever is set, keyed on and off, and at whatever pitch, a voice plays *)
(* the samples of its blocks one after another, through the ends of blocks *)
(* and of loops.                                                           *)
THEOREM VoicesPlayInOrder == SasSpec => []PlaysInOrder
<1>1. SasSpec => []VoicesInv
  BY VoicesInit, VoicesStep, PTL DEF SasSpec
<1>2. VoicesInv => PlaysInOrder
  BY DEF VoicesInv, InOrder, PlaysInOrder
<1> QED  BY <1>1, <1>2, PTL

(* Sound: every frame is played when it is due, for whichever of the two   *)
(* makes it.                                                               *)
THEOREM SoundIsInOrder == AudioSpec /\ SasSpec => []SoundInOrder
<1>1. AudioSpec => []MixedForItsFrame
  BY FramesArePlayedWhenDue
<1>2. SasSpec => []PlaysInOrder
  BY VoicesPlayInOrder
<1>3. MixedForItsFrame /\ PlaysInOrder => SoundInOrder
  BY DEF SoundInOrder
<1> QED  BY <1>1, <1>2, <1>3, PTL

-----------------------------------------------------------------------------
(* The controller ring counts its unread samples right, for a ring of any  *)
(* size and any number of readers.                                         *)

(* Reduction modulo the size of the ring, where the code uses it.          *)
LEMMA ModRing ==
    ASSUME NEW a \in 0 .. 2 * CTRL_RING - 1
    PROVE  a % CTRL_RING = IF a < CTRL_RING THEN a ELSE a - CTRL_RING
  BY RingAssumption, SMT

(* How many samples lie between two indices of the ring.                   *)
LEMMA Distance ==
    ASSUME NEW a \in 0 .. CTRL_RING - 1, NEW b \in 0 .. CTRL_RING - 1
    PROVE  (a - b + CTRL_RING) % CTRL_RING
             = IF a >= b THEN a - b ELSE a - b + CTRL_RING
<1>1. a - b + CTRL_RING \in 0 .. 2 * CTRL_RING - 1
  BY RingAssumption, SMT
<1> QED
  BY <1>1, ModRing, RingAssumption, SMT

LEMMA AvailIs ==
    ASSUME ctrlW \in 0 .. CTRL_RING - 1, ctrlR \in 0 .. CTRL_RING - 1
    PROVE  Avail = IF ctrlW >= ctrlR THEN ctrlW - ctrlR ELSE ctrlW - ctrlR + CTRL_RING
  BY Distance, Zenon DEF Avail

LEMMA NextIndex ==
    ASSUME ctrlW \in 0 .. CTRL_RING - 1
    PROVE  (ctrlW + 1) % CTRL_RING = IF ctrlW + 1 = CTRL_RING THEN 0 ELSE ctrlW + 1
<1>1. ctrlW + 1 \in 0 .. 2 * CTRL_RING - 1
  BY RingAssumption, SMT
<1> QED
  BY <1>1, ModRing, RingAssumption, SMT

-----------------------------------------------------------------------------
(* The three invariants are inductive together.                            *)
CtrlInv == CtrlTypeOK /\ CountsUnread /\ ParkedOnlyWhenEmpty

LEMMA CtrlStarts == CtrlInit => CtrlInv
<1> SUFFICES ASSUME CtrlInit PROVE CtrlInv
  OBVIOUS
<1>1. CtrlTypeOK
  <2>1. /\ ctrlW \in 0 .. CTRL_RING - 1 /\ ctrlR \in 0 .. CTRL_RING - 1
        /\ unreadSamples \in 0 .. CTRL_RING /\ 0 \in 0 .. Wakes - 1
    BY RingAssumption, SMT DEF CtrlInit
  <2> QED
    BY <2>1, Zenon DEF CtrlInit, CtrlTypeOK
<1>2. Avail = 1
  BY <1>1, AvailIs, SMT DEF CtrlInit, CtrlTypeOK
<1>3. CountsUnread /\ ParkedOnlyWhenEmpty
  BY <1>2, RingAssumption, SMT DEF CtrlInit, CountsUnread, ParkedOnlyWhenEmpty
<1> QED
  BY <1>1, <1>3 DEF CtrlInv

(* A read consumes everything, so a thread parked before or after it is    *)
(* parked at an empty ring.                                                *)
LEMMA ConsumeKeeps ==
    ASSUME CtrlInv, NEW t \in Readers, ConsumeSamples(t)
    PROVE  CtrlInv'
<1>1. CtrlTypeOK'
  <2>1. /\ ctrlW \in 0 .. CTRL_RING - 1 /\ 0 \in 0 .. CTRL_RING /\ 0 \in 0 .. Wakes - 1
    BY RingAssumption, SMT DEF CtrlInv, CtrlTypeOK
  <2> QED
    BY <2>1, Zenon DEF CtrlInv, CtrlTypeOK, ConsumeSamples
<1>2. ctrlW \in Int /\ ctrlW' = ctrlW /\ ctrlR' = ctrlW /\ unreadSamples' = 0
  BY SMT DEF CtrlInv, CtrlTypeOK, ConsumeSamples
<1>3. Avail' = 0
  <2>1. ctrlW' - ctrlR' + CTRL_RING = CTRL_RING /\ CTRL_RING \in 0 .. 2 * CTRL_RING - 1
    BY <1>2, RingAssumption, SMT
  <2>2. CTRL_RING % CTRL_RING = 0
    BY <2>1, ModRing, RingAssumption, SMT
  <2> QED
    BY <2>1, <2>2 DEF Avail
<1> QED
  BY <1>1, <1>2, <1>3, RingAssumption, SMT DEF CtrlInv, CountsUnread, ParkedOnlyWhenEmpty

LEMMA ParkKeeps ==
    ASSUME CtrlInv, NEW t \in Readers, NEW left \in 0 .. Wakes - 1, Avail = 0, ParkReader(t, left)
    PROVE  CtrlInv'
<1>1. CtrlTypeOK'
  BY SMT DEF CtrlInv, CtrlTypeOK, ParkReader
<1>2. Avail' = Avail /\ unreadSamples' = unreadSamples
  BY SMT DEF ParkReader, Avail
<1>3. CountsUnread'
  BY <1>2, SMT DEF CtrlInv, CountsUnread
<1>4. ParkedOnlyWhenEmpty'
  BY <1>2, SMT DEF ParkedOnlyWhenEmpty
<1> QED
  BY <1>1, <1>3, <1>4 DEF CtrlInv

(* A sample is one more unread, unless the ring is full; nobody is parked  *)
(* any more.                                                               *)
LEMMA SampleKeeps ==
    ASSUME CtrlInv, LatchSample, UNCHANGED <<vblHandler, wakesLeft>>, vblParity' \in {0, 1}
    PROVE  CtrlInv'
<1>1. ctrlW \in 0 .. CTRL_RING - 1 /\ ctrlR \in 0 .. CTRL_RING - 1 /\ unreadSamples \in 0 .. CTRL_RING
  BY DEF CtrlInv, CtrlTypeOK
<1> DEFINE nw == IF ctrlW + 1 = CTRL_RING THEN 0 ELSE ctrlW + 1
<1>2. ctrlW' = nw
  BY <1>1, NextIndex DEF LatchSample
<1>3. ctrlR' = IF nw # ctrlR THEN ctrlR ELSE IF ctrlR + 1 = CTRL_RING THEN 0 ELSE ctrlR + 1
  <2>1. ctrlR + 1 \in 0 .. 2 * CTRL_RING - 1
    BY <1>1, RingAssumption, SMT
  <2>2. (ctrlR + 1) % CTRL_RING = IF ctrlR + 1 = CTRL_RING THEN 0 ELSE ctrlR + 1
    BY <2>1, <1>1, ModRing, RingAssumption, SMT
  <2> QED
    BY <1>1, <2>2, NextIndex DEF LatchSample, ReadIndex
<1>4. unreadSamples' = IF unreadSamples < CTRL_RING THEN unreadSamples + 1 ELSE unreadSamples
  BY DEF LatchSample
<1>5. CtrlTypeOK'
  <2>1. ctrlW' \in 0 .. CTRL_RING - 1 /\ ctrlR' \in 0 .. CTRL_RING - 1 /\ unreadSamples' \in 0 .. CTRL_RING
    BY <1>1, <1>2, <1>3, <1>4, RingAssumption, SMT
  <2>2. reader' \in [Readers -> {"idle", "blocked", "ready"}]
    <3>1. reader' = [t \in Readers |-> IF reader[t] = "blocked" THEN "ready" ELSE reader[t]]
      BY Zenon DEF LatchSample, Waken
    <3>2. \A t \in Readers : reader[t] \in {"idle", "blocked", "ready"}
      BY Zenon DEF CtrlInv, CtrlTypeOK
    <3> QED
      BY <3>1, <3>2, Zenon
  <2> QED
    BY <2>1, <2>2, SMT DEF CtrlInv, CtrlTypeOK
<1>6. Avail' = IF ctrlW' >= ctrlR' THEN ctrlW' - ctrlR' ELSE ctrlW' - ctrlR' + CTRL_RING
  <2>1. ctrlW' \in 0 .. CTRL_RING - 1 /\ ctrlR' \in 0 .. CTRL_RING - 1
    BY <1>5, Zenon DEF CtrlTypeOK
  <2> QED
    BY <2>1, Distance, Zenon DEF Avail
<1>7. CountsUnread'
  <2>1. Avail = IF ctrlW >= ctrlR THEN ctrlW - ctrlR ELSE ctrlW - ctrlR + CTRL_RING
    BY <1>1, AvailIs
  <2> QED
    BY <1>1, <1>2, <1>3, <1>4, <1>6, <2>1, RingAssumption, SMT DEF CtrlInv, CountsUnread
<1>8. ParkedOnlyWhenEmpty'
  BY SMT DEF CtrlInv, CtrlTypeOK, ParkedOnlyWhenEmpty, LatchSample, Waken
<1> QED
  BY <1>5, <1>7, <1>8 DEF CtrlInv

LEMMA CtrlStep == CtrlInv /\ [CtrlNext]_ctrlVars => CtrlInv'
<1> SUFFICES ASSUME CtrlInv, [CtrlNext]_ctrlVars PROVE CtrlInv'
  OBVIOUS
<1>1. ASSUME UNCHANGED <<ctrlW, ctrlR, unreadSamples, reader, wakesLeft>>, vblHandler' \in BOOLEAN, vblParity' \in {0, 1}
      PROVE  CtrlInv'
  <2>1. Avail' = Avail
    BY <1>1 DEF Avail
  <2>2. CtrlTypeOK'
    BY <1>1 DEF CtrlInv, CtrlTypeOK
  <2>3. CountsUnread' /\ ParkedOnlyWhenEmpty'
    BY <1>1, <2>1, Zenon DEF CtrlInv, CountsUnread, ParkedOnlyWhenEmpty
  <2> QED
    BY <2>2, <2>3 DEF CtrlInv
<1>2. CASE VblankLatch
  <2>1. vblParity' \in {0, 1}
    BY <1>2, SMT DEF VblankLatch, CtrlInv, CtrlTypeOK
  <2> QED
    BY <1>1, <1>2, <2>1, SampleKeeps, Zenon DEF VblankLatch, CtrlInv, CtrlTypeOK
<1>3. ASSUME NEW on \in BOOLEAN, SetVblankHandler(on) PROVE CtrlInv'
  BY <1>1, <1>3, Zenon DEF SetVblankHandler, CtrlInv, CtrlTypeOK
<1>4. ASSUME NEW t \in Readers, ReadBuffer(t) PROVE CtrlInv'
  <2>1. Wakes - 1 \in 0 .. Wakes - 1
    BY RingAssumption, SMT
  <2> QED
    BY <1>4, <2>1, ConsumeKeeps, ParkKeeps, Zenon DEF ReadBuffer
<1>5. ASSUME NEW t \in Readers, ResumeRead(t) PROVE CtrlInv'
  <2>1. wakesLeft[t] > 0 => wakesLeft[t] - 1 \in 0 .. Wakes - 1
    BY RingAssumption, SMT DEF CtrlInv, CtrlTypeOK
  <2> QED
    BY <1>5, <2>1, ConsumeKeeps, ParkKeeps, Zenon DEF ResumeRead
<1>6. CASE UNCHANGED ctrlVars
  BY <1>1, <1>6, Zenon DEF ctrlVars, CtrlInv, CtrlTypeOK
<1> QED
  BY <1>2, <1>3, <1>4, <1>5, <1>6, Zenon DEF CtrlNext

(* The ring's indices stay inside it.                                      *)
THEOREM RingTypeCorrect == CtrlSpec => []CtrlTypeOK
<1>1. CtrlInv => CtrlTypeOK
  BY DEF CtrlInv
<1> QED
  BY <1>1, CtrlStarts, CtrlStep, PTL DEF CtrlSpec

(* The two indices say exactly how many samples are unread, through every  *)
(* overflow.                                                               *)
THEOREM RingCounts == CtrlSpec => []CountsUnread
<1>1. CtrlInv => CountsUnread
  BY DEF CtrlInv
<1> QED
  BY <1>1, CtrlStarts, CtrlStep, PTL DEF CtrlSpec

(* No reader is left parked at a ring with something in it.                *)
THEOREM NoReaderForgotten == CtrlSpec => []ParkedOnlyWhenEmpty
<1>1. CtrlInv => ParkedOnlyWhenEmpty
  BY DEF CtrlInv
<1> QED
  BY <1>1, CtrlStarts, CtrlStep, PTL DEF CtrlSpec
=============================================================================
