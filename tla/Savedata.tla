------------------------------ MODULE Savedata ------------------------------
(***************************************************************************)
(* sr_savedata_execute (savedata.c): the modes of sceUtilitySavedata over  *)
(* a directory of the host per save, holding the data file, PARAM.SFO and  *)
(* the icon, picture and sound blobs.  What a file holds is the number of  *)
(* the save that wrote it.  Each write of the host may fail: the file then *)
(* keeps its old content (it cannot be opened) or is cut short, and the    *)
(* code may not be told (it ignores what fclose returns).                  *)
(*                                                                         *)
(* Save names are numbers in the order the host lists them in; 0 is the    *)
(* blank name.                                                             *)
(***************************************************************************)
EXTENDS Integers, Sequences

CONSTANTS Saves,      \* names of saves, a set of positive numbers
          Asked,      \* the names requests ask for directly, Wild too
          Blobs,      \* the blob files: icon0, icon1, pic1, snd0
          MaxSaves    \* bound: saves made

Wild    == -1                       \* the name "<>"
Names   == Saves \cup {0}
Data    == "data"
Sfo     == "PARAM.SFO"
Files   == {Data, Sfo} \cup Blobs
NoFile  == 0                        \* contents of a file that does not exist,
Torn    == -1                       \* and of one that was cut short

\* A game gives its data file no blob's name.
ASSUME SaveAssumption ==
    /\ Saves \subseteq Nat \ {0} /\ MaxSaves \in Nat /\ Asked \subseteq Saves \cup {Wild}
    /\ Data \notin Blobs

Content == {NoFile, Torn} \cup 1..MaxSaves
NoSave  == [file \in Files |-> NoFile]

SaveModes   == {"SAVE", "LISTSAVE", "MAKEDATA"}
LoadModes   == {"LOAD", "LISTLOAD", "READDATA"}
DeleteModes == {"DELETE", "LISTDELETE", "DELETEDATA"}
ListModes   == {"LISTLOAD", "LISTSAVE", "LISTDELETE"}
Modes       == SaveModes \cup LoadModes \cup DeleteModes \cup {"ERASE", "SIZES", "LIST", "FILES"}

(* A request: the mode, the save's name, the list of names, whether a data *)
(* file is named and, for a save, given: with a buffer and a size the code *)
(* takes, neither 0 nor 64 MB and more; and the blobs given, as far as the *)
(* mode looks at them.  Modes the code treats alike are one.               *)
Requests(lists) ==
    {r \in [mode : Modes, save : Asked, list : lists,
            data : {"none", "named", "given"}, blobs : SUBSET Blobs] :
        /\ r.mode \notin ListModes /\ r.save # Wild => r.list = <<>>
        /\ r.mode \notin SaveModes => r.blobs = {}
        /\ r.mode \notin SaveModes => r.data # "given"
        /\ r.mode \in DeleteModes \cup {"SIZES", "LIST", "FILES"} => r.data = "none"
        /\ r.mode \in {"SIZES", "LIST"} => r.save # Wild}

VARIABLES
    exists,   \* the saves whose directory exists
    disk,     \* per name, what its files hold
    saves,    \* number of the last save
    last      \* for the properties only: the request of the dialog in progress, if
              \* it was a save that reported success, what the host failed at in it,
              \* and what the data file held before
saveVars == <<exists, disk, saves, last>>

NoLast == [ok |-> FALSE]

SaveInit ==
    /\ exists = {}
    /\ disk = [n \in Names |-> NoSave]
    /\ saves = 0
    /\ last = NoLast

SaveTypeOK ==
    /\ exists \subseteq Names
    /\ \A n \in Names, f \in Files : disk[n][f] \in Content
    /\ \A n \in Names \ exists : disk[n] = NoSave
    /\ saves \in 0..MaxSaves

-----------------------------------------------------------------------------
FirstOf(S) == CHOOSE n \in S : \A m \in S : n <= m

(* Where in its list a request names a save, and where one that exists.    *)
Named(r) == {i \in DOMAIN r.list : r.list[i] # Wild}
Found(r) == {i \in Named(r) : r.list[i] \in exists}
Listed(r) == r.mode \in ListModes \/ r.save = Wild

\* variant: for a load the last name of the list is taken whether or not it exists
ResolveLast(r) ==
    IF Named(r) = {} THEN IF r.save = Wild THEN 0 ELSE r.save
    ELSE IF r.mode \in ListModes /\ r.mode # "LISTSAVE"
         THEN r.list[CHOOSE i \in Named(r) : \A j \in Named(r) : j <= i]
    ELSE r.list[FirstOf(Named(r))]

(* resolve_save: the first listed save that exists; for LISTSAVE else the  *)
(* first listed; for "<>" else the first that exists, or the blank name.   *)
Resolve(r) ==
    IF Listed(r) /\ Found(r) # {} THEN r.list[FirstOf(Found(r))]
    ELSE IF Listed(r) /\ r.mode = "LISTSAVE" /\ Named(r) # {} THEN r.list[FirstOf(Named(r))]
    ELSE IF r.save # Wild THEN r.save
    ELSE IF exists # {} THEN FirstOf(exists) ELSE 0

(* What becomes of the writes of a call: at most one fails.  The data file *)
(* is not opened, cut short, or cut short unnoticed as it is closed,       *)
(* PARAM.SFO not opened, or the directory not made.                        *)
AllDone == [x \in Files \cup {"dir"} |-> "done"]
Fates(r) ==
    {AllDone} \cup
    IF r.mode \notin SaveModes THEN {}
    ELSE {[AllDone EXCEPT ![Data] = "kept"], [AllDone EXCEPT ![Data] = "torn"],
          [AllDone EXCEPT ![Data] = "unflushed"], [AllDone EXCEPT ![Sfo] = "kept"],
          [AllDone EXCEPT !["dir"] = "kept"]}

Left(old, new, fate) ==
    CASE fate = "done" -> new [] fate = "kept" -> old
      [] fate \in {"torn", "unflushed"} -> Torn

\* variant: the directory is not made, as if it always existed
NoMkdirs(r, fate) == exists

(* mkdirs of do_save; `fate' says which writes of the host go through.     *)
Mkdirs(r, fate) == IF fate["dir"] = "done" THEN exists \cup {Resolve(r)} ELSE exists

(* write_file's own answer.                                                *)
Fails(f, fate) == fate[f] \in {"kept", "torn"}

Missed(fate) == {x \in DOMAIN fate : fate[x] # "done"}

(* do_save's result, and what it leaves: a data file that is named but not *)
(* given is passed over; only its write is looked at, and nothing more is  *)
(* written after it failed.  Without a directory no write goes through.    *)
DataFails(r, fate) ==
    r.data = "given" /\ (Resolve(r) \notin Mkdirs(r, fate) \/ Fails(Data, fate))

DoSave(r, fate) ==
    LET n == Resolve(r)
        v == saves + 1
        written == (IF r.data = "given" THEN {Data} ELSE {})
                     \cup (IF DataFails(r, fate) THEN {} ELSE {Sfo} \cup r.blobs)
    IN IF n \notin Mkdirs(r, fate) THEN disk
       ELSE [disk EXCEPT ![n] = [f \in Files |->
                IF f \in written THEN Left(disk[n][f], v, fate[f]) ELSE disk[n][f]]]

SaveResult(r, fate) ==
    IF ~DataFails(r, fate) THEN "ok"
    ELSE IF r.mode = "MAKEDATA" THEN "RW_MS_FULL" ELSE "SAVE_NO_MS"

(* do_load: the result, and the contents handed back.                      *)
LoadResult(r) ==
    LET n == Resolve(r)
        err == IF n \notin exists THEN "NO_DATA"
               ELSE IF r.data # "none" /\ disk[n][Data] = NoFile THEN "NOT_FOUND" ELSE "ok"
    IN IF err = "ok" THEN err ELSE IF r.mode = "READDATA" THEN "RW_" \o err ELSE "LOAD_" \o err

Loaded(r) == disk[Resolve(r)]

(* do_delete, do_erase.                                                    *)
DeleteResult(r) ==
    IF Resolve(r) \in exists THEN "ok"
    ELSE IF r.mode = "DELETEDATA" THEN "RW_NO_DATA" ELSE "DELETE_NO_DATA"

EraseResult(r) ==
    IF r.data # "none" /\ disk[Resolve(r)][Data] # NoFile THEN "ok" ELSE "RW_NO_DATA"

(* do_sizes, do_files and do_list read only; their counts are left out.  A *)
(* request for sizes names the save itself.                                *)
SizesResult(r) == IF r.save \in exists THEN "ok" ELSE "SIZES_NO_DATA"
FilesResult(r) == IF Resolve(r) \in exists THEN "ok" ELSE "LOAD_NO_DATA"

Result(r, fate) ==
    CASE r.mode \in SaveModes   -> SaveResult(r, fate)
      [] r.mode \in LoadModes   -> LoadResult(r)
      [] r.mode \in DeleteModes -> DeleteResult(r)
      [] r.mode = "ERASE"       -> EraseResult(r)
      [] r.mode = "SIZES"       -> SizesResult(r)
      [] r.mode = "FILES"       -> FilesResult(r)
      [] r.mode = "LIST"        -> "ok"

(* sr_savedata_execute.                                                    *)
Execute(r, fate) ==
    LET n == Resolve(r)
    IN \/ /\ r.mode \in SaveModes
          /\ saves < MaxSaves
          /\ exists' = Mkdirs(r, fate)
          /\ disk' = DoSave(r, fate)
          /\ saves' = saves + 1
          /\ last' = IF SaveResult(r, fate) = "ok"
                     THEN [ok |-> TRUE, req |-> r, missed |-> Missed(fate),
                           before |-> disk[n][Data]]
                     ELSE NoLast
       \/ /\ r.mode \in DeleteModes
          /\ exists' = exists \ {n}
          /\ disk' = [disk EXCEPT ![n] = NoSave]
          /\ UNCHANGED <<saves, last>>
       \/ /\ r.mode = "ERASE"
          /\ disk' = IF r.data # "none" THEN [disk EXCEPT ![n] = [disk[n] EXCEPT ![Data] = NoFile]] ELSE disk
          /\ UNCHANGED <<exists, saves, last>>
       \/ /\ r.mode \in LoadModes \cup {"SIZES", "LIST", "FILES"}
          /\ UNCHANGED saveVars

-----------------------------------------------------------------------------
\* The load with the parameters of a save.
AsLoad(r) ==
    [mode  |-> CASE r.mode = "SAVE" -> "LOAD" [] r.mode = "LISTSAVE" -> "LISTLOAD"
                 [] r.mode = "MAKEDATA" -> "READDATA",
     save  |-> r.save, list |-> r.list,
     data  |-> IF r.data = "none" THEN "none" ELSE "named",
     blobs |-> {}]

(* What a save that reported success stored is what a load with the same   *)
(* parameters finds: the two resolve the name alike although the save      *)
(* changes which saves exist.  Data that was given is found, and is this   *)
(* save's unless the host lost it as the file was closed, whatever else    *)
(* the host failed at; data that was not given is what was there before,   *)
(* if any.  The title and the blobs are those of this save if the host did *)
(* not fail at one of them (savedata.c 249-276, 285-330, 541-575).         *)
SaveThenLoad ==
    last.ok =>
        LET l     == AsLoad(last.req)
            given == last.req.data = "given"
            made  == "dir" \notin last.missed
        IN /\ given \/ (last.req.data = "none" /\ made) => LoadResult(l) = "ok"
           /\ given /\ Data \notin last.missed => Loaded(l)[Data] = saves
           /\ ~given /\ made => Loaded(l)[Data] = last.before
           /\ last.missed \subseteq {Data} =>
                 \A f \in {Sfo} \cup last.req.blobs : Loaded(l)[f] = saves

=============================================================================
