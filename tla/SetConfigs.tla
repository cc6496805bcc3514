----------------------------- MODULE SetConfigs -----------------------------
(***************************************************************************)
(* kolla_set_configs: how a source of config.json is copied into the         *)
(* container, and how --check compares the two.                             *)
(*                                                                         *)
(* What is at a path is Absent or a function from names to contents: the     *)
(* names of the files below a directory, or the one name Self for a file.    *)
(* An entry of config_files is a record with fields optional and merge.      *)
(***************************************************************************)
CONSTANTS Absent, Self

IsFile(c) == c # Absent /\ DOMAIN c = {Self}
IsDir(c) == c # Absent /\ ~IsFile(c)

(* The source is missing: an optional entry is skipped, for any other the     *)
(* script gives up.                                                         *)
Skipped(entry, source) == source = Absent /\ entry.optional
MissingSource_Never(entry, source) == FALSE
MissingSource(entry, source) == source = Absent /\ ~entry.optional

(* The destination once copy has cleared it: only a merge of directories      *)
(* keeps what is there.                                                     *)
Cleared(entry, source, dest) ==
    IF entry.merge /\ IsDir(source) /\ IsDir(dest) THEN dest ELSE Absent

(* The destination once the source has been written over the cleared one.     *)
Copied(source, cleared) ==
    IF cleared = Absent THEN source
    ELSE [name \in DOMAIN source \cup DOMAIN cleared |->
             IF name \in DOMAIN source THEN source[name] ELSE cleared[name]]

(* _cmp_file: "same", "bad", or "raise" if one of the files cannot be opened. *)
CmpFile(entry, source, dest) ==
    IF dest = Absent /\ ~entry.optional THEN "bad"
    ELSE IF ~IsFile(source) \/ ~IsFile(dest) THEN "raise"
    ELSE IF source = dest THEN "same" ELSE "bad"

(* _cmp_dir looks for a file of the source at dest/.., which is a directory. *)
CmpDir(entry, source, dest) ==
    IF DOMAIN source = {} THEN "same"
    ELSE IF ~IsDir(dest) /\ ~entry.optional THEN "bad" ELSE "raise"

CheckEntry(entry, source, dest) ==
    IF Skipped(entry, source) THEN "same"
    ELSE IF MissingSource(entry, source) THEN "bad"
    ELSE IF IsDir(source) /\ CmpDir(entry, source, dest) # "same"
    THEN CmpDir(entry, source, dest)
    ELSE CmpFile(entry, source, dest)
=============================================================================
