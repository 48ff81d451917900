--------------------------------- MODULE Data ---------------------------------
(***************************************************************************)
(* The reader of files, the options and the hash map, each by itself.      *)
(***************************************************************************)
EXTENDS Parts

CONSTANTS
  Octets, Files, Delims, Writes, MaxBytes, MaxBuf, MaxFile,                        \* Io
  Lines, MaxLines, NameMax, ValMax, Known, Global, NameOf(_), ValueOf(_), MaxLost, \* Opt
  Names, KeyMax, Buckets, Hash(_), Objects, Nobody, MaxItems                       \* SpeMap

VARIABLES io, opt, map

I == INSTANCE Io WITH Bytes <- Octets
O == INSTANCE Opt WITH Names <- Known, Number <- ValueOf
M == INSTANCE SpeMap

\* A file may be empty.
ASSUME DataAssumption ==
  /\ I!IoAssumption /\ O!OptAssumption /\ M!MapAssumption
  /\ <<>> \in Files

datavars == <<io, opt, map>>

\* What is not used has an empty file.
DataInit ==
  /\ M!Init
  /\ IF part = "io" THEN I!Init ELSE io = I!Start(<<>>, FALSE)
  /\ IF part = "opt" THEN O!Init ELSE opt = O!Start(<<>>, TRUE)

DataNext ==
  /\ UNCHANGED part
  /\ \/ part = "io"  /\ I!Next /\ UNCHANGED <<opt, map>>
     \/ part = "opt" /\ O!Next /\ UNCHANGED <<io, map>>
     \/ part = "map" /\ M!Next /\ UNCHANGED <<io, opt>>

DataSpec == DataInit /\ [][DataNext]_<<part, datavars>>
----------------------------------------------------------------------------
\* A read from a file gives what was asked for, in order, or the end (spe_io.c).
ReadsKeepTheirWord == I!ReadsKeepTheirWord
\* The options are what the lines of the file mean (spe_opt.c, spe_cycle.c).
OptionsAsMeant == O!OptionsAsMeant
\* The map is the table of the entries made (spe_map.c).  That it takes a step
\* only when it is the part used spares TLC the others.
MapIsTable ==
  [](part = "map" => M!Tidy) /\ M!Table!Init /\ [][part = "map" /\ M!Table!Next]_(M!Table!vars)
=============================================================================
