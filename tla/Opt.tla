--------------------------------- MODULE Opt ---------------------------------
(***************************************************************************)
(* spe_opt.c: a configuration file, line by line, into the list of         *)
(* options; and spe_cycle.c, which takes its settings from the list.       *)
(*                                                                         *)
(* The file comes with what each of its lines is meant to say, so that the *)
(* outcome can be compared with the intent.  spe_io.c hands over a line at *)
(* a time (Io); reading may fail in the middle of one.                     *)
(***************************************************************************)
EXTENDS Bytes

CONSTANTS
  Lines,      \* lines a file may have: bytes, and what they mean
  MaxLines,   \* bound: lines of a file
  NameMax,    \* SEC_MAXLEN - 1 and KEY_MAXLEN - 1
  ValMax,     \* VAL_MAXLEN - 1
  Names,      \* sections and keys asked for
  Global,     \* the name of the first section
  NameOf(_),  \* the names of the settings of spe_cycle.c
  Number(_),  \* atoi
  MaxLost     \* bound: entries there is no memory for

VARIABLE opt
\* file: history, its lines          ends: history, does the last one end?
\* at: lines taken                   sec, list, res: section, options, outcome
\* broken: history, a read failed    lost: history, entries without memory
\* cycle: settings of spe_cycle.c, once read

Pending == "pending"
Absent  == <<NUL>>      \* no value: values hold no 0
White   == {" ", "\t", "\r", "\n"}

Start(f, ends) ==
  [file |-> f, ends |-> ends, at |-> 0, sec |-> Global, list |-> <<>>,
   res |-> Pending, broken |-> FALSE, lost |-> 0, cycle |-> [is |-> Pending]]
Init ==
  \E n \in 0..MaxLines : \E f \in [1..n -> Lines], ends \in BOOLEAN :
    (n = 0 => ends) /\ opt = Start(f, ends)

----------------------------------------------------------------------------
\* What strncpy and the 0 behind it keep.
Cut(s, max) == LET c == UpToNUL(s) IN First(c, Min({Len(c), max}))

Trim(s, set) ==
  LET stay == {i \in DOMAIN s : s[i] \notin set \cup {NUL}}
  IN IF stay = {} THEN <<>> ELSE SubSeq(s, Min(stay), Max(stay))

\* spe_buf_split at "=", without the empty pieces.
Pieces(s) ==
  LET cuts   == {0, Len(s) + 1} \cup {i \in DOMAIN s : s[i] = "="}
      cut    == SetToSortSeq(cuts, <)
      pieces == [k \in 1..Len(cut) - 1 |-> SubSeq(s, cut[k] + 1, cut[k + 1] - 1)]
  IN SelectSeq(pieces, LAMBDA p : p # <<>>)

Entry(sec, key, val) == [sec |-> sec, key |-> key, val |-> val]

\* What a line says: nothing, a section, an entry, or it is wrong.
Parsed(line) ==
  LET s    == Trim(line, White)
      name == Trim(s, {" ", "[", "]", "\t"})
      p    == Pieces(s)
  IN IF s = <<>> \/ s[1] = "#" THEN [kind |-> "nothing"]
     ELSE IF s[1] = "[" /\ s[Len(s)] = "]" THEN
       IF name = <<>> THEN [kind |-> "wrong"]
       ELSE [kind |-> "section", name |-> Cut(name, NameMax)]
     ELSE IF Len(p) # 2 THEN [kind |-> "wrong"]
     ELSE [kind |-> "entry", key |-> Cut(Trim(p[1], {" "}), NameMax),
           val |-> Cut(Trim(p[2], {" "}), ValMax)]

\* The outcomes of one turn of the loop for the bytes `line'.  A slip starts
\* again in the global section after each entry.
SectionAfterAlways(o) == Global
SectionAfter(o) == o.sec
Turn(o, line) ==
  LET p == Parsed(line) IN
  CASE p.kind = "nothing" -> {o}
    [] p.kind = "section" -> {[o EXCEPT !.sec = p.name]}
    [] p.kind = "wrong"   -> {[o EXCEPT !.res = "false"]}
    [] p.kind = "entry"   ->
         {[o EXCEPT !.sec = SectionAfter(o), !.list = Append(@, Entry(o.sec, p.key, p.val))]}
           \cup (IF o.lost < MaxLost THEN {[o EXCEPT !.lost = @ + 1]} ELSE {})

\* The loop ends with a line that has no end: at the end of the file, or where
\* a read fails, which is taken for it.
End(o) == IF o.res = Pending THEN [o EXCEPT !.res = "true"] ELSE o

ReadLine ==
  /\ opt.res = Pending /\ opt.at < Len(opt.file)
  /\ LET line  == opt.file[opt.at + 1].bytes
         whole == opt.at + 1 < Len(opt.file) \/ opt.ends
         next  == [opt EXCEPT !.at = @ + 1]
     IN \E o \in Turn(next, IF whole THEN Append(line, "\n") ELSE line) :
          opt' = IF whole THEN o ELSE End(o)

ReadEnd ==
  /\ opt.res = Pending /\ opt.at = Len(opt.file)
  /\ opt' = End(opt)

ReadFails ==
  /\ opt.res = Pending
  /\ LET line == IF opt.at < Len(opt.file) THEN opt.file[opt.at + 1].bytes ELSE <<>>
     IN \E n \in 0..Len(line) : \E o \in Turn([opt EXCEPT !.broken = TRUE], First(line, n)) :
          opt' = End(o)

\* spe_opt_string and spe_opt_int: the value of the first match, or def.
Lookup(sec, key, def) ==
  LET match == {i \in DOMAIN opt.list : opt.list[i].sec = sec /\ opt.list[i].key = key}
  IN IF match = {} THEN def ELSE opt.list[Min(match)].val
LookupInt(name, def) ==
  LET v == Lookup(Global, NameOf(name), Absent) IN IF v = Absent THEN def ELSE Number(v)

\* main goes on only if the file was right.
spe_cycle_init ==
  /\ opt.res = "true" /\ opt.cycle.is = Pending
  /\ LET procs == LookupInt("procs", 1)
         maxfd == LookupInt("maxfd", 1000000)
     IN opt' = [opt EXCEPT !.cycle =
                  IF procs <= 0 \/ maxfd <= 0 THEN [is |-> "refused"]
                  ELSE [is |-> "set", daemon |-> LookupInt("daemon", 0), procs |-> procs, maxfd |-> maxfd,
                        pidfile |-> Lookup(Global, NameOf("pidfile"), Absent)]]

Next == ReadLine \/ ReadEnd \/ ReadFails \/ spe_cycle_init

Spec == Init /\ [][Next]_opt
----------------------------------------------------------------------------
\* What a line is read as is what it is meant to say, as much of the names and
\* the value as is kept.
Says(p, m) ==
  /\ p.kind = m.kind
  /\ m.kind = "section" => p.name = Cut(m.name, NameMax)
  /\ m.kind = "entry" => p.key = Cut(m.key, NameMax) /\ p.val = Cut(m.val, ValMax)
OptAssumption ==
  /\ MaxLines \in Nat /\ NameMax \in Nat /\ ValMax \in Nat /\ MaxLost \in Nat
  /\ \A line \in Lines :
       /\ line.means.kind \in {"nothing", "section", "entry", "wrong"}
       /\ Says(Parsed(line.bytes), line.means)
       /\ Says(Parsed(Append(line.bytes, "\n")), line.means)
       /\ line.means.kind = "entry" => Number(Cut(line.means.val, ValMax)) \in Int

\* What the lines taken are meant to say.
Means(i) == opt.file[i].means
Section(i) ==
  LET before == {j \in 1..i : Means(j).kind = "section"}
  IN IF before = {} THEN Global ELSE Cut(Means(Max(before)).name, NameMax)
Meant(sec, key) ==
  LET entries == {i \in 1..opt.at : /\ Means(i).kind = "entry" /\ Section(i) = sec
                                    /\ Cut(Means(i).key, NameMax) = key}
  IN IF entries = {} THEN Absent ELSE Cut(Means(Min(entries)).val, ValMax)

\* Unless memory ran out, or a read failed, every option has the value the first
\* line for it in its section gives it; a file is refused at the first line that
\* is wrong, and taken only if none is (spe_opt.c:84-137).  After a failed
\* read this holds for what the lines before it say, and nothing tells the
\* caller: an entry cut short may have been added.
OptionsAsMeant ==
  LET asked(name, def) == IF Meant(Global, NameOf(name)) = Absent THEN def
                          ELSE Number(Meant(Global, NameOf(name)))
  IN opt.lost = 0 =>
    /\ \A sec, key \in Names :
         \/ Lookup(sec, key, Absent) = Meant(sec, key)
         \/ opt.broken /\ Meant(sec, key) = Absent
    /\ \A i \in 1..opt.at : Means(i).kind = "wrong" <=> opt.res = "false" /\ i = opt.at /\ ~opt.broken
    /\ opt.res = "true" => opt.broken \/ opt.at = Len(opt.file)
    /\ opt.res = "false" => opt.broken \/ Means(opt.at).kind = "wrong"
    /\ ~opt.broken /\ opt.cycle.is = "refused" => asked("procs", 1) <= 0 \/ asked("maxfd", 1) <= 0
    /\ ~opt.broken /\ opt.cycle.is = "set" =>
         /\ opt.cycle.procs = asked("procs", 1) /\ opt.cycle.procs > 0
         /\ opt.cycle.daemon = asked("daemon", 0)

=============================================================================
