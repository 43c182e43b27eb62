------------------------------ MODULE Telemetry ------------------------------
(***************************************************************************)
(* telemetry_sample of telemetry.c: four files of the kernel are scanned   *)
(* with fscanf and fgets, and a loop ends at the first piece of text that  *)
(* does not match.  fscanf knows no lines, only words: which lines a loop  *)
(* reaches depends on how many words the lines before it have.             *)
(*                                                                         *)
(* A file that cannot be opened gives what an empty one gives.  Averages   *)
(* are floating-point and left out; what is kept of an entry of            *)
(* cpu_per_core is the line and the column it is computed from.            *)
(***************************************************************************)
EXTENDS Integers, Sequences, SequencesExt

CONSTANTS
  Files,      \* the contents to sample
  MaxCores,   \* QWM_MAX_CORES
  Width       \* how many values an unsigned long long, and a long, has

ASSUME WidthAssumption == Width \in Nat \ {0} /\ MaxCores \in Nat

(* The words of a file; a number is a word of its own kind. *)
Word(w)   == [word |-> w, number |-> -1]
Number(k) == [word |-> "", number |-> k]
IsNumber(t) == t.number >= 0

Token == [word : STRING, number : Int]
Labels == {"MemTotal:", "MemAvailable:", "VmRSS:"}

(* How the kernel writes meminfo and status: a line begins with a label,   *)
(* and nothing else in it reads like one.                                  *)
Labelled(line) ==
  /\ line # <<>> /\ ~IsNumber(line[1])
  /\ \A k \in 2..Len(line) : line[k].word \notin Labels

(* A line of meminfo goes on with a number and may end with its unit. *)
Measures(line) ==
  /\ Labelled(line) /\ Len(line) \in {2, 3} /\ IsNumber(line[2])
  /\ Len(line) = 3 => ~IsNumber(line[3])

FilesOK(f) ==
  /\ f.meminfo \in Seq(Seq(Token)) /\ f.status \in Seq(Seq(Token))
  /\ \A i \in 1..Len(f.meminfo) : Measures(f.meminfo[i])
  /\ \A i \in 1..Len(f.status) : Labelled(f.status[i])
  /\ f.stat \in Seq([head : {"total", "core", "other"}, columns : Nat])
  /\ f.zone \in (1 - Width)..(Width - 1)

ASSUME FilesAssumption == \A f \in Files : FilesOK(f)

VARIABLES
  files,     \* meminfo and status: lines of words; stat: lines; zone: a number
  loop,      \* the loop that runs
  at,        \* the next word, or line, it looks at
  found,     \* what parse_ull returned for MemTotal: and MemAvailable:
  used,      \* mem_used, in the unit of the file
  rss,       \* rss_megabytes, in the unit of the file
  cores,     \* where the entries of cpu_per_core come from
  temp       \* temperature_c, in thousandths

sampleVars == <<files, loop, at, found, used, rss, cores, temp>>

WordsOf(lines) == FlattenSeq(lines)

SampleInit ==
  /\ files \in Files
  /\ loop = "MemTotal:" /\ at = 1
  /\ found = [l \in {"MemTotal:", "MemAvailable:"} |-> 0]
  /\ used = 0 /\ rss = 0 /\ cores = <<>> /\ temp = -1

(* The next loop starts at the head of its file. *)
Turn(next) == loop' = next /\ at' = 1
-----------------------------------------------------------------------------
NextLoop(label) == IF label = "MemTotal:" THEN "MemAvailable:" ELSE "VmRSS:"

(* A seeded bug: the unit is not asked for. *)
Bug_Matches3(text, i) == i + 1 <= Len(text) /\ IsNumber(text[i + 1])

(* fscanf "%63s %llu %15s" = 3; the unit is whatever word comes next. *)
Matches3(text, i) == i + 2 <= Len(text) /\ IsNumber(text[i + 1])

(* One turn of the loop of parse_ull, then mem_used, which may wrap. *)
ParseUll ==
  LET text == WordsOf(files.meminfo)
      ends == ~Matches3(text, at) \/ text[at].word = loop
      v    == IF Matches3(text, at) THEN text[at + 1].number ELSE 0
  IN /\ loop \in {"MemTotal:", "MemAvailable:"}
     /\ IF ~ends THEN at' = at + 3 /\ UNCHANGED <<loop, found, used>>
        ELSE /\ Turn(NextLoop(loop))
             /\ found' = [found EXCEPT ![loop] = v]
             /\ used' = IF loop = "MemTotal:" THEN used
                        ELSE (found["MemTotal:"] - v) % Width
     /\ UNCHANGED <<files, rss, cores, temp>>

(* A seeded bug: a value that is no number is passed over. *)
Bug_Matches2(text, i) == i + 1 <= Len(text)

(* fscanf "%31s %lu" = 2. *)
Matches2(text, i) == i + 1 <= Len(text) /\ IsNumber(text[i + 1])

(* One turn of the loop over status. *)
Rss ==
  LET text == WordsOf(files.status) IN
  /\ loop = "VmRSS:"
  /\ IF ~Matches2(text, at) THEN Turn("stat") /\ UNCHANGED rss
     ELSE IF text[at].word = "VmRSS:"
     THEN Turn("stat") /\ rss' = text[at + 1].number
     ELSE at' = at + 2 /\ UNCHANGED <<loop, rss>>
  /\ UNCHANGED <<files, found, used, cores, temp>>
-----------------------------------------------------------------------------
(* A line of stat is the total ("cpu" and its columns), a core's ("cpu3")  *)
(* or another.  sscanf "cpu%*u ..." takes a core's number for %*u, and of  *)
(* the total the first column; seven columns must follow.                  *)
Shift(line) == IF line.head = "total" THEN 1 ELSE 0

(* A seeded bug: the line of the total is left out. *)
Bug_Counts(line) == line.head = "core" /\ line.columns >= 7

Counts(line) ==
  line.head \in {"total", "core"} /\ line.columns >= 7 + Shift(line)

(* A seeded bug: one entry more than there is room for. *)
Bug_HasRoom == Len(cores) <= MaxCores

HasRoom == Len(cores) < MaxCores

(* One turn of the loop over stat: a line is read before the room is       *)
(* looked at.                                                              *)
Cores ==
  /\ loop = "stat"
  /\ IF at > Len(files.stat) \/ ~HasRoom
     THEN Turn("zone") /\ UNCHANGED cores
     ELSE /\ at' = at + 1
          /\ cores' = IF Counts(files.stat[at])
                      THEN Append(cores, [line |-> at, shift |-> Shift(files.stat[at])])
                      ELSE cores
          /\ UNCHANGED loop
  /\ UNCHANGED <<files, found, used, rss, temp>>

(* fscanf "%lu" takes a minus sign and wraps what follows it: a reading    *)
(* below zero gives a temperature, a very large one.                       *)
Zone ==
  LET milli == files.zone % Width IN
  /\ loop = "zone"
  /\ Turn("done")
  /\ temp' = IF milli > 0 THEN milli ELSE temp
  /\ UNCHANGED <<files, found, used, rss, cores>>

SampleNext == ParseUll \/ Rss \/ Cores \/ Zone

SampleSpec == SampleInit /\ [][SampleNext]_sampleVars
-----------------------------------------------------------------------------
(* Per-core entries never exceed the array, at any number of lines; what   *)
(* was read below zero is none the less above it.                          *)
TypeOK ==
  /\ loop \in {"MemTotal:", "MemAvailable:", "VmRSS:", "stat", "zone", "done"}
  /\ at >= 1
  /\ DOMAIN found = {"MemTotal:", "MemAvailable:"}
  /\ used \in 0..(Width - 1)
  /\ Len(cores) <= MaxCores
  /\ temp \in {-1} \cup 1..(Width - 1)

(* What reading line by line gives: the first line with the label, if the  *)
(* lines before it all have a unit and a word follows its number.  A line  *)
(* without unit takes the next label for it and hides all lines after it.  *)
Readable(lines, i) ==
  /\ \A j \in 1..(i - 1) : Len(lines[j]) = 3
  /\ Len(lines[i]) = 3 \/ i < Len(lines)

ByLines(lines, label) ==
  LET is == {i \in 1..Len(lines) : lines[i][1].word = label /\ Readable(lines, i)}
  IN  IF is = {} THEN 0
      ELSE lines[CHOOSE i \in is : \A j \in is : i <= j][2].number

(* mem_used is the difference of what a reader of lines finds, and wraps   *)
(* when MemTotal is hidden from it or less than MemAvailable.              *)
MemoryByLines ==
  loop = "done" =>
    /\ \A l \in DOMAIN found : found[l] = ByLines(files.meminfo, l)
    /\ used = (found["MemTotal:"] - found["MemAvailable:"]) % Width

(* VmRSS is found exactly when all lines before it are made of pairs of a  *)
(* word and a number.  The first line of status, the name of the program,  *)
(* is none such: rss_megabytes stays 0 unless the name is a number.        *)
Paired(line) ==
  Len(line) % 2 = 0 /\ \A k \in 1..(Len(line) \div 2) : IsNumber(line[2 * k])

RssByLines(s) ==
  LET is == {i \in 1..Len(s) : /\ s[i][1].word = "VmRSS:"
                               /\ Len(s[i]) >= 2 /\ IsNumber(s[i][2])
                               /\ \A j \in 1..(i - 1) : Paired(s[j])}
  IN  IF is = {} THEN 0
      ELSE s[CHOOSE i \in is : \A j \in is : i <= j][2].number

RssBehindPairs == loop = "done" => rss = RssByLines(files.status)

(* The entries are those of the lines of stat, in their order; that of the *)
(* total comes first, is computed from columns shifted by one (so that     *)
(* idle time counts as busy) and takes the place of the last core when     *)
(* there are as many as the array holds.                                   *)
CoreLines(stat) ==
  {i \in 1..Len(stat) :
     /\ stat[i].head # "other" /\ stat[i].columns >= 7
     /\ stat[i].head = "total" => stat[i].columns # 7}

Before(stat, i) == Cardinality({j \in CoreLines(stat) : j < i})

CoresBehindTotal ==
  loop = "done" =>
    LET stat == files.stat
        all  == Cardinality(CoreLines(stat))
    IN  /\ Len(cores) = IF all < MaxCores THEN all ELSE MaxCores
        /\ \A k \in 1..Len(cores) :
             LET i == cores[k].line IN
             /\ i \in CoreLines(stat) /\ Before(stat, i) = k - 1
             /\ cores[k].shift = IF stat[i].head = "total" THEN 1 ELSE 0
=============================================================================
