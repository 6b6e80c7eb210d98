---------------------------- MODULE VacuumProofs ----------------------------
(* Proofs about Vacuum, for any number of runs, log lines and console lines.  *)
EXTENDS Vacuum, FiniteSetTheorems, SequenceTheorems, TLAPS

\* The runs whose lines this one may find in the file, and in its buffer.
Writers == {n} \cup uncleaned
Kept == [run : {0} \cup Writers, at : Nat, whole : BOOLEAN]
Line(R) == [run : R, kind : Kind, whole : BOOLEAN]

TypeOKVacuum ==
    /\ file \in Seq(Line(Writers))
    /\ alive \subseteq Writers
    /\ console \in Nat /\ kept \in Nat /\ n \in Nat
    /\ buf \in Seq(Kept) /\ got \in Seq(Kept)
    /\ pc \in {"idle", "arm", "spawn", "exec", "stop", "join", "dmesg", "cleanup"}

\* Between two runs there is no buffer, and what is left on the board is of a run
\* that could not clean up.
Between ==
    pc = "idle" =>
        /\ buf = <<>> /\ got = <<>> /\ kept = 0 /\ thr = "dead"
        /\ alive \subseteq uncleaned
        /\ \A i \in DOMAIN file : file[i].run \in uncleaned

\* Every line up to some line of the file that _lines_read does not pass has been
\* kept, and none after it.
Read(l) ==
    /\ kept <= l
    /\ \A i \in 1 .. l : file[i].kind = "plain" => \E j \in DOMAIN buf : buf[j].at = i
    /\ \A j \in DOMAIN buf : buf[j].at <= l

\* The same of what the last tail printed, from _lines_read on.
Printed(l) ==
    /\ kept + Len(got) <= l
    /\ \A i \in kept + 1 .. l : file[i].kind = "plain" => \E j \in DOMAIN got : got[j].at = i
    /\ \A j \in DOMAIN got : got[j].at <= l

Watermark == FromConsole \notin Buffered => \E l \in 0 .. Len(file) : Read(l)
TailMark ==
    thr = "keep" /\ FromConsole \notin Buffered /\ (\A j \in DOMAIN got : got[j] # FromConsole) => \E l \in 0 .. Len(file) : Printed(l)

VacuumInv ==
    /\ TypeOKVacuum
    /\ Between
    /\ Watermark
    /\ TailMark
    /\ FreshLog
-----------------------------------------------------------------------------
(* Lines                                                                    *)

LEMMA SameWriters ==
  ASSUME UNCHANGED <<n, uncleaned>>
  PROVE  Writers' = Writers /\ Kept' = Kept
  BY DEF Writers, Kept

LEMMA SeqOver ==
  ASSUME NEW A, NEW B, NEW s \in Seq(A), \A i \in 1 .. Len(s) : s[i] \in B
  PROVE  s \in Seq(B)
<1>1. Len(s) \in Nat /\ s = [i \in 1 .. Len(s) |-> s[i]]
  BY LenProperties
<1>2. s \in [1 .. Len(s) -> B]
  BY <1>1
<1> QED BY <1>1, <1>2

LEMMA FileLines ==
  ASSUME TypeOKVacuum
  PROVE  /\ Len(file) \in Nat /\ DOMAIN file = 1 .. Len(file)
         /\ \A i \in 1 .. Len(file) : /\ file[i] \in Line(Writers)
                                      /\ file[i].run \in Writers
<1>1. file \in Seq(Line(Writers))
  BY DEF TypeOKVacuum
<1>2. \A i \in 1 .. Len(file) : file[i] \in Line(Writers)
  BY <1>1, ElementOfSeq
<1>3. \A i \in 1 .. Len(file) : file[i].run \in Writers
  BY <1>2 DEF Line
<1> QED BY <1>1, <1>2, <1>3, LenProperties

\* Of a line that stays, only the run has to be known again.
LEMMA FileOver ==
  ASSUME TypeOKVacuum, NEW R, \A i \in DOMAIN file : file[i].run \in R
  PROVE  file \in Seq(Line(R))
<1>1. \A i \in 1 .. Len(file) : file[i] \in Line(R)
  BY FileLines DEF Line
<1> QED BY <1>1, SeqOver DEF TypeOKVacuum

LEMMA KeptLines ==
  ASSUME NEW s \in Seq(Kept)
  PROVE  /\ Len(s) \in Nat /\ DOMAIN s = 1 .. Len(s)
         /\ \A i \in 1 .. Len(s) : s[i].at \in Nat /\ s[i].run \in {0, n} \cup uncleaned
<1>1. \A i \in 1 .. Len(s) : s[i] \in Kept
  BY ElementOfSeq
<1> QED BY <1>1, LenProperties DEF Kept, Writers

\* What is kept of tail's output is every plain line from the first one asked for,
\* and no more lines than the file has left.
LEMMA TailPrints ==
  ASSUME TypeOKVacuum, NEW hidden, "plain" \notin hidden, NEW g \in TailFrom(kept + 1, hidden)
  PROVE  /\ g \in Seq(Kept)
         /\ kept <= Len(file) => kept + Len(g) <= Len(file)
         /\ \A i \in kept + 1 .. Len(file) : file[i].kind = "plain" => \E j \in DOMAIN g : g[j].at = i
         /\ \A j \in DOMAIN g : g[j].at <= Len(file)
<1> DEFINE shown == {i \in kept + 1 .. Len(file) : file[i].kind \notin hidden}
           m == Cardinality(shown)
<1>1. PICK s \in [1 .. m -> shown] :
        /\ {s[k] : k \in DOMAIN s} = shown
        /\ g = [k \in 1 .. m |-> [run |-> file[s[k]].run, at |-> s[k], whole |-> file[s[k]].whole]]
  BY DEF TailFrom
<1>2. kept \in Nat /\ Len(file) \in Nat /\ file \in Seq(Line(Writers))
  BY DEF TypeOKVacuum
<1>3. /\ IsFiniteSet(kept + 1 .. Len(file))
      /\ kept <= Len(file) => Cardinality(kept + 1 .. Len(file)) = Len(file) - kept
  <2>1. kept + 1 \in Int /\ Len(file) \in Int
    BY <1>2
  <2>2. /\ IsFiniteSet(kept + 1 .. Len(file))
        /\ Cardinality(kept + 1 .. Len(file)) =
              IF kept + 1 > Len(file) THEN 0 ELSE Len(file) - (kept + 1) + 1
    BY <2>1, FS_Interval
  <2> QED BY <1>2, <2>2
<1>4. shown \subseteq kept + 1 .. Len(file)
  OBVIOUS
<1>5. IsFiniteSet(shown) /\ m <= Cardinality(kept + 1 .. Len(file))
  BY <1>3, <1>4, FS_Subset
<1>6. m \in Nat
  BY <1>5, FS_CardinalityType
<1>7. \A i \in shown : /\ i \in Nat /\ i \in DOMAIN file /\ i <= Len(file)
                      /\ file[i].run \in Writers /\ file[i].whole \in BOOLEAN
  BY <1>2, <1>4, FileLines DEF Line
<1> HIDE DEF m, shown
<1>8. \A k \in 1 .. m : g[k] = [run |-> file[s[k]].run, at |-> s[k], whole |-> file[s[k]].whole] /\ s[k] \in shown
  BY <1>1
<1>9. g \in [1 .. m -> Kept]
  BY <1>1, <1>7 DEF Kept
<1>10. g \in Seq(Kept) /\ Len(g) = m /\ DOMAIN g = 1 .. m
  BY <1>6, <1>9
<1>11. kept <= Len(file) => kept + Len(g) <= Len(file)
  BY <1>2, <1>3, <1>5, <1>6, <1>10
<1>12. \A j \in DOMAIN g : g[j].at <= Len(file)
  BY <1>7, <1>8, <1>10
<1>13. ASSUME NEW i \in kept + 1 .. Len(file), file[i].kind = "plain"
       PROVE  \E j \in DOMAIN g : g[j].at = i
  <2>1. i \in shown
    BY <1>13 DEF shown
  <2>2. PICK k \in 1 .. m : s[k] = i
    BY <1>1, <2>1
  <2> QED BY <1>8, <1>10, <2>2
<1> QED BY <1>10, <1>11, <1>12, <1>13

\* The file may grow, and the thread may move, without moving the marks.
LEMMA MarksStay ==
  ASSUME VacuumInv, UNCHANGED <<buf, kept>>, thr' = "keep" => thr = "keep" /\ got' = got,
         Len(file') \in Nat, Len(file) <= Len(file'), \A i \in 1 .. Len(file) : file'[i].kind = "plain" => file[i].kind = "plain"
  PROVE  Watermark' /\ TailMark'
<1>1. Len(file) \in Nat /\ kept \in Nat /\ Len(got) \in Nat /\ Buffered' = Buffered
  BY DEF VacuumInv, TypeOKVacuum, Buffered
<1>2. ASSUME NEW l \in 0 .. Len(file), Read(l) PROVE Read(l)'
  BY <1>1, <1>2 DEF Read
<1>3. ASSUME NEW l \in 0 .. Len(file), Printed(l), got' = got PROVE Printed(l)'
  <2>1. \A i \in kept + 1 .. l : i \in 1 .. Len(file)
    BY <1>1
  <2> QED BY <1>1, <1>3, <2>1 DEF Printed
<1>4. \A l \in 0 .. Len(file) : l \in 0 .. Len(file')
  BY <1>1
<1>5. Watermark'
  BY <1>1, <1>2, <1>4 DEF VacuumInv, Watermark, FromConsole
<1>6. TailMark'
  BY <1>1, <1>3, <1>4 DEF VacuumInv, TailMark, FromConsole
<1> QED BY <1>5, <1>6
-----------------------------------------------------------------------------
(* Steps                                                                    *)

LEMMA EnvKeeps ==
  ASSUME VacuumInv, Env
  PROVE  VacuumInv'
<1> USE DEF board, wire, thread, caller
<1>1. UNCHANGED <<alive, thr, got, buf, kept, stopped, pc, n, res, log, uncleaned>> /\ console' \in Nat
  BY DEF Env, WriteLine, EndLine, LinkDrops, LinkReturns, ConsoleLine, VacuumInv, TypeOKVacuum
<1>2. Writers' = Writers /\ Kept' = Kept
  BY <1>1, SameWriters
<1>3. CASE WriteLine
  <2>1. PICK r \in alive, t \in Kind, w \in BOOLEAN :
          file' = Append(file, [run |-> r, kind |-> t, whole |-> w])
    BY <1>3 DEF WriteLine
  <2> DEFINE e == [run |-> r, kind |-> t, whole |-> w]
  <2>2. e \in Line(Writers) /\ e.run = r
    BY DEF VacuumInv, TypeOKVacuum, Line
  <2>3. file' = Append(file, e)
    BY <2>1
  <2> HIDE DEF e
  <2>4. /\ file \in Seq(Line(Writers))
        /\ file' \in Seq(Line(Writers))
        /\ Len(file') = Len(file) + 1 /\ Len(file) \in Nat
        /\ \A i \in 1 .. Len(file) : file'[i] = file[i]
        /\ file'[Len(file) + 1] = e
    BY <2>2, <2>3 DEF VacuumInv, TypeOKVacuum
  <2>5. Watermark' /\ TailMark'
    BY <1>1, <2>4, MarksStay
  <2>6. TypeOKVacuum'
    BY <1>1, <1>2, <2>4 DEF VacuumInv, TypeOKVacuum
  <2>7. Between'
    <3> SUFFICES ASSUME pc = "idle" PROVE \A i \in DOMAIN file' : file'[i].run \in uncleaned
      BY <1>1 DEF VacuumInv, Between
    <3>1. r \in uncleaned /\ \A i \in DOMAIN file : file[i].run \in uncleaned
      BY DEF VacuumInv, Between
    <3> QED BY <2>2, <2>4, <3>1
  <2>8. FreshLog'
    BY <1>1 DEF VacuumInv, FreshLog
  <2> QED BY <2>5, <2>6, <2>7, <2>8 DEF VacuumInv
<1>5. CASE EndLine
  <2>1. PICK t \in {file[Len(file)].kind, "kernel"} :
          file' = [file EXCEPT ![Len(file)] = [@ EXCEPT !.kind = t, !.whole = TRUE]]
    BY <1>5 DEF EndLine
  <2>2. file # <<>> /\ file \in Seq(Line(Writers))
    BY <1>5 DEF EndLine, Unfinished, VacuumInv, TypeOKVacuum
  <2>3. Len(file) \in Nat /\ Len(file) \in 1 .. Len(file) /\ DOMAIN file = 1 .. Len(file)
    BY <2>2, EmptySeq, LenProperties
  <2> DEFINE last == file[Len(file)]
             e == [last EXCEPT !.kind = t, !.whole = TRUE]
  <2>4. last \in Line(Writers)
    BY <2>2, <2>3, ElementOfSeq
  <2>5. e \in Line(Writers) /\ e.run = last.run /\ (e.kind = "plain" => last.kind = "plain")
    BY <2>4 DEF Line, Kind
  <2>6. file' = [file EXCEPT ![Len(file)] = e]
    BY <2>1
  <2>7. e.kind = "plain" => file[Len(file)].kind = "plain"
    BY <2>5
  <2>8. e.run = file[Len(file)].run
    BY <2>5
  <2> HIDE DEF e, last
  <2>9. file' \in Seq(Line(Writers)) /\ Len(file') = Len(file)
    BY <2>2, <2>3, <2>5, <2>6
  <2>10. \A i \in 1 .. Len(file) : file'[i] = IF i = Len(file) THEN e ELSE file[i]
    BY <2>3, <2>6
  <2>11. \A i \in 1 .. Len(file) : file'[i].kind = "plain" => file[i].kind = "plain"
    BY <2>7, <2>10
  <2>12. \A i \in 1 .. Len(file) : file'[i].run = file[i].run
    BY <2>8, <2>10
  <2>13. Watermark' /\ TailMark'
    BY <1>1, <2>3, <2>9, <2>11, MarksStay
  <2>14. TypeOKVacuum'
    BY <1>1, <1>2, <2>9 DEF VacuumInv, TypeOKVacuum
  <2>15. Between' /\ FreshLog'
    <3>1. DOMAIN file' = DOMAIN file
      BY <2>6
    <3> QED BY <1>1, <2>3, <2>12, <3>1 DEF VacuumInv, Between, FreshLog
  <2> QED BY <2>13, <2>14, <2>15 DEF VacuumInv
<1>4. CASE file' = file
  <2>1. Len(file') \in Nat /\ Len(file) <= Len(file')
    BY <1>4 DEF VacuumInv, TypeOKVacuum
  <2>2. Watermark' /\ TailMark'
    BY <1>1, <1>4, <2>1, MarksStay
  <2>3. TypeOKVacuum'
    BY <1>1, <1>2, <1>4 DEF VacuumInv, TypeOKVacuum
  <2>4. Between' /\ FreshLog'
    BY <1>1, <1>4 DEF VacuumInv, Between, FreshLog
  <2> QED BY <2>2, <2>3, <2>4 DEF VacuumInv
<1> QED BY <1>3, <1>4, <1>5 DEF Env, LinkDrops, LinkReturns, ConsoleLine

\* Lines of the console: from then on _lines_read does not count lines of the file.
LEMMA PassiveKeeps ==
  ASSUME VacuumInv, Passive
  PROVE  VacuumInv'
<1> USE DEF board, caller
<1>1. /\ thr = "passive" /\ thr' = "top" /\ kept' = kept + console /\ console' = 0
      /\ UNCHANGED <<file, alive, got, pc, n, log, uncleaned>>
  BY DEF Passive
<1>2. Writers' = Writers /\ Kept' = Kept
  BY <1>1, SameWriters
<1> DEFINE add == [i \in 1 .. console |-> FromConsole]
<1>3. buf' = buf \o add
  BY DEF Passive
<1>4. console \in Nat /\ buf \in Seq(Kept) /\ kept \in Nat /\ file' = file
  BY <1>1 DEF VacuumInv, TypeOKVacuum
<1>5. FromConsole \in Kept
  BY DEF FromConsole, Kept, Writers
<1>6. add \in Seq(Kept) /\ Len(add) = console /\ \A i \in 1 .. console : add[i] = FromConsole
  BY <1>4, <1>5
<1> HIDE DEF add
<1>7. buf' \in Seq(Kept) /\ kept' \in Nat /\ console' \in Nat
  BY <1>1, <1>3, <1>4, <1>6
<1>8. TypeOKVacuum'
  BY <1>1, <1>2, <1>7 DEF VacuumInv, TypeOKVacuum
<1>9. CASE console = 0
  <2>1. buf' = buf /\ kept' = kept
    <3>1. add = <<>>
      BY <1>6, <1>9
    <3> QED BY <1>1, <1>3, <1>4, <1>9, <3>1
  <2>2. Watermark' /\ TailMark'
    BY <1>1, <1>4, <2>1, MarksStay DEF VacuumInv, TypeOKVacuum
  <2> QED BY <1>1, <1>8, <2>2 DEF VacuumInv, Between, FreshLog
<1>10. CASE console # 0
  <2>1. Len(buf) + 1 \in DOMAIN buf' /\ buf'[Len(buf) + 1] = FromConsole
    BY <1>3, <1>4, <1>6, <1>10
  <2>2. FromConsole \in Buffered'
    BY <2>1 DEF Buffered
  <2>3. Watermark' /\ TailMark'
    BY <2>2 DEF Watermark, TailMark, FromConsole
  <2> QED BY <1>1, <1>8, <2>3 DEF VacuumInv, Between, FreshLog
<1> QED BY <1>9, <1>10

LEMMA RunTailKeeps ==
  ASSUME VacuumInv, RunTail
  PROVE  VacuumInv'
<1> USE DEF board, wire, caller
<1>1. thr = "run" /\ UNCHANGED <<file, alive, console, buf, kept, pc, n, log, uncleaned>>
  BY DEF RunTail
<1>2. Writers' = Writers /\ Kept' = Kept /\ Buffered' = Buffered
  BY <1>1, SameWriters DEF Buffered
<1>3. Len(file') \in Nat /\ Len(file) <= Len(file') /\ pc # "idle"
  BY <1>1 DEF VacuumInv, TypeOKVacuum, Between
<1>4. CASE got' = got /\ thr' # "keep"
  <2>1. Watermark' /\ TailMark'
    BY <1>1, <1>3, <1>4, MarksStay
  <2>2. TypeOKVacuum' /\ Between' /\ FreshLog'
    BY <1>1, <1>2, <1>3, <1>4 DEF VacuumInv, TypeOKVacuum, Between, FreshLog
  <2> QED BY <2>1, <2>2 DEF VacuumInv
<1>5. ASSUME NEW hidden, "plain" \notin hidden, got' \in TailFrom(kept + 1, hidden)
      PROVE  VacuumInv'
  <2>1. /\ got' \in Seq(Kept)
        /\ kept <= Len(file) => kept + Len(got') <= Len(file)
        /\ \A i \in kept + 1 .. Len(file) :
              file[i].kind = "plain" => \E j \in DOMAIN got' : got'[j].at = i
        /\ \A j \in DOMAIN got' : got'[j].at <= Len(file)
    BY <1>5, TailPrints DEF VacuumInv
  <2>2. TypeOKVacuum' /\ Between' /\ FreshLog'
    BY <1>1, <1>2, <1>3, <2>1 DEF VacuumInv, TypeOKVacuum, Between, FreshLog
  <2>3. Watermark'
    BY <1>1, <1>2 DEF VacuumInv, Watermark, FromConsole, Read
  <2>4. FromConsole \notin Buffered => kept <= Len(file)
    BY DEF VacuumInv, Watermark, Read, TypeOKVacuum
  <2>5. FromConsole \notin Buffered => Printed(Len(file))'
    BY <1>1, <2>1, <2>4 DEF Printed
  <2>6. TailMark'
    BY <1>1, <1>2, <1>3, <2>5 DEF TailMark, FromConsole
  <2> QED BY <2>2, <2>3, <2>6 DEF VacuumInv
<1>6. ASSUME NEW hidden, "plain" \notin hidden, NEW g \in TailFrom(kept + 1, hidden),
             got' = Append(g, FromConsole)
      PROVE  VacuumInv'
  <2>1. g \in Seq(Kept)
    BY <1>6, TailPrints DEF VacuumInv
  <2>2. FromConsole \in Kept
    BY DEF FromConsole, Kept, Writers
  <2>3. got' \in Seq(Kept) /\ Len(g) + 1 \in DOMAIN got' /\ got'[Len(g) + 1] = FromConsole
    BY <1>6, <2>1, <2>2, AppendProperties
  <2>4. TypeOKVacuum' /\ Between' /\ FreshLog'
    BY <1>1, <1>2, <1>3, <2>3 DEF VacuumInv, TypeOKVacuum, Between, FreshLog
  <2>5. Watermark'
    BY <1>1, <1>2 DEF VacuumInv, Watermark, FromConsole, Read
  <2>6. TailMark'
    BY <2>3 DEF TailMark, FromConsole
  <2> QED BY <2>4, <2>5, <2>6 DEF VacuumInv
<1>7. ASSUME got' \in Output(kept + 1) PROVE VacuumInv'
  BY <1>5, <1>6, <1>7 DEF Output
<1> QED BY <1>4, <1>7 DEF RunTail

\* What tail printed overlaps what is kept, or continues it: _lines_read is never
\* past the last line that was kept.
LEMMA KeepKeeps ==
  ASSUME VacuumInv, Keep
  PROVE  VacuumInv'
<1> USE DEF board, wire, caller
<1>1. /\ thr = "keep" /\ thr' = "top" /\ buf' = buf \o got /\ kept' = kept + Len(got) /\ got' = <<>>
      /\ UNCHANGED <<file, alive, console, pc, n, log, uncleaned>>
  BY DEF Keep
<1>2. Writers' = Writers /\ Kept' = Kept
  BY <1>1, SameWriters
<1>3. /\ buf \in Seq(Kept) /\ got \in Seq(Kept) /\ kept \in Nat /\ Len(file) \in Nat
      /\ Len(buf) \in Nat /\ Len(got) \in Nat /\ pc # "idle"
  BY <1>1 DEF VacuumInv, TypeOKVacuum, Between
<1>4. /\ buf' \in Seq(Kept) /\ Len(buf') = Len(buf) + Len(got)
      /\ \A j \in 1 .. Len(buf) : buf'[j] = buf[j]
      /\ \A j \in 1 .. Len(got) : buf'[Len(buf) + j] = got[j]
  BY <1>1, <1>3
<1>5. /\ DOMAIN buf = 1 .. Len(buf) /\ DOMAIN got = 1 .. Len(got)
      /\ DOMAIN buf' = 1 .. Len(buf) + Len(got)
  BY <1>3, <1>4
<1>6. TypeOKVacuum' /\ Between' /\ FreshLog' /\ TailMark'
  BY <1>1, <1>2, <1>3, <1>4 DEF VacuumInv, TypeOKVacuum, Between, FreshLog, TailMark
<1>7. Watermark'
  <2> SUFFICES ASSUME FromConsole \notin Buffered'
               PROVE  \E l \in 0 .. Len(file) : Read(l)'
    BY <1>1 DEF Watermark, FromConsole
  <2>1. FromConsole \notin Buffered /\ \A j \in DOMAIN got : got[j] # FromConsole
    <3>1. \A j \in DOMAIN buf' : buf'[j] # FromConsole
      BY DEF Buffered, FromConsole
    <3>2. ASSUME NEW j \in DOMAIN got PROVE got[j] # FromConsole
      <4>1. Len(buf) + j \in DOMAIN buf' /\ buf'[Len(buf) + j] = got[j]
        BY <1>3, <1>4, <1>5
      <4> QED BY <3>1, <4>1
    <3>3. \A j \in DOMAIN buf : j \in DOMAIN buf' /\ buf'[j] = buf[j]
      BY <1>3, <1>4, <1>5
    <3> QED BY <3>1, <3>2, <3>3 DEF Buffered
  <2>2. PICK a \in 0 .. Len(file) : Read(a)
    BY <2>1 DEF VacuumInv, Watermark
  <2>3. PICK b \in 0 .. Len(file) : Printed(b)
    BY <1>1, <2>1 DEF VacuumInv, TailMark
  <2>4. PICK l \in 0 .. Len(file) : l >= a /\ l >= b /\ l \in {a, b}
    BY <1>3
  <2>5. kept' <= l
    BY <1>1, <1>3, <2>3, <2>4 DEF Printed
  <2>6. ASSUME NEW i \in 1 .. l, file[i].kind = "plain" PROVE \E j \in DOMAIN buf' : buf'[j].at = i
    <3>1. CASE i <= a
      <4>1. PICK j \in DOMAIN buf : buf[j].at = i
        BY <1>3, <2>2, <2>6, <3>1 DEF Read
      <4> QED BY <1>3, <1>4, <1>5, <4>1
    <3>2. CASE a < i
      <4>1. i \in kept + 1 .. b
        BY <1>3, <2>2, <2>4, <3>2 DEF Read
      <4>2. PICK j \in DOMAIN got : got[j].at = i
        BY <2>3, <2>6, <4>1 DEF Printed
      <4>3. Len(buf) + j \in DOMAIN buf' /\ buf'[Len(buf) + j].at = i
        BY <1>3, <1>4, <1>5, <4>2
      <4> QED BY <4>3
    <3> QED BY <1>3, <3>1, <3>2
  <2>7. ASSUME NEW j \in DOMAIN buf' PROVE buf'[j].at <= l
    <3>1. CASE j \in DOMAIN buf
      <4>1. buf'[j] = buf[j] /\ buf[j].at \in Nat /\ buf[j].at <= a
        BY <1>3, <1>4, <1>5, <2>2, <3>1, KeptLines DEF Read
      <4> QED BY <2>4, <4>1
    <3>2. CASE j \notin DOMAIN buf
      <4>1. PICK k \in 1 .. Len(got) : j = Len(buf) + k
        <5>1. j - Len(buf) \in 1 .. Len(got) /\ j = Len(buf) + (j - Len(buf))
          BY <1>3, <1>5, <3>2
        <5> QED BY <5>1
      <4>2. buf'[j] = got[k] /\ got[k].at \in Nat /\ got[k].at <= b
        BY <1>3, <1>4, <1>5, <2>3, <4>1, KeptLines DEF Printed
      <4> QED BY <2>4, <4>2
    <3> QED BY <3>1, <3>2
  <2>8. Read(l)'
    BY <1>1, <2>5, <2>6, <2>7 DEF Read
  <2> QED BY <2>8
<1> QED BY <1>6, <1>7 DEF VacuumInv

LEMMA PollKeeps ==
  ASSUME VacuumInv, Poll
  PROVE  VacuumInv'
<1>1. CASE PollTop
  <2>1. /\ thr = "top" /\ thr' \in {"dead", "passive", "run"}
        /\ UNCHANGED <<file, alive, console, got, buf, kept, pc, n, log, uncleaned>>
    BY <1>1 DEF PollTop, board, wire, caller
  <2>2. Writers' = Writers /\ Kept' = Kept
    BY <2>1, SameWriters
  <2>3. Len(file') \in Nat /\ Len(file) <= Len(file') /\ pc # "idle"
    BY <2>1 DEF VacuumInv, TypeOKVacuum, Between
  <2>4. Watermark' /\ TailMark'
    BY <2>1, <2>3, MarksStay
  <2>5. TypeOKVacuum' /\ Between' /\ FreshLog'
    BY <2>1, <2>2, <2>3 DEF VacuumInv, TypeOKVacuum, Between, FreshLog
  <2> QED BY <2>4, <2>5 DEF VacuumInv
<1> QED BY <1>1, PassiveKeeps, RunTailKeeps, KeepKeeps DEF Poll

\* A run begins: its number is new, and what it finds on the board was left by a
\* run that could not clean up.
LEMMA PreflightKeeps ==
  ASSUME VacuumInv, Preflight
  PROVE  VacuumInv'
<1> USE DEF board, wire, thread
<1>1. /\ pc = "idle" /\ n' = n + 1 /\ log' = {} /\ pc' \in {"arm", "idle"}
      /\ UNCHANGED <<file, alive, console, thr, got, buf, kept, uncleaned>>
  BY DEF Preflight
<1>2. /\ buf = <<>> /\ got = <<>> /\ kept = 0 /\ thr = "dead" /\ alive \subseteq uncleaned
      /\ \A i \in DOMAIN file : file[i].run \in uncleaned
  BY <1>1 DEF VacuumInv, Between
<1>3. uncleaned \subseteq Writers' /\ Len(file) \in Nat
  BY <1>1 DEF Writers, VacuumInv, TypeOKVacuum
<1>4. file \in Seq(Line(Writers'))
  BY <1>2, <1>3, FileOver DEF VacuumInv
<1>5. TypeOKVacuum'
  BY <1>1, <1>2, <1>3, <1>4 DEF VacuumInv, TypeOKVacuum
<1>6. Watermark' /\ TailMark'
  BY <1>1, <1>3, MarksStay
<1>7. Between' /\ FreshLog'
  BY <1>1, <1>2 DEF Between, FreshLog
<1> QED BY <1>5, <1>6, <1>7 DEF VacuumInv

\* Nothing is kept any more, and a run that does not reach the board is uncleaned.
LEMMA CleanupKeeps ==
  ASSUME VacuumInv, Cleanup
  PROVE  VacuumInv'
<1>1. /\ pc' = "idle" /\ thr' = "dead" /\ got' = <<>> /\ buf' = <<>> /\ kept' = 0
      /\ UNCHANGED <<console, n, log>>
  BY DEF Cleanup, wire
<1>2. \/ alive' = {} /\ file' = <<>> /\ uncleaned' = uncleaned
      \/ alive' \in {alive, {}} /\ uncleaned' = uncleaned \cup {n} /\ file' = file
  BY DEF Cleanup
<1>3. Writers \subseteq Writers' /\ n \in Nat /\ console \in Nat
  BY <1>1, <1>2 DEF Writers, VacuumInv, TypeOKVacuum
<1>4. file' \in Seq(Line(Writers')) /\ Len(file') \in Nat
  <2>1. CASE file' = <<>>
    BY <2>1
  <2>2. CASE file' = file
    <3>1. \A i \in DOMAIN file : file[i].run \in Writers'
      BY <1>3, FileLines DEF VacuumInv
    <3> QED BY <2>2, <3>1, FileOver, FileLines DEF VacuumInv
  <2> QED BY <1>2, <2>1, <2>2
<1>5. TypeOKVacuum'
  BY <1>1, <1>2, <1>3, <1>4 DEF VacuumInv, TypeOKVacuum
<1>6. Watermark' /\ TailMark'
  BY <1>1, <1>4 DEF Watermark, TailMark, Read
<1>7. Between'
  <2>1. CASE alive' = {} /\ file' = <<>> /\ uncleaned' = uncleaned
    BY <1>1, <2>1 DEF Between
  <2>2. CASE alive' \in {alive, {}} /\ uncleaned' = uncleaned \cup {n} /\ file' = file
    <3>1. alive \subseteq {n} \cup uncleaned /\ \A i \in DOMAIN file : file[i].run \in {n} \cup uncleaned
      BY FileLines DEF VacuumInv, TypeOKVacuum, Writers
    <3> QED BY <1>1, <2>2, <3>1 DEF Between
  <2> QED BY <1>2, <2>1, <2>2
<1>8. FreshLog'
  BY <1>1, <1>2 DEF VacuumInv, FreshLog
<1> QED BY <1>5, <1>6, <1>7, <1>8 DEF VacuumInv

LEMMA CallerKeeps ==
  ASSUME VacuumInv, Caller
  PROVE  VacuumInv'
<1> USE DEF board, wire, thread
<1>1. CASE Start
  <2>1. /\ pc' = "spawn" /\ thr' = "top" /\ got' = <<>> /\ buf' = <<>> /\ kept' = 0
        /\ UNCHANGED <<file, alive, console, n, log, uncleaned>>
    BY <1>1 DEF Start
  <2>2. Writers' = Writers /\ Kept' = Kept
    BY <2>1, SameWriters
  <2>3. Len(file') \in Nat
    BY <2>1, FileLines DEF VacuumInv
  <2>4. Watermark' /\ TailMark'
    BY <2>1, <2>3 DEF Watermark, TailMark, Read
  <2>5. TypeOKVacuum' /\ Between' /\ FreshLog'
    BY <2>1, <2>2 DEF VacuumInv, TypeOKVacuum, Between, FreshLog
  <2> QED BY <2>4, <2>5 DEF VacuumInv
<1>2. CASE Spawn \/ Exec \/ StopCall \/ StopReturn \/ ScrapeDmesg
  <2>1. /\ pc' \in {"exec", "stop", "join", "dmesg", "cleanup"}
        /\ UNCHANGED <<file, console, thr, got, buf, kept, n, uncleaned>>
    BY <1>2 DEF Spawn, Exec, StopCall, StopReturn, ScrapeDmesg
  <2>2. Writers' = Writers /\ Kept' = Kept
    BY <2>1, SameWriters
  <2>3. alive' \subseteq alive \cup {n}
    BY <1>2 DEF Spawn, Exec, StopCall, StopReturn, ScrapeDmesg
  <2>4. Len(file') \in Nat /\ Len(file) <= Len(file')
    BY <2>1, FileLines DEF VacuumInv
  <2>5. Watermark' /\ TailMark'
    BY <2>1, <2>4, MarksStay
  <2>6. alive' \subseteq Writers
    BY <2>3 DEF VacuumInv, TypeOKVacuum, Writers
  <2>7. TypeOKVacuum' /\ Between'
    BY <2>1, <2>2, <2>6 DEF VacuumInv, TypeOKVacuum, Between
  <2>8. FreshLog'
    <3>1. CASE StopReturn
      <4>1. log' = {e.run : e \in Buffered}
        BY <3>1 DEF StopReturn
      <4>2. \A e \in Buffered : e.run \in {0, n} \cup uncleaned
        BY KeptLines DEF Buffered, VacuumInv, TypeOKVacuum
      <4> QED BY <2>1, <4>1, <4>2 DEF FreshLog
    <3>2. CASE log' = log
      BY <2>1, <3>2 DEF VacuumInv, FreshLog
    <3> QED BY <1>2, <3>1, <3>2 DEF Spawn, Exec, StopCall, ScrapeDmesg
  <2> QED BY <2>5, <2>7, <2>8 DEF VacuumInv
<1> QED BY <1>1, <1>2, CleanupKeeps DEF Caller
-----------------------------------------------------------------------------
(* The invariant and what it says                                           *)

LEMMA InitVacuum == Init => VacuumInv
<1> SUFFICES ASSUME Init PROVE VacuumInv
  OBVIOUS
<1>1. TypeOKVacuum /\ Between /\ FreshLog
  BY DEF Init, TypeOKVacuum, Between, FreshLog, Writers
<1>2. Watermark /\ TailMark
  BY DEF Init, Watermark, TailMark, Read
<1> QED BY <1>1, <1>2 DEF VacuumInv

LEMMA NextVacuum == VacuumInv /\ [Next]_vars => VacuumInv'
<1> SUFFICES ASSUME VacuumInv, [Next]_vars PROVE VacuumInv'
  OBVIOUS
<1>1. CASE UNCHANGED vars
  <2>1. UNCHANGED <<file, alive, console, thr, got, buf, kept, pc, n, log, uncleaned>>
    BY <1>1 DEF vars, board, wire, thread, caller
  <2>2. Writers' = Writers /\ Kept' = Kept
    BY <2>1, SameWriters
  <2>3. Len(file') \in Nat /\ Len(file) <= Len(file')
    BY <2>1, FileLines DEF VacuumInv
  <2>4. Watermark' /\ TailMark'
    BY <2>1, <2>3, MarksStay
  <2>5. TypeOKVacuum' /\ Between' /\ FreshLog'
    BY <2>1, <2>2 DEF VacuumInv, TypeOKVacuum, Between, FreshLog
  <2> QED BY <2>4, <2>5 DEF VacuumInv
<1> QED BY <1>1, EnvKeeps, PollKeeps, PreflightKeeps, CallerKeeps DEF Next

LEMMA VacuumInductive == Spec => []VacuumInv
  BY InitVacuum, NextVacuum, PTL DEF Spec

\* _poll_loop, which counts only the lines it kept and so asks again for some it
\* has, leaves no plain line of the file out before the last one it kept: also when
\* it reads over the console, which hides some lines, and when it catches a line
\* that is still being written.
THEOREM NoLineSkipped == Spec => []NothingSkipped
<1>1. VacuumInv => NothingSkipped
  <2> SUFFICES ASSUME VacuumInv, FromConsole \notin Buffered, NEW k \in DOMAIN buf,
                      NEW i \in 1 .. buf[k].at, file[i].kind = "plain"
               PROVE  \E j \in DOMAIN buf : buf[j].at = i
    BY DEF NothingSkipped
  <2>1. PICK l \in 0 .. Len(file) : Read(l)
    BY DEF VacuumInv, Watermark
  <2>2. buf[k].at \in Nat /\ buf[k].at <= l
    BY <2>1, KeptLines DEF Read, VacuumInv, TypeOKVacuum
  <2>3. i \in 1 .. l
    BY <2>1, <2>2
  <2> QED BY <2>1, <2>3 DEF Read
<1> QED BY <1>1, VacuumInductive, PTL

\* Lines of an earlier run are reported only if that run's killall and rm did not
\* reach the board.
THEOREM LogIsFresh == Spec => []FreshLog
<1>1. VacuumInv => FreshLog
  BY DEF VacuumInv
<1> QED BY <1>1, VacuumInductive, PTL
=============================================================================
