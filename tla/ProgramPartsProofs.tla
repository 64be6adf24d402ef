--------------------------- MODULE ProgramPartsProofs ---------------------------
(***************************************************************************)
(* Proofs about the parts of ProgramParts: for every list of variables and *)
(* every command line, every file and grid, and every cycle and offset.    *)
(***************************************************************************)
EXTENDS ProgramParts, TLAPS, FiniteSetTheorems

-------------------------------------------------------------------------------
(* The command line.                                                       *)

(* The queue has the words read so far, which are different variables.     *)
Copied ==
  /\ index <= NumberOfVariables
  /\ \A k \in Places : variablesToProcess[k] = IF k < index THEN argv[k + 1] ELSE Empty
  /\ \A k \in 1..index : argv[k] \in Names
  /\ \A j, k \in 1..index : argv[j] = argv[k] => j = k

(* Or it is the default list, without words or from "all" on.              *)
ByDefault ==
  /\ parser = "process" /\ variablesToProcess = Default
  /\ argv = <<>> \/ SaidAll

Refused ==
  /\ index < Len(argv)
  /\ Word = Unknown \/ \E k \in 1..index : argv[k] = Word

ArgInv ==
  /\ ArgTypeOK
  /\ Copied \/ ByDefault
  /\ parser = "date" => index = 0
  /\ parser = "words" => argv # <<>> /\ FitsQueue
  /\ parser = "exit" /\ index > 0 => Refused
  /\ ~FitsQueue => index = 0
  /\ parser = "process" /\ ~ByDefault =>
       argv # <<>> /\ (FitsQueue => index = Len(argv)) /\ ~SaidAll

(* The default list names each variable once; an argument is a word.       *)
LEMMA QueueFacts ==
  /\ NumberOfVariables \in Nat /\ NumberOfVariables > 0
  /\ Default \in [Places -> Names]
  /\ \A j, k \in Places : Default[j] = Default[k] => j = k
  /\ \A a \in CommandLines : a \in Seq(Words) /\ Len(a) \in Nat
<1>1. NumberOfVariables \in Nat /\ NumberOfVariables > 0
  BY DefaultAssumption DEF NumberOfVariables
<1>2. \A k \in Places : k + 1 \in 1..Len(DefaultOrder) /\ DefaultOrder[k + 1] \in Names
  BY <1>1, DefaultAssumption DEF Places, NumberOfVariables
<1>3. \A j, k \in Places : Default[j] = Default[k] => j = k
  BY <1>1, <1>2, DefaultAssumption DEF Default, Places
<1>4. \A a \in CommandLines : a \in Seq(Words) /\ Len(a) \in Nat
  BY CommandLineAssumption
<1> QED BY <1>1, <1>2, <1>3, <1>4 DEF Default

(* What processQueueContains() finds in a queue of either kind.            *)
LEMMA FilledPlaces ==
  ASSUME ArgInv
  PROVE  /\ Copied => Filled = 0..(index - 1)
         /\ ByDefault => Filled = Places
<1>1. index \in Nat /\ NumberOfVariables \in Nat
  BY QueueFacts DEF ArgInv, ArgTypeOK
<1>2. Copied => Filled = 0..(index - 1)
  <2> SUFFICES ASSUME Copied  PROVE Filled = 0..(index - 1)
    OBVIOUS
  <2>1. \A k \in 0..(index - 1) : k \in Places /\ variablesToProcess[k] # Empty
    BY <1>1, NamesAssumption DEF Copied, Places
  <2>2. \A k \in Places : k >= index => variablesToProcess[k] = Empty
    BY <1>1 DEF Copied, Places
  <2>3. \A k \in Filled : k \in Places /\ k < index
    BY <1>1, <2>2 DEF Filled, Places
  <2>4. \A k \in 0..(index - 1) : k \in Filled
    BY <1>1, <2>1 DEF Filled, Places
  <2>5. \A k : k \in Filled <=> k \in 0..(index - 1)
    BY <1>1, <2>3, <2>4 DEF Places, Filled
  <2> QED BY <2>5
<1>3. ByDefault => Filled = Places
  BY <1>1, QueueFacts, NamesAssumption DEF ByDefault, Filled, Places
<1> QED BY <1>2, <1>3

(* The command line: the invariant holds at the beginning,                 *)
LEMMA ArgStartInv == argv \in CommandLines /\ ArgStart => ArgInv
BY QueueFacts DEF ArgStart, ArgInv, ArgTypeOK, Copied, Places, ByDefault

(* and every step keeps it.                                                *)
LEMMA ArgStepInv == ArgInv /\ ArgNext => ArgInv'
<1> SUFFICES ASSUME ArgInv, ArgNext  PROVE ArgInv'
  OBVIOUS
<1>1. /\ index \in Nat /\ NumberOfVariables \in Nat /\ Len(argv) \in Nat /\ index <= Len(argv)
      /\ argv \in Seq(Words) /\ argv' = argv /\ ArgTypeOK /\ (Len(argv) = 0 <=> argv = <<>>)
  BY QueueFacts DEF ArgInv, ArgTypeOK, ArgNext, BadDate, NoNames, ReadNames, TooManyNames,
     AddVariable, AddAll, RefuseWord, EndOfWords
<1> USE DEF ArgInv, ArgTypeOK, FitsQueue
<1>2. CASE BadDate
  BY <1>1, <1>2 DEF BadDate, Copied, ByDefault
<1>3. CASE NoNames
  BY <1>1, <1>3, QueueFacts DEF NoNames, ByDefault
<1>4. CASE ReadNames
  BY <1>1, <1>4 DEF ReadNames, Copied, ByDefault
<1>5. CASE TooManyNames
  BY <1>1, <1>5 DEF TooManyNames, Copied, ByDefault, SaidAll
<1>6. CASE AddVariable
  <2>1. Copied /\ index < NumberOfVariables /\ index < Len(argv) /\ Word = argv[index + 1]
    BY <1>1, <1>6 DEF AddVariable, Reading, ByDefault, Word
  <2>2. \A k \in 1..index : argv[k] # Word
    <3>1. Filled = 0..(index - 1)
      BY <2>1, FilledPlaces
    <3>2. \A k \in 0..(index - 1) : variablesToProcess[k] # Word
      BY <1>6, <3>1 DEF AddVariable, ProcessQueueContains
    <3>3. \A k \in 0..(index - 1) : variablesToProcess[k] = argv[k + 1]
      BY <1>1, <2>1 DEF Copied, Places
    <3>4. \A k \in 1..index : k - 1 \in 0..(index - 1) /\ (k - 1) + 1 = k
      BY <1>1
    <3> QED BY <3>2, <3>3, <3>4
  <2>3. Copied'
    BY <1>1, <1>6, <2>1, <2>2 DEF AddVariable, Copied, Places
  <2>4. ArgTypeOK' /\ parser' = "words"
    BY <1>1, <1>6, <2>1 DEF AddVariable, Reading, Places
  <2> QED BY <1>1, <1>6, <2>3, <2>4 DEF AddVariable, Reading
<1>7. CASE AddAll
  BY <1>1, <1>7, QueueFacts DEF AddAll, Reading, ByDefault, SaidAll, Word
<1>8. CASE RefuseWord
  <2>1. Copied /\ index < Len(argv) /\ Word \in Words
    BY <1>1, <1>8 DEF RefuseWord, Reading, ByDefault, Word
  <2>2. Word \in Names => \E k \in 1..index : argv[k] = Word
    <3>1. Filled = 0..(index - 1)
      BY <2>1, FilledPlaces
    <3>2. \A k \in 0..(index - 1) : variablesToProcess[k] = argv[k + 1] /\ k + 1 \in 1..index
      BY <1>1, <2>1 DEF Copied, Places
    <3> QED BY <1>8, <3>1, <3>2 DEF RefuseWord, ProcessQueueContains
  <2>3. Refused'
    BY <1>1, <1>8, <2>1, <2>2 DEF RefuseWord, Refused, Words, Word
  <2> QED BY <1>1, <1>8, <2>1, <2>3 DEF RefuseWord, Copied
<1>9. CASE EndOfWords
  BY <1>1, <1>9 DEF EndOfWords, Copied, ByDefault, SaidAll
<1> QED BY <1>2, <1>3, <1>4, <1>5, <1>6, <1>7, <1>8, <1>9 DEF ArgNext

(* The search finds what is listed, and nothing else that is a variable.   *)
LEMMA ArgInvExact == ArgInv => SearchIsExact
<1> SUFFICES ASSUME ArgInv  PROVE SearchIsExact
  OBVIOUS
<1>1. index \in Nat /\ NumberOfVariables \in Nat
  BY QueueFacts DEF ArgInv, ArgTypeOK
<1>2. CASE Copied
  <2>1. Filled = 0..(index - 1)
    BY <1>2, FilledPlaces
  <2>2. \A k \in Places : variablesToProcess[k] # Empty => k \in Filled
    BY <1>1, <1>2, <2>1 DEF Copied, Places
  <2>3. \A k \in Filled : k + 1 \in 1..index /\ variablesToProcess[k] = argv[k + 1]
    BY <1>1, <1>2, <2>1 DEF Copied, Places
  <2>4. \A j, k \in Filled : j + 1 = k + 1 => j = k
    BY <2>1
  <2>5. \A j, k \in Filled : variablesToProcess[j] = variablesToProcess[k] => j = k
    BY <1>2, <2>3, <2>4 DEF Copied
  <2> QED BY <2>2, <2>5 DEF SearchIsExact
<1>3. CASE ByDefault
  <2>1. Filled = Places
    BY <1>3, FilledPlaces
  <2> QED BY <1>3, <2>1, QueueFacts DEF SearchIsExact, ByDefault
<1> QED BY <1>2, <1>3 DEF ArgInv

(* The list holds what the command line asks for.                          *)
LEMMA ArgInvListed == ArgInv => AsListed
<1> SUFFICES ASSUME ArgInv  PROVE AsListed
  OBVIOUS
<1>1. index \in Nat /\ NumberOfVariables \in Nat /\ Len(argv) \in Nat /\ index <= Len(argv)
      /\ argv \in Seq(Words)
  BY QueueFacts DEF ArgInv, ArgTypeOK
<1>2. Processed = {v \in Names : \E k \in Filled : variablesToProcess[k] = v}
  BY DEF Processed, ProcessQueueContains
<1>3. ASSUME Copied, index = Len(argv)  PROVE Processed = Requested
  <2>1. Filled = 0..(index - 1)
    BY <1>3, FilledPlaces
  <2>2. \A k \in Filled : k + 1 \in 1..index /\ variablesToProcess[k] = argv[k + 1]
    BY <1>1, <1>3, <2>1 DEF Copied, Places
  <2>3. \A k \in 1..index : k - 1 \in Filled /\ (k - 1) + 1 = k /\ argv[k] \in Names
    BY <1>1, <1>3, <2>1 DEF Copied
  <2>4. ASSUME NEW v \in Processed  PROVE v \in Requested
    <3>1. PICK k \in Filled : variablesToProcess[k] = v
      BY <1>2
    <3>2. v \in Names /\ k + 1 \in 1..index /\ argv[k + 1] = v
      BY <1>2, <2>2, <3>1
    <3> QED BY <1>3, <3>2 DEF Requested
  <2>5. ASSUME NEW v \in Requested  PROVE v \in Processed
    <3>1. PICK k \in 1..index : argv[k] = v
      BY <1>3 DEF Requested
    <3>2. k - 1 \in Filled /\ variablesToProcess[k - 1] = v /\ v \in Names
      BY <2>2, <2>3, <3>1
    <3> QED BY <1>2, <3>2
  <2> QED BY <2>4, <2>5
<1>4. ASSUME Copied, index = Len(argv)  PROVE Correct
  BY <1>4, NamesAssumption DEF Copied, Requested, Correct
<1>5. SaidAll => All \in Requested
  BY <1>1 DEF SaidAll, Requested, Word
<1>6. Refused => ~Correct
  <2>1. Refused => index + 1 \in 1..Len(argv) /\ \A k \in 1..index : k \in 1..Len(argv) /\ k # index + 1
    BY <1>1 DEF Refused
  <2> QED BY <2>1 DEF Refused, Word, Requested, Correct
<1>7. FitsWithoutAll \/ (argv # <<>> /\ ~FitsQueue) => ~ByDefault
  BY <1>5 DEF FitsWithoutAll, ByDefault, SaidAll, FitsQueue
<1>8. ASSUME argv # <<>>, ~FitsQueue
      PROVE  index = 0 /\ Processed = {}
  <2>1. Copied /\ index = 0  BY <1>7, <1>8 DEF ArgInv
  <2>2. Filled = {}  BY <2>1, FilledPlaces
  <2> QED BY <1>2, <2>1, <2>2
<1> QED BY <1>3, <1>4, <1>6, <1>7, <1>8 DEF ArgInv, AsListed, FitsWithoutAll

-------------------------------------------------------------------------------
(* The end of the time interval.                                           *)

(* qleap() knows the leap years.                                           *)
LEMMA QleapIsLeapYear == \A y \in Nat : qleap(y) <=> LeapYear(y)
BY DEF qleap, LeapYear

(* The length of a year.                                                   *)
LEMMA YearLength ==
  ASSUME NEW y \in Nat, y >= 1
  PROVE  /\ DaysBeforeYear(y) \in Int
         /\ DaysBeforeYear(y + 1) = DaysBeforeYear(y) + 365 + (IF LeapYear(y) THEN 1 ELSE 0)
<1>1. y \div 4 = (y - 1) \div 4 + (IF y % 4 = 0 THEN 1 ELSE 0)
  OBVIOUS
<1>2. y \div 100 = (y - 1) \div 100 + (IF y % 100 = 0 THEN 1 ELSE 0)
  OBVIOUS
<1>3. y \div 400 = (y - 1) \div 400 + (IF y % 400 = 0 THEN 1 ELSE 0)
  OBVIOUS
<1>4. (y % 100 = 0 => y % 4 = 0) /\ (y % 400 = 0 => y % 100 = 0)
  OBVIOUS
<1>5. DaysBeforeYear(y) \in Int
  BY DEF DaysBeforeYear
<1> QED BY <1>1, <1>2, <1>3, <1>4, <1>5 DEF DaysBeforeYear, LeapYear

(* The table of timeAdd() with its leap day is the calendar's.             *)
LEMMA MonthLength ==
  ASSUME NEW y \in Nat, NEW m \in 1..12
  PROVE  /\ DaysInMonth(y, m) = IF m = 2 /\ qleap(y) THEN 29 ELSE mosiz(m)
         /\ m < 12 => DaysBeforeMonth(y, m + 1) = DaysBeforeMonth(y, m) + DaysInMonth(y, m)
         /\ m = 12 => DaysBeforeMonth(y, 1) + 365 + (IF LeapYear(y) THEN 1 ELSE 0)
                        = DaysBeforeMonth(y, m) + DaysInMonth(y, m)
         /\ mosiz(m) \in 28..31 /\ DaysBeforeMonth(y, m) \in Int
<1>0. m \in {1, 2, 3, 4, 5, 6, 7, 8, 9, 10, 11, 12}
  OBVIOUS
<1>1. mosiz(m) = CASE m = 2 -> 28 [] m \in {4, 6, 9, 11} -> 30 [] OTHER -> 31
  BY <1>0 DEF mosiz
<1>2. qleap(y) <=> LeapYear(y)
  BY QleapIsLeapYear
<1>3. /\ DaysInMonth(y, m) = IF m = 2 /\ qleap(y) THEN 29 ELSE mosiz(m)
      /\ mosiz(m) \in 28..31
  BY <1>0, <1>1, <1>2 DEF DaysInMonth
<1>4. m < 12 => DaysBeforeMonth(y, m + 1) = DaysBeforeMonth(y, m) + DaysInMonth(y, m)
  BY <1>0 DEF DaysBeforeMonth, DaysInMonth
<1>5. m = 12 => DaysBeforeMonth(y, 1) + 365 + (IF LeapYear(y) THEN 1 ELSE 0)
                  = DaysBeforeMonth(y, m) + DaysInMonth(y, m)
  BY <1>0 DEF DaysBeforeMonth, DaysInMonth
<1>6. DaysBeforeMonth(y, m) \in Int
  BY <1>0 DEF DaysBeforeMonth
<1> QED BY <1>3, <1>4, <1>5, <1>6

(* Assignments to two or three fields of a struct dt.                      *)
LEMMA SetDayMonth ==
  ASSUME NEW r \in Time, NEW x \in Nat, NEW y \in Nat
  PROVE  [r EXCEPT !.dy = x, !.mo = y]
           = [yr |-> r.yr, mo |-> y, dy |-> x, hr |-> r.hr, mn |-> r.mn]
<1> DEFINE s == [r EXCEPT !.dy = x, !.mo = y]
<1>1. s \in Time
  BY DEF Time
<1>2. s.yr = r.yr /\ s.mo = y /\ s.dy = x /\ s.hr = r.hr /\ s.mn = r.mn
  BY DEF Time
<1> HIDE DEF s
<1>3. s = [yr |-> r.yr, mo |-> y, dy |-> x, hr |-> r.hr, mn |-> r.mn]
  BY <1>1, <1>2 DEF Time
<1> QED BY <1>3 DEF s

(* Month and year, set one after the other.                                *)
LEMMA SetMonthYear ==
  ASSUME NEW r \in Time, NEW x \in Nat, NEW y \in Nat
  PROVE  [r EXCEPT !.mo = x, !.yr = y]
           = [yr |-> y, mo |-> x, dy |-> r.dy, hr |-> r.hr, mn |-> r.mn]
<1> DEFINE s == [r EXCEPT !.mo = x, !.yr = y]
<1>1. s \in Time
  BY DEF Time
<1>2. s.yr = y /\ s.mo = x /\ s.dy = r.dy /\ s.hr = r.hr /\ s.mn = r.mn
  BY DEF Time
<1> HIDE DEF s
<1>3. s = [yr |-> y, mo |-> x, dy |-> r.dy, hr |-> r.hr, mn |-> r.mn]
  BY <1>1, <1>2 DEF Time
<1> QED BY <1>3 DEF s

(* Minute, hour and day, set one after the other.                          *)
LEMMA SetRest ==
  ASSUME NEW r \in Time, NEW x \in Nat, NEW y \in Nat, NEW z \in Nat
  PROVE  [r EXCEPT !.mn = x, !.hr = y, !.dy = z]
           = [yr |-> r.yr, mo |-> r.mo, dy |-> z, hr |-> y, mn |-> x]
<1> DEFINE s == [r EXCEPT !.mn = x, !.hr = y, !.dy = z]
<1>1. s \in Time
  BY DEF Time
<1>2. s.yr = r.yr /\ s.mo = r.mo /\ s.dy = z /\ s.hr = y /\ s.mn = x
  BY DEF Time
<1> HIDE DEF s
<1>3. s = [yr |-> r.yr, mo |-> r.mo, dy |-> z, hr |-> y, mn |-> x]
  BY <1>1, <1>2 DEF Time
<1> QED BY <1>3 DEF s

(* One month less and one month on is the same time.                       *)
LEMMA CarryKeepsTime ==
  ASSUME NEW d \in Time, d.yr >= 1, d.mo \in 1..12, d.dy > DaysInMonth(d.yr, d.mo)
  PROVE  LET e == CarryMonth([d EXCEPT !.dy = @ - DaysInMonth(d.yr, d.mo), !.mo = @ + 1])
         IN  /\ e \in Time /\ e.yr >= 1 /\ e.mo \in 1..12 /\ e.dy >= 1
             /\ e.hr = d.hr /\ e.mn = d.mn /\ MinutesOf(e) = MinutesOf(d)
<1> DEFINE n == DaysInMonth(d.yr, d.mo)
           e == CarryMonth([d EXCEPT !.dy = @ - n, !.mo = @ + 1])
           Same == /\ e \in Time /\ e.yr >= 1 /\ e.mo \in 1..12 /\ e.dy >= 1
                   /\ e.hr = d.hr /\ e.mn = d.mn /\ MinutesOf(e) = MinutesOf(d)
<1>1. /\ d = [yr |-> d.yr, mo |-> d.mo, dy |-> d.dy, hr |-> d.hr, mn |-> d.mn]
      /\ d.yr \in Nat /\ d.mo \in Nat /\ d.dy \in Nat /\ d.hr \in Nat /\ d.mn \in Nat
  BY DEF Time
<1>2. n \in 28..31
  BY <1>1, MonthLength
<1> HIDE DEF n
<1>3. d.dy - n \in Nat /\ d.dy - n >= 1 /\ d.mo + 1 \in Nat
  BY <1>1, <1>2 DEF n
<1>4. e = IF d.mo = 12
          THEN [yr |-> d.yr + 1, mo |-> 1, dy |-> d.dy - n, hr |-> d.hr, mn |-> d.mn]
          ELSE [yr |-> d.yr, mo |-> d.mo + 1, dy |-> d.dy - n, hr |-> d.hr, mn |-> d.mn]
  <2> DEFINE f == [d EXCEPT !.dy = @ - n, !.mo = @ + 1]
  <2>1. f = [yr |-> d.yr, mo |-> d.mo + 1, dy |-> d.dy - n, hr |-> d.hr, mn |-> d.mn]
    BY <1>3, SetDayMonth
  <2> HIDE DEF f
  <2>2. CarryMonth(f) = IF f.mo > 12 THEN [f EXCEPT !.mo = @ - 12, !.yr = @ + 1] ELSE f
    BY DEF CarryMonth
  <2>3. f.mo > 12 <=> d.mo = 12
    BY <1>1, <2>1
  <2>4. d.mo = 12 => [f EXCEPT !.mo = @ - 12, !.yr = @ + 1]
                       = [yr |-> d.yr + 1, mo |-> 1, dy |-> d.dy - n, hr |-> d.hr, mn |-> d.mn]
    <3>1. f \in Time /\ f.yr = d.yr /\ f.dy = d.dy - n /\ f.hr = d.hr /\ f.mn = d.mn
          /\ f.mo = d.mo + 1
      BY <1>1, <1>3, <2>1 DEF Time
    <3>2. [f EXCEPT !.mo = 1, !.yr = d.yr + 1]
            = [yr |-> d.yr + 1, mo |-> 1, dy |-> d.dy - n, hr |-> d.hr, mn |-> d.mn]
      <4>1. d.yr + 1 \in Nat /\ 1 \in Nat /\ f \in Time
        BY <1>1, <3>1
      <4>2. [f EXCEPT !.mo = 1, !.yr = d.yr + 1]
              = [yr |-> d.yr + 1, mo |-> 1, dy |-> f.dy, hr |-> f.hr, mn |-> f.mn]
        BY <4>1, SetMonthYear, Zenon
      <4>3. f.dy = d.dy - n /\ f.hr = d.hr /\ f.mn = d.mn
        BY <3>1
      <4> QED BY <4>2, <4>3, Zenon
    <3>3. d.mo = 12 => f.mo - 12 = 1 /\ f.yr + 1 = d.yr + 1
      BY <3>1
    <3> QED BY <3>2, <3>3
  <2> QED BY <2>1, <2>2, <2>3, <2>4 DEF f
<1> HIDE DEF e
<1>5. ASSUME d.mo = 12  PROVE Same
  <2>1. DaysBeforeYear(d.yr + 1) + DaysBeforeMonth(d.yr + 1, 1)
          = DaysBeforeYear(d.yr) + DaysBeforeMonth(d.yr, d.mo) + n
    <3>1. DaysBeforeMonth(d.yr + 1, 1) = DaysBeforeMonth(d.yr, 1) /\ DaysBeforeMonth(d.yr, 1) \in Int
      BY DEF DaysBeforeMonth
    <3>2. DaysBeforeYear(d.yr + 1) = DaysBeforeYear(d.yr) + 365 + (IF LeapYear(d.yr) THEN 1 ELSE 0)
          /\ DaysBeforeYear(d.yr) \in Int
      BY <1>1, YearLength
    <3>3. DaysBeforeMonth(d.yr, 1) + 365 + (IF LeapYear(d.yr) THEN 1 ELSE 0)
            = DaysBeforeMonth(d.yr, d.mo) + n
          /\ DaysBeforeMonth(d.yr, d.mo) \in Int
      BY <1>1, <1>5, MonthLength DEF n
    <3> QED BY <1>2, <3>1, <3>2, <3>3
  <2>2. /\ DaysBeforeYear(d.yr + 1) \in Int /\ DaysBeforeMonth(d.yr + 1, 1) \in Int
        /\ DaysBeforeYear(d.yr) \in Int /\ DaysBeforeMonth(d.yr, d.mo) \in Int
    BY <1>1, YearLength, MonthLength
  <2>3. MinutesOf(e) = MinutesOf(d)
    BY <1>1, <1>2, <1>3, <1>4, <1>5, <2>1, <2>2 DEF MinutesOf
  <2> QED BY <1>1, <1>3, <1>4, <1>5, <2>3 DEF Time
<1>6. ASSUME d.mo # 12  PROVE Same
  <2>1. /\ DaysBeforeMonth(d.yr, d.mo + 1) = DaysBeforeMonth(d.yr, d.mo) + n
        /\ DaysBeforeMonth(d.yr, d.mo) \in Int /\ DaysBeforeYear(d.yr) \in Int
    BY <1>1, <1>6, MonthLength, YearLength DEF n
  <2>2. MinutesOf(e) = MinutesOf(d)
    BY <1>1, <1>2, <1>3, <1>4, <1>6, <2>1 DEF MinutesOf
  <2> QED BY <1>1, <1>3, <1>4, <1>6, <2>2 DEF Time
<1> QED BY <1>5, <1>6 DEF n, e

(* dto has the year and month of the initial time, and the offset; from    *)
(* then on it is the time to be returned, though not yet as a date.        *)
Entered == dto = [yr |-> dtim.yr, mo |-> dtim.mo, dy |-> 0, hr |-> offset, mn |-> 0]

Added ==
  /\ MinutesOf(dto) = MinutesOf(dtim) + 60 * offset
  /\ dto.yr >= 1 /\ dto.dy >= 1 /\ dto.hr \in 0..23 /\ dto.mn \in 0..59

TimeInv ==
  /\ TimeTypeOK
  /\ timeAt \in {"months", "rest"} => Entered /\ cont
  /\ timeAt \in {"days", "return"} => Added
  /\ ~cont => LeapFebruary /\ dto.dy = 29
  /\ timeAt = "return" => dto.dy <= mosiz(dto.mo) \/ ~cont

(* The time that timeAdd() is called with.                                 *)
LEMMA InitialTimeFacts ==
  ASSUME TimeTypeOK
  PROVE  /\ dtim \in Time /\ offset \in Nat /\ ValidTime(dtim)
         /\ dtim.yr \in Nat /\ dtim.yr >= 1 /\ dtim.mo \in 1..12 /\ dtim.dy \in Nat
         /\ dtim.dy >= 1 /\ dtim.hr \in 0..23 /\ dtim.mn \in 0..59
<1>1. dtim \in Time /\ offset \in Nat /\ ValidTime(dtim)
  BY InitialTimesAssumption, OffsetsAssumption DEF TimeTypeOK
<1>2. dtim.yr \in Nat /\ dtim.mo \in Nat /\ dtim.dy \in Nat
  BY <1>1 DEF Time
<1>3. dtim.yr >= 1 /\ dtim.mo \in 1..12 /\ dtim.dy \in 1..DaysInMonth(dtim.yr, dtim.mo)
      /\ dtim.hr \in 0..23 /\ dtim.mn \in 0..59
  BY <1>1 DEF ValidTime
<1>4. DaysInMonth(dtim.yr, dtim.mo) \in Int
  BY <1>2, <1>3 DEF DaysInMonth
<1> QED BY <1>1, <1>2, <1>3, <1>4

(* timeAdd(): the invariant holds at the beginning,                        *)
LEMMA TimeStartInv ==
  dtim \in InitialTimes /\ offset \in Offsets /\ TimeStart => TimeInv
<1> SUFFICES ASSUME dtim \in InitialTimes, offset \in Offsets, TimeStart  PROVE TimeInv
  OBVIOUS
<1>1. dtim \in Time /\ offset \in Nat /\ ValidTime(dtim)
  BY InitialTimesAssumption, OffsetsAssumption
<1>2. dto \in Time /\ dto.mo \in 1..12
  BY <1>1 DEF TimeStart, Time, ValidTime
<1> QED BY <1>2 DEF TimeStart, TimeInv, TimeTypeOK, Entered

(* The offset is added in minutes, hours and days.                         *)
LEMMA AddRestAdds == TimeInv /\ AddRest => TimeInv'
<1> SUFFICES ASSUME TimeInv, AddRest  PROVE TimeInv'
  OBVIOUS
<1>1. /\ dtim \in Time /\ offset \in Nat /\ dtim.yr \in Nat /\ dtim.yr >= 1
      /\ dtim.mo \in 1..12 /\ dtim.dy \in Nat /\ dtim.dy >= 1
      /\ dtim.hr \in 0..23 /\ dtim.mn \in 0..59
  BY InitialTimeFacts DEF TimeInv
<1> DEFINE hr == offset + dtim.hr
           days == dtim.dy + hr \div 24
<1>2. hr \in Nat /\ hr % 24 \in 0..23 /\ hr \div 24 \in Nat /\ hr = 24 * (hr \div 24) + (hr % 24)
  <2>1. \A h \in Nat : h % 24 \in 0..23 /\ h \div 24 \in Nat /\ h = 24 * (h \div 24) + (h % 24)
    OBVIOUS
  <2>2. hr \in Nat
    BY <1>1
  <2> HIDE DEF hr
  <2> QED BY <2>1, <2>2
<1> HIDE DEF hr
<1>3. days \in Nat /\ days >= 1
  BY <1>1, <1>2
<1>4. /\ dto = [yr |-> dtim.yr, mo |-> dtim.mo, dy |-> 0, hr |-> offset, mn |-> 0]
      /\ cont /\ timeAt' = "days" /\ UNCHANGED <<dtim, offset, cont>>
  BY DEF TimeInv, Entered, AddRest
<1>5. dto' = [yr |-> dtim.yr, mo |-> dtim.mo, dy |-> days, hr |-> hr % 24, mn |-> dtim.mn]
  <2>1. dto' = [dto EXCEPT !.mn = (dto.mn + dtim.mn) % 60,
                           !.hr = (dto.hr + dtim.hr + (dto.mn + dtim.mn) \div 60) % 24,
                           !.dy = @ + dtim.dy + (dto.hr + dtim.hr + (dto.mn + dtim.mn) \div 60) \div 24]
    BY DEF AddRest
  <2>2. /\ dto.mn = 0 /\ dto.hr = offset /\ dto.dy = 0 /\ dto.yr = dtim.yr /\ dto.mo = dtim.mo
        /\ dto \in Time
    BY <1>4 DEF TimeInv, TimeTypeOK
  <2>3. /\ (dto.mn + dtim.mn) % 60 = dtim.mn /\ (dto.mn + dtim.mn) \div 60 = 0
        /\ dto.hr + dtim.hr + 0 = hr
    BY <1>1, <2>2 DEF hr
  <2>4. dto.dy + dtim.dy + hr \div 24 = days
    BY <1>1, <1>2, <2>2
  <2> HIDE DEF days
  <2>5. dto' = [dto EXCEPT !.mn = dtim.mn, !.hr = hr % 24, !.dy = days]
    BY <2>1, <2>3, <2>4
  <2>6. dtim.mn \in Nat /\ hr % 24 \in Nat
    BY <1>1, <1>2
  <2>7. [dto EXCEPT !.mn = dtim.mn, !.hr = hr % 24, !.dy = days]
          = [yr |-> dto.yr, mo |-> dto.mo, dy |-> days, hr |-> hr % 24, mn |-> dtim.mn]
    <3>1. dto \in Time
      BY <2>2
    <3>2. \A x, y, z \in Nat : [dto EXCEPT !.mn = x, !.hr = y, !.dy = z]
            = [yr |-> dto.yr, mo |-> dto.mo, dy |-> z, hr |-> y, mn |-> x]
      BY <3>1, SetRest
    <3> QED BY <1>3, <2>6, <3>2, Zenon
  <2> QED BY <2>2, <2>5, <2>7
<1>6. MinutesOf(dto') = MinutesOf(dtim) + 60 * offset
  <2>1. DaysBeforeYear(dtim.yr) \in Int /\ DaysBeforeMonth(dtim.yr, dtim.mo) \in Int
    BY <1>1, YearLength, MonthLength
  <2>2. days = dtim.dy + hr \div 24 /\ hr = offset + dtim.hr
    BY DEF hr
  <2> HIDE DEF days
  <2>3. MinutesOf(dto') = 60 * (24 * (DaysBeforeYear(dtim.yr) + DaysBeforeMonth(dtim.yr, dtim.mo) + days - 1)
                                + (hr % 24)) + dtim.mn
    BY <1>5 DEF MinutesOf
  <2>4. MinutesOf(dtim) = 60 * (24 * (DaysBeforeYear(dtim.yr) + DaysBeforeMonth(dtim.yr, dtim.mo)
                                      + dtim.dy - 1) + dtim.hr) + dtim.mn
    BY DEF MinutesOf
  <2> DEFINE q == hr \div 24
             r == hr % 24
             x == DaysBeforeYear(dtim.yr) + DaysBeforeMonth(dtim.yr, dtim.mo) + dtim.dy - 1
  <2>5. q \in Int /\ r \in Int /\ offset + dtim.hr = 24 * q + r
    BY <1>2, <2>2
  <2>6. x \in Int /\ DaysBeforeYear(dtim.yr) + DaysBeforeMonth(dtim.yr, dtim.mo) + days - 1 = x + q
    BY <1>1, <2>1, <2>2, <2>5
  <2>7. MinutesOf(dtim) = 60 * (24 * x + dtim.hr) + dtim.mn
    BY <2>4
  <2>8. MinutesOf(dto') = 60 * (24 * (x + q) + r) + dtim.mn
    BY <2>3, <2>6
  <2> HIDE DEF q, r, x
  <2>9. dtim.hr \in Int /\ dtim.mn \in Int /\ offset \in Int
    BY <1>1
  <2>10. r = offset + dtim.hr - 24 * q
    BY <2>5, <2>9
  <2>11. 60 * (24 * (x + q) + r) + dtim.mn = (60 * (24 * x + dtim.hr) + dtim.mn) + 60 * offset
    BY <2>5, <2>6, <2>9, <2>10
  <2> QED BY <2>7, <2>8, <2>11
<1> HIDE DEF days
<1>7. dto' \in Time /\ dto'.mo \in 1..12
  BY <1>1, <1>2, <1>3, <1>5 DEF Time
<1>8. TimeTypeOK'
  BY <1>4, <1>7 DEF TimeInv, TimeTypeOK
<1>9. Added'
  BY <1>1, <1>2, <1>3, <1>4, <1>5, <1>6 DEF Added
<1> QED BY <1>4, <1>8, <1>9 DEF TimeInv

(* The time it works on, and the length of its month.                      *)
LEMMA DtoFacts ==
  ASSUME TimeTypeOK
  PROVE  /\ dto \in Time /\ dto.yr \in Nat /\ dto.mo \in 1..12 /\ dto.dy \in Nat
         /\ DaysInMonth(dto.yr, dto.mo) = IF LeapFebruary THEN 29 ELSE mosiz(dto.mo)
         /\ mosiz(dto.mo) \in 28..31 /\ (LeapFebruary => mosiz(dto.mo) = 28)
<1>1. dto \in Time /\ dto.yr \in Nat /\ dto.mo \in 1..12 /\ dto.dy \in Nat
  BY DEF TimeTypeOK, Time
<1>2. mosiz(2) = 28
  BY DEF mosiz
<1> QED BY <1>1, <1>2, MonthLength DEF LeapFebruary

(* and every step keeps it.                                                *)
LEMMA TimeStepInv == TimeInv /\ TimeNext => TimeInv'
<1> SUFFICES ASSUME TimeInv, TimeNext  PROVE TimeInv'
  OBVIOUS
<1>1. TimeTypeOK
  BY DEF TimeInv
<1>2. CASE NormalizeMonths
  <2>1. CarryMonth(dto) = dto
    BY <1>1, DtoFacts DEF CarryMonth
  <2> QED BY <1>2, <2>1 DEF NormalizeMonths, TimeInv, TimeTypeOK, Entered, LeapFebruary
<1>3. CASE AddRest
  BY <1>3, AddRestAdds
<1>4. CASE StayOnLeapDay
  BY <1>4 DEF StayOnLeapDay, DaysLeft, TimeInv, TimeTypeOK, Added, LeapFebruary
<1>5. CASE CarryDays
  <2> DEFINE n == DaysInMonth(dto.yr, dto.mo)
             e == CarryMonth([dto EXCEPT !.dy = @ - n, !.mo = @ + 1])
  <2>1. /\ timeAt = "days" /\ timeAt' = "days" /\ cont /\ Added
        /\ UNCHANGED <<dtim, offset, cont>>
    BY <1>5 DEF CarryDays, DaysLeft, TimeInv
  <2>2. dto.dy > n
    BY <1>1, <1>5, DtoFacts DEF CarryDays, DaysLeft
  <2>3. dto' = e
    BY <1>1, <1>5, DtoFacts DEF CarryDays
  <2>4. /\ e \in Time /\ e.yr >= 1 /\ e.mo \in 1..12 /\ e.dy >= 1
        /\ e.hr = dto.hr /\ e.mn = dto.mn /\ MinutesOf(e) = MinutesOf(dto)
    BY <1>1, <2>1, <2>2, DtoFacts, CarryKeepsTime DEF Added
  <2> HIDE DEF e
  <2>5. Added'
    BY <2>1, <2>3, <2>4 DEF Added, MinutesOf
  <2>6. TimeTypeOK'
    BY <1>1, <2>1, <2>3, <2>4 DEF TimeTypeOK
  <2> QED BY <2>1, <2>5, <2>6 DEF TimeInv
<1>6. CASE ReturnTime
  <2>1. dto.dy <= mosiz(dto.mo) \/ ~cont
    BY <1>1, <1>6, DtoFacts DEF ReturnTime, DaysLeft
  <2> QED BY <1>6, <2>1 DEF ReturnTime, TimeInv, TimeTypeOK, Added, LeapFebruary
<1> QED BY <1>2, <1>3, <1>4, <1>5, <1>6 DEF TimeNext

(* What has been added and what is still to be added make the offset.      *)
LEMMA TimeInvKept == TimeInv => TimeKept
<1> SUFFICES ASSUME TimeInv  PROVE TimeKept
  OBVIOUS
<1>1. TimeTypeOK
  BY DEF TimeInv
<1>2. timeAt = "return" => ValidTime(dto)
  BY <1>1, DtoFacts DEF TimeInv, Added, ValidTime
<1> QED BY <1>2 DEF TimeKept, TimeInv, Added

(* The order of dates by year, month, day and hour, as util.c compares     *)
(* them, is the order of the ten digits read as one number, and the order  *)
(* of the points in time.                                                  *)
Early(y, m, d, h) ==
  \/ y < 2020
  \/ y = 2020 /\ m < 9
  \/ y = 2020 /\ m = 9 /\ d < 23
  \/ y = 2020 /\ m = 9 /\ d = 23 /\ h < 12

(* The number of ten digits that ncdcTigge.pm compares orders the dates.   *)
LEMMA DigitsAreDates ==
  ASSUME NEW t, NEW y \in Nat, NEW m \in 1..12, NEW d \in 1..31, NEW h \in 0..23,
         t.yr = y, t.mo = m, t.dy = d, t.hr = h
  PROVE  get_n_members_perl(t) = IF Early(y, m, d, h) THEN 21 ELSE 31
<1>0. get_n_members_perl(t) =
        IF 1000000 * y + 10000 * m + 100 * d + h >= 2020092312 THEN 31 ELSE 21
  BY DEF get_n_members_perl, Cycle
<1>1. CASE y < 2020
  BY <1>0, <1>1 DEF Early
<1>2. CASE y > 2020
  BY <1>0, <1>2 DEF Early
<1>3. CASE y = 2020 /\ m < 9
  BY <1>0, <1>3 DEF Early
<1>4. CASE y = 2020 /\ m > 9
  BY <1>0, <1>4 DEF Early
<1>5. CASE y = 2020 /\ m = 9
  BY <1>0, <1>5 DEF Early
<1> QED BY <1>1, <1>2, <1>3, <1>4, <1>5

(* A month starts within five days of where months of thirty days would    *)
(* put it, and years are at least 365 days apart.                          *)
LEMMA MonthStart ==
  ASSUME NEW y \in Nat, NEW m \in 1..12
  PROVE  /\ DaysBeforeMonth(y, m) \in Int
         /\ DaysBeforeMonth(y, m) >= 30 * (m - 1) - 1
         /\ DaysBeforeMonth(y, m) <= 30 * (m - 1) + 5
<1> m \in {1, 2, 3, 4, 5, 6, 7, 8, 9, 10, 11, 12}
  OBVIOUS
<1> QED BY DEF DaysBeforeMonth

(* The same for the days before a year.                                    *)
LEMMA YearStart ==
  ASSUME NEW y \in Nat, y >= 1
  PROVE  /\ DaysBeforeYear(y) \in Int
         /\ y < 2020 => DaysBeforeYear(y) + 365 <= 737424
         /\ y > 2020 => DaysBeforeYear(y) >= 737424 + 366
         /\ y = 2020 => DaysBeforeYear(y) = 737424
BY DEF DaysBeforeYear

(* The time that link_input.py compares orders the dates as well.          *)
LEMMA DaysAreDates ==
  ASSUME NEW t, NEW y \in Nat, NEW m \in 1..12, NEW d \in 1..31, NEW h \in 0..23,
         NEW n \in 0..59, y >= 1,
         t.yr = y, t.mo = m, t.dy = d, t.hr = h, t.mn = n
  PROVE  get_members(t) = IF Early(y, m, d, h) THEN 21 ELSE 31
<1> DEFINE a == DaysBeforeYear(y)
           b == DaysBeforeMonth(y, m)
           x == 24 * (a + b + d - 1) + h
           Start == [yr |-> 2020, mo |-> 9, dy |-> 23, hr |-> 12, mn |-> 0]
<1>1. /\ a \in Int /\ (y < 2020 => a + 365 <= 737424)
      /\ (y > 2020 => a >= 737424 + 366) /\ (y = 2020 => a = 737424)
  BY YearStart
<1>2. b \in Int /\ b >= 30 * (m - 1) - 1 /\ b <= 30 * (m - 1) + 5
  BY MonthStart
<1>3. y = 2020 /\ m = 9 => b = 244
  BY DEF DaysBeforeMonth, LeapYear
<1>5. MinutesOf(t) = 60 * x + n
  BY DEF MinutesOf
<1>6. MinutesOf(Start) = 60 * (24 * 737690 + 12)
  BY DEF MinutesOf, DaysBeforeYear, DaysBeforeMonth, LeapYear
<1> HIDE DEF a, b
<1>4. Early(y, m, d, h) <=> x < 24 * 737690 + 12
  <2>1. CASE y < 2020
    <3>1. a + b + d - 1 <= 737424
      BY <1>1, <1>2, <2>1
    <3> QED BY <1>1, <1>2, <2>1, <3>1 DEF Early
  <2>2. CASE y > 2020
    <3>1. a + b + d - 1 >= 737691
      BY <1>1, <1>2, <2>2
    <3> QED BY <1>1, <1>2, <2>2, <3>1 DEF Early
  <2>3. CASE y = 2020 /\ m < 9
    <3>1. a + b + d - 1 <= 737689
      BY <1>1, <1>2, <2>3
    <3> QED BY <1>1, <1>2, <2>3, <3>1 DEF Early
  <2>4. CASE y = 2020 /\ m > 9
    <3>1. a + b + d - 1 >= 737691
      BY <1>1, <1>2, <2>4
    <3> QED BY <1>1, <1>2, <2>4, <3>1 DEF Early
  <2>5. CASE y = 2020 /\ m = 9
    <3>1. a + b + d - 1 \in Int /\ a + b + d - 1 = 737667 + d
      BY <1>1, <1>2, <1>3, <2>5
    <3>2. 24 * (a + b + d - 1) + h = 24 * 737690 + 12 + 24 * (d - 23) + (h - 12)
      BY <3>1
    <3>3. 24 * (d - 23) + (h - 12) < 0 <=> (d < 23 \/ (d = 23 /\ h < 12))
      OBVIOUS
    <3>4. 24 * (a + b + d - 1) + h < 24 * 737690 + 12 <=> (d < 23 \/ (d = 23 /\ h < 12))
      BY <3>1, <3>2, <3>3
    <3> QED BY <2>5, <3>4 DEF Early
  <2> QED BY <2>1, <2>2, <2>3, <2>4, <2>5
<1>7. x \in Int
  BY <1>1, <1>2
<1> HIDE DEF x, Start
<1>8. MinutesOf(t) < MinutesOf(Start) <=> x < 24 * 737690 + 12
  BY <1>5, <1>6, <1>7
<1> QED BY <1>4, <1>8 DEF get_members, Start

(* The three definitions count the same members.                           *)
LEMMA EnsembleAgrees == TimeInv => SameEnsemble
<1> SUFFICES ASSUME TimeInv  PROVE SameEnsemble
  OBVIOUS
<1> DEFINE y == dtim.yr
           m == dtim.mo
           d == dtim.dy
           h == dtim.hr
           n == dtim.mn
<1>1. /\ y \in Nat /\ y >= 1 /\ m \in 1..12 /\ d \in Nat /\ d >= 1
      /\ h \in 0..23 /\ n \in 0..59 /\ ValidTime(dtim)
  BY InitialTimeFacts DEF TimeInv
<1>2. d \in 1..31
  <2>1. DaysInMonth(y, m) \in 28..31
    BY <1>1, MonthLength
  <2> QED BY <1>1, <2>1 DEF ValidTime
<1>3. get_n_members(dtim) = IF Early(y, m, d, h) THEN 21 ELSE 31
  BY DEF get_n_members, Early
<1>4. get_n_members_perl(dtim) = IF Early(y, m, d, h) THEN 21 ELSE 31
  BY <1>1, <1>2, DigitsAreDates
<1>5. get_members(dtim) = IF Early(y, m, d, h) THEN 21 ELSE 31
  BY <1>1, <1>2, DaysAreDates
<1> QED BY <1>3, <1>4, <1>5 DEF SameEnsemble

-------------------------------------------------------------------------------
(* Potential temperature.                                                  *)

(* The records of one parameter read so far: the northern slot has the     *)
(* first northern one, and the southern slot the first of any level that   *)
(* the northern slot did not take.                                         *)
Scanned(north, south, kinds) ==
  /\ IF Free(north) THEN \A i \in 1..recCount : file[i].kind # north
     ELSE file[slot[north]].kind = north /\ \A i \in 1..(slot[north] - 1) : file[i].kind # north
  /\ IF Free(south) THEN \A i \in 1..recCount : file[i].kind \in kinds => i = slot[north]
     ELSE /\ file[slot[south]].kind \in kinds /\ slot[south] # slot[north]
          /\ \A i \in 1..(slot[south] - 1) : file[i].kind \in kinds => i = slot[north]

(* Every handle read is deleted, in a slot, or the last one.               *)
Kept == {slot[s] : s \in Slots} \ {None}

Accounted ==
  /\ temp = recCount /\ (skipFlag <=> temp \in Kept)
  /\ deleted = (1..recCount) \ (Kept \cup {temp})
  /\ (\A s \in Slots : ~Free(s)) => skipFlag

Merged ==
  [p \in Points |->
     IF MissingValue \in {Pressure(p), Temperature(p)} THEN MissingValue
     ELSE [pressure |-> Pressure(p), temperature |-> Temperature(p)]]

PtInv ==
  /\ PtTypeOK
  /\ \A s, t \in Slots : slot[s] = slot[t] /\ ~Free(s) => s = t
  /\ Scanned("presNorth", "presSouth", PressureKinds)
  /\ Scanned("tmpNorth", "tmpSouth", TemperatureKinds)
  /\ ptAt \in {"scan", "merge"} => Accounted
  /\ ptAt \in {"merge", "done"} => \A s \in Slots : ~Free(s)
  /\ ptAt = "gaveUp" =>
       recCount = Len(file) /\ (\E s \in Slots : Free(s)) /\ deleted = (1..recCount) \ Kept
  /\ ptAt = "done" => deleted = 1..recCount /\ product = Merged

(* The records read so far and the slots.                                  *)
LEMMA RecordFacts ==
  ASSUME PtTypeOK
  PROVE  /\ Len(file) \in Nat /\ recCount \in Nat /\ recCount <= Len(file)
         /\ \A i \in 1..Len(file) : file[i].kind \in Kinds
         /\ \A s \in Slots : slot[s] \in 0..recCount /\ slot[s] \in Nat
<1> DEFINE R == [kind : Kinds, points : SUBSET Points]
<1>1. \A r \in R : r.kind \in Kinds
  OBVIOUS
<1> HIDE DEF R
<1>2. file \in Seq(R)
  BY DEF PtTypeOK, R
<1>3. Len(file) \in Nat /\ \A i \in 1..Len(file) : file[i] \in R
  BY <1>2
<1>4. recCount \in Nat /\ recCount <= Len(file)
  BY <1>3 DEF PtTypeOK
<1>5. \A s \in Slots : slot[s] \in 0..recCount
  BY DEF PtTypeOK
<1> QED BY <1>1, <1>3, <1>4, <1>5

(* Which slots a record goes to: at most one, and the northern one first.  *)
Takes(north, south, kinds, kind, chosen) ==
  /\ north \in chosen <=> (kind = north /\ Free(north))
  /\ south \in chosen <=> (kind \in kinds /\ Free(south) /\ north \notin chosen)

(* The slot of a record is a free one of its own kind.                     *)
LEMMA SlotForTakes ==
  ASSUME NEW kind \in Kinds
  PROVE  /\ Takes("presNorth", "presSouth", PressureKinds, kind, SlotFor(kind))
         /\ Takes("tmpNorth", "tmpSouth", TemperatureKinds, kind, SlotFor(kind))
         /\ SlotFor(kind) \subseteq Slots
         /\ \A s \in SlotFor(kind) : Free(s)
         /\ \A s, t \in SlotFor(kind) : s = t
<1> DEFINE north == {kind} \cap {s \in {"presNorth", "tmpNorth"} : Free(s)}
<1>1. SlotFor(kind) = IF north # {} THEN north ELSE {s \in SouthOf(kind) : Free(s)}
  BY DEF SlotFor
<1>2. \A s : s \in north <=> (s = kind /\ s \in {"presNorth", "tmpNorth"} /\ Free(s))
  OBVIOUS
<1> HIDE DEF north
<1>3. ASSUME kind \in PressureKinds
      PROVE  /\ kind \notin TemperatureKinds /\ SouthOf(kind) = {"presSouth"}
             /\ kind # "tmpNorth"
  BY <1>3 DEF PressureKinds, TemperatureKinds, SouthOf
<1>4. ASSUME kind \in TemperatureKinds
      PROVE  /\ kind \notin PressureKinds /\ SouthOf(kind) = {"tmpSouth"}
             /\ kind # "presNorth"
  BY <1>4 DEF PressureKinds, TemperatureKinds, SouthOf
<1>5. ASSUME kind \notin PressureKinds, kind \notin TemperatureKinds
      PROVE  SouthOf(kind) = {} /\ kind # "presNorth" /\ kind # "tmpNorth"
  BY <1>5 DEF PressureKinds, TemperatureKinds, SouthOf
<1>6. CASE kind \in PressureKinds
  BY <1>1, <1>2, <1>3, <1>6 DEF Takes, Slots
<1>7. CASE kind \in TemperatureKinds
  BY <1>1, <1>2, <1>4, <1>7 DEF Takes, Slots
<1>8. CASE kind \notin PressureKinds /\ kind \notin TemperatureKinds
  BY <1>1, <1>2, <1>5, <1>8 DEF Takes, Slots
<1> QED BY <1>6, <1>7, <1>8

(* The four hemispheres: the invariant holds at the beginning,             *)
LEMMA PtStartInv == file \in Files /\ PtStart => PtInv
<1> SUFFICES ASSUME file \in Files, PtStart  PROVE PtInv
  OBVIOUS
<1>1. file \in Seq([kind : Kinds, points : SUBSET Points]) /\ Len(file) \in Nat
  <2> DEFINE R == [kind : Kinds, points : SUBSET Points]
  <2>1. file \in Seq(R)
    BY PtFilesAssumption
  <2> HIDE DEF R
  <2>2. Len(file) \in Nat
    BY <2>1
  <2> QED BY <2>1, <2>2 DEF R
<1>2. PtTypeOK
  <2>1. recCount = 0 /\ recCount \in 0..Len(file) /\ temp \in 0..recCount
    BY <1>1 DEF PtStart, None
  <2>2. slot \in [Slots -> 0..recCount] /\ DOMAIN product = Points
    BY <2>1 DEF PtStart, None
  <2> QED BY <1>1, <2>1, <2>2 DEF PtStart, PtTypeOK
<1>3. (\A s \in Slots : Free(s)) /\ (\E s \in Slots : Free(s)) /\ Kept = {}
  <2>1. \A s \in Slots : slot[s] = None
    BY DEF PtStart
  <2>2. "presNorth" \in Slots
    BY DEF Slots
  <2> QED BY <2>1, <2>2 DEF Free, Kept
<1>4. ASSUME NEW north \in Slots, NEW south \in Slots, NEW kinds
      PROVE  Scanned(north, south, kinds)
  BY <1>3, <1>4 DEF Scanned, PtStart
<1>5. Accounted
  BY <1>3 DEF Accounted, PtStart, None
<1>6. "presNorth" \in Slots /\ "presSouth" \in Slots /\ "tmpNorth" \in Slots /\ "tmpSouth" \in Slots
  BY DEF Slots
<1> QED BY <1>2, <1>3, <1>4, <1>5, <1>6 DEF PtInv, PtStart

(* A round of the scan keeps what a parameter's two slots have.            *)
LEMMA ScannedStep ==
  ASSUME PtTypeOK, ReadRecord, NEW north \in Slots, NEW south \in Slots, NEW kinds,
         north # south, north \in kinds,
         Takes(north, south, kinds, file[recCount + 1].kind, SlotFor(file[recCount + 1].kind)),
         Scanned(north, south, kinds)
  PROVE  Scanned(north, south, kinds)'
<1> DEFINE next == recCount + 1
           chosen == SlotFor(file[next].kind)
<1>1. /\ recCount \in Nat /\ recCount' = next /\ file' = file
      /\ slot' = [s \in Slots |-> IF s \in chosen THEN next ELSE slot[s]]
  BY RecordFacts DEF ReadRecord
<1>2. /\ slot[north] \in 0..recCount /\ slot[south] \in 0..recCount
      /\ slot'[north] = IF north \in chosen THEN next ELSE slot[north]
      /\ slot'[south] = IF south \in chosen THEN next ELSE slot[south]
  BY <1>1, RecordFacts
<1>3. /\ north \in chosen <=> (file[next].kind = north /\ slot[north] = 0)
      /\ south \in chosen <=> (file[next].kind \in kinds /\ slot[south] = 0 /\ north \notin chosen)
  BY DEF Takes, Free, None
<1> HIDE DEF chosen
<1>4. next \in Nat /\ \A i \in 1..next : i \in 1..recCount \/ i = next
  BY <1>1
<1> HIDE DEF next
<1>5. next > recCount /\ next >= 1
  BY <1>1 DEF next
<1>6. IF slot'[north] = 0 THEN \A i \in 1..next : file[i].kind # north
      ELSE file[slot'[north]].kind = north
             /\ \A i \in 1..(slot'[north] - 1) : file[i].kind # north
  <2>1. CASE north \in chosen
    <3>1. slot[north] = 0 /\ slot'[north] = next /\ next # 0 /\ next - 1 = recCount
      BY <1>1, <1>2, <1>3, <1>5, <2>1 DEF next
    <3> QED BY <1>3, <2>1, <3>1 DEF Scanned, Free, None
  <2>2. CASE north \notin chosen
    BY <1>2, <1>3, <1>4, <2>2 DEF Scanned, Free, None
  <2> QED BY <2>1, <2>2
<1>7. IF slot'[south] = 0 THEN \A i \in 1..next : file[i].kind \in kinds => i = slot'[north]
      ELSE /\ file[slot'[south]].kind \in kinds /\ slot'[south] # slot'[north]
           /\ \A i \in 1..(slot'[south] - 1) : file[i].kind \in kinds => i = slot'[north]
  <2>1. CASE south \in chosen
    <3>1. /\ slot[south] = 0 /\ slot'[south] = next /\ next # 0 /\ next - 1 = recCount
          /\ slot'[north] = slot[north] /\ slot[north] # next
      BY <1>1, <1>2, <1>3, <1>5, <2>1 DEF next
    <3> QED BY <1>3, <2>1, <3>1 DEF Scanned, Free, None
  <2>2. CASE south \notin chosen /\ north \in chosen
    <3>1. /\ slot[north] = 0 /\ slot'[north] = next /\ slot'[south] = slot[south]
          /\ slot[south] # next
      BY <1>1, <1>2, <1>3, <1>5, <2>2
    <3>2. CASE slot[south] = 0
      <4>1. \A i \in 1..recCount : file[i].kind \notin kinds
        BY <1>1, <3>1, <3>2 DEF Scanned, Free, None
      <4> QED BY <1>4, <3>1, <3>2, <4>1
    <3>3. CASE slot[south] # 0
      <4>1. \A i \in 1..(slot[south] - 1) : file[i].kind \notin kinds
        BY <1>1, <1>2, <3>1, <3>3 DEF Scanned, Free, None
      <4>2. file[slot[south]].kind \in kinds
        BY <3>3 DEF Scanned, Free, None
      <4> QED BY <3>1, <3>3, <4>1, <4>2
    <3> QED BY <3>2, <3>3
  <2>3. CASE south \notin chosen /\ north \notin chosen
    BY <1>2, <1>3, <1>4, <2>3 DEF Scanned, Free, None
  <2> QED BY <2>1, <2>2, <2>3
<1> QED BY <1>1, <1>6, <1>7 DEF Scanned, Free, None

(* through each record that is read,                                       *)
LEMMA ReadRecordKeeps == PtInv /\ ReadRecord => PtInv'
<1> SUFFICES ASSUME PtInv, ReadRecord  PROVE PtInv'
  OBVIOUS
<1> DEFINE next == recCount + 1
           kind == file[next].kind
           chosen == SlotFor(kind)
<1>1. /\ recCount \in Nat /\ Len(file) \in Nat /\ next \in 1..Len(file) /\ PtTypeOK
      /\ kind \in Kinds /\ \A s \in Slots : slot[s] \in 0..recCount
  BY RecordFacts DEF PtInv, ReadRecord
<1>2. /\ recCount' = next /\ temp' = next /\ ptAt = "scan" /\ ptAt' = "scan"
      /\ UNCHANGED <<file, product>>
      /\ skipFlag' = (chosen # {})
      /\ slot' = [s \in Slots |-> IF s \in chosen THEN next ELSE slot[s]]
      /\ \E s \in Slots : Free(s)
      /\ DropLast
  BY DEF ReadRecord, Searching
<1>3. /\ chosen \subseteq Slots /\ (\A s \in chosen : Free(s))
      /\ (\A s, t \in chosen : s = t)
      /\ Takes("presNorth", "presSouth", PressureKinds, kind, chosen)
      /\ Takes("tmpNorth", "tmpSouth", TemperatureKinds, kind, chosen)
  BY <1>1, SlotForTakes
<1>4. /\ Scanned("presNorth", "presSouth", PressureKinds)'
      /\ Scanned("tmpNorth", "tmpSouth", TemperatureKinds)'
  <2>1. /\ "presNorth" \in Slots /\ "presSouth" \in Slots /\ "presNorth" \in PressureKinds
        /\ "tmpNorth" \in Slots /\ "tmpSouth" \in Slots /\ "tmpNorth" \in TemperatureKinds
    BY DEF Slots, PressureKinds, TemperatureKinds
  <2>2. Scanned("presNorth", "presSouth", PressureKinds)'
    BY <1>1, <1>3, <2>1, ScannedStep DEF PtInv
  <2>3. Scanned("tmpNorth", "tmpSouth", TemperatureKinds)'
    BY <1>1, <1>3, <2>1, ScannedStep DEF PtInv
  <2> QED BY <2>2, <2>3
<1> HIDE DEF chosen, kind
<1>5. \A s \in Slots : slot'[s] = IF s \in chosen THEN next ELSE slot[s]
  BY <1>2
<1>6. \A s \in Slots : slot[s] # next /\ next # 0
  BY <1>1
<1>7. \A s \in Slots : Free(s)' <=> Free(s) /\ s \notin chosen
  BY <1>5, <1>6 DEF Free, None
<1>8. \A s, t \in Slots : slot'[s] = slot'[t] /\ ~Free(s)' => s = t
  BY <1>3, <1>5, <1>6, <1>7 DEF PtInv
<1>9. Kept' = Kept \cup (IF chosen = {} THEN {} ELSE {next})
  <2>1. \A x : x \in Kept' <=> x # 0 /\ \E s \in Slots : x = slot'[s]
    BY DEF Kept, None
  <2>2. \A x : x \in Kept <=> x # 0 /\ \E s \in Slots : x = slot[s]
    BY DEF Kept, None
  <2>3. \A s \in chosen : s \in Slots /\ slot[s] = 0
    BY <1>3 DEF Free, None
  <2>4. \A x : x \in Kept' <=> (x \in Kept \/ (chosen # {} /\ x = next))
    BY <1>5, <1>6, <2>1, <2>2, <2>3
  <2> QED BY <2>4
<1>10. next \notin Kept /\ next \notin deleted /\ Kept \subseteq 1..recCount
  BY <1>1, <1>6 DEF Kept, None, PtTypeOK
<1>11. deleted' = (1..recCount) \ Kept
  <2>1. Accounted /\ temp \in 0..recCount
    BY <1>1, <1>2 DEF PtInv, PtTypeOK
  <2> QED BY <1>1, <1>2, <1>10, <2>1 DEF Accounted, DropLast, None
<1>12. Accounted'
  <2>1. deleted' = (1..next) \ (Kept' \cup {next})
    BY <1>1, <1>9, <1>11
  <2>2. skipFlag' <=> next \in Kept'
    BY <1>2, <1>9, <1>10
  <2>3. (\A s \in Slots : ~Free(s)') => skipFlag'
    BY <1>2, <1>7
  <2> QED BY <1>2, <2>1, <2>2, <2>3 DEF Accounted
<1>13. PtTypeOK'
  <2>1. file' \in Seq([kind : Kinds, points : SUBSET Points]) /\ DOMAIN product' = Points
    BY <1>1, <1>2 DEF PtTypeOK
  <2>2. recCount' \in 0..Len(file') /\ temp' \in 0..recCount'
    BY <1>1, <1>2
  <2>3. slot' \in [Slots -> 0..recCount']
    BY <1>1, <1>2
  <2>4. deleted' \subseteq 1..recCount'
    BY <1>1, <1>2, <1>11
  <2> QED BY <1>2, <2>1, <2>2, <2>3, <2>4 DEF PtTypeOK
<1> QED BY <1>2, <1>4, <1>8, <1>12, <1>13 DEF PtInv

(* Scanned only looks at the file, the count and the slots.                *)
LEMMA ScannedFrame ==
  ASSUME NEW north, NEW south, NEW kinds, UNCHANGED <<file, recCount, slot>>
  PROVE  Scanned(north, south, kinds)' <=> Scanned(north, south, kinds)
BY DEF Scanned, Free

(* and through every step.                                                 *)
LEMMA PtStepInv == PtInv /\ PtNext => PtInv'
<1> SUFFICES ASSUME PtInv, PtNext  PROVE PtInv'
  OBVIOUS
<1>1. ASSUME UNCHANGED <<file, recCount, slot>>
      PROVE  /\ Scanned("presNorth", "presSouth", PressureKinds)'
             /\ Scanned("tmpNorth", "tmpSouth", TemperatureKinds)'
             /\ Kept' = Kept
             /\ \A s \in Slots : Free(s)' <=> Free(s)
  BY <1>1, ScannedFrame DEF PtInv, Kept, Free
<1>2. /\ PtTypeOK /\ recCount \in Nat /\ Len(file) \in Nat
      /\ \A s \in Slots : slot[s] \in 0..recCount
  BY RecordFacts DEF PtInv
<1>3. Kept \subseteq 1..recCount
  BY <1>2 DEF Kept, None
<1>4. CASE ReadRecord
  BY <1>4, ReadRecordKeeps
<1>5. CASE GiveUp
  <2>1. Accounted /\ temp \in 0..recCount
    BY <1>2, <1>5 DEF PtInv, PtTypeOK, GiveUp, Searching
  <2>2. deleted' = (1..recCount) \ Kept
    BY <1>2, <1>3, <1>5, <2>1 DEF GiveUp, Accounted, DropLast, None
  <2>3. PtTypeOK'
    <3>1. /\ ptAt' = "gaveUp" /\ temp' = 0 /\ skipFlag' = FALSE
          /\ UNCHANGED <<file, recCount, slot, product>>
      BY <1>5 DEF GiveUp, None
    <3>2. temp' \in 0..recCount' /\ deleted' \subseteq 1..recCount'
      BY <1>2, <2>2, <3>1
    <3> QED BY <1>2, <3>1, <3>2 DEF PtTypeOK
  <2> QED BY <1>1, <1>5, <2>2, <2>3 DEF PtInv, GiveUp, Searching, Free
<1>6. CASE AllFound
  <2>1. Accounted' /\ PtTypeOK'
    BY <1>6 DEF PtInv, AllFound, Accounted, PtTypeOK, Kept, Free
  <2> QED BY <1>1, <1>6, <2>1 DEF PtInv, AllFound, Free
<1>7. CASE Merge
  <2>1. (\A s \in Slots : ~Free(s)) /\ Accounted /\ skipFlag
    BY <1>7 DEF PtInv, Merge, Accounted
  <2>2. {slot[s] : s \in Slots} = Kept
    BY <2>1 DEF Kept, Free
  <2>3. deleted' = 1..recCount
    BY <1>3, <1>7, <2>1, <2>2 DEF Accounted, Merge
  <2>4. product' = Merged /\ Merged' = Merged
    BY <1>7 DEF Merge, Merged, Pressure, Temperature, ValueAt
  <2>5. PtTypeOK'
    BY <1>2, <1>7, <2>3 DEF PtTypeOK, Merge
  <2> QED BY <1>1, <1>7, <2>1, <2>3, <2>4, <2>5 DEF PtInv, Merge, Free
<1> QED BY <1>4, <1>5, <1>6, <1>7 DEF PtNext

(* CHOOSE of a least element.                                              *)
LEMMA FirstIsLeast ==
  ASSUME NEW S \in SUBSET Nat, NEW k \in S, \A j \in S : k <= j
  PROVE  First(S) = k
<1>1. First(S) \in S /\ \A j \in S : First(S) <= j
  BY DEF First
<1>2. First(S) <= k /\ k <= First(S) /\ First(S) \in Nat /\ k \in Nat
  BY <1>1
<1> QED BY <1>2

(* The slots of a parameter are those PtSlots finds.                       *)
LEMMA SlotsAsFound ==
  ASSUME PtTypeOK, NEW north \in Slots, NEW south \in Slots, NEW kinds,
         north \in kinds, Scanned(north, south, kinds)
  PROVE  LET found == PtSlots(KindsOf, 0, kinds, north)
         IN  /\ ~Free(north) /\ ~Free(south) =>
                  /\ found.found /\ KindIn(north) = north /\ KindIn(south) = found.south
             /\ (Free(north) \/ Free(south)) /\ recCount = Len(file) => ~found.found
<1> DEFINE n == Len(file)
           All109   == Ahead(KindsOf, 0, kinds)
           northern == Ahead(KindsOf, 0, {north})
           southern == IF northern = {} THEN All109 ELSE All109 \ {First(northern)}
           found == PtSlots(KindsOf, 0, kinds, north)
<1>1. /\ n \in Nat /\ recCount \in Nat /\ recCount <= n
      /\ slot[north] \in 0..recCount /\ slot[south] \in 0..recCount
  BY RecordFacts
<1>2. Len(KindsOf) = n /\ \A i \in 1..n : KindsOf[i] = file[i].kind
  BY <1>1 DEF KindsOf
<1>3. /\ \A i : i \in All109 <=> i \in 1..n /\ file[i].kind \in kinds
      /\ \A i : i \in northern <=> i \in 1..n /\ file[i].kind = north
  BY <1>1, <1>2 DEF Ahead
<1>4. /\ found.found = (northern # {} /\ southern # {})
      /\ found.south = IF southern = {} THEN "none" ELSE KindsOf[First(southern)]
  BY DEF PtSlots
<1> HIDE DEF n, found, northern, All109
<1>5. ASSUME ~Free(north)  PROVE northern # {} /\ First(northern) = slot[north]
  <2>1. slot[north] \in northern /\ \A i \in 1..(slot[north] - 1) : i \notin northern
    BY <1>1, <1>3, <1>5 DEF Scanned, Free, None
  <2>2. northern \subseteq 1..n
    BY <1>3
  <2>3. \A i \in northern : slot[north] <= i
    BY <1>1, <2>1, <2>2
  <2> QED BY <1>1, <2>1, <2>2, <2>3, FirstIsLeast
<1>6. ASSUME ~Free(north)  PROVE southern = All109 \ {slot[north]}
  BY <1>5, <1>6
<1> HIDE DEF southern
<1>7. ASSUME ~Free(north), ~Free(south)
      PROVE  found.found /\ KindIn(north) = north /\ KindIn(south) = found.south
  <2>1. slot[south] \in southern /\ \A i \in 1..(slot[south] - 1) : i \notin southern
    BY <1>1, <1>3, <1>6, <1>7 DEF Scanned, Free, None
  <2>2. southern \subseteq 1..n
    BY <1>3, <1>6, <1>7
  <2>3. First(southern) = slot[south]
    <3>1. \A i \in southern : slot[south] <= i
      BY <1>1, <2>1, <2>2
    <3> QED BY <1>1, <2>1, <2>2, <3>1, FirstIsLeast
  <2>4. KindIn(north) = north
    BY <1>7 DEF Scanned, KindIn
  <2> QED BY <1>2, <1>4, <1>5, <1>7, <2>1, <2>2, <2>3, <2>4 DEF KindIn
<1>8. ASSUME recCount = n, Free(north)  PROVE ~found.found
  BY <1>3, <1>4, <1>8 DEF Scanned, Free, None
<1>9. ASSUME recCount = n, ~Free(north), Free(south)  PROVE ~found.found
  BY <1>3, <1>4, <1>6, <1>9 DEF Scanned, Free, None
<1> QED BY <1>7, <1>8, <1>9 DEF n, found

(* The program fills the slots that PtSlots says it fills.                 *)
LEMMA PtInvTakes == PtInv => TakesPtSlots
<1> SUFFICES ASSUME PtInv  PROVE TakesPtSlots
  OBVIOUS
<1>1. /\ "presNorth" \in Slots /\ "presSouth" \in Slots /\ "presNorth" \in PressureKinds
      /\ "tmpNorth" \in Slots /\ "tmpSouth" \in Slots /\ "tmpNorth" \in TemperatureKinds
      /\ Slots = {"presNorth", "presSouth", "tmpNorth", "tmpSouth"}
  BY DEF Slots, PressureKinds, TemperatureKinds
<1> DEFINE pressure    == PtSlots(KindsOf, 0, PressureKinds, "presNorth")
           temperature == PtSlots(KindsOf, 0, TemperatureKinds, "tmpNorth")
<1>2. /\ ~Free("presNorth") /\ ~Free("presSouth") =>
           /\ pressure.found /\ KindIn("presNorth") = "presNorth"
           /\ KindIn("presSouth") = pressure.south
      /\ (Free("presNorth") \/ Free("presSouth")) /\ recCount = Len(file) => ~pressure.found
  BY <1>1, SlotsAsFound DEF PtInv
<1>3. /\ ~Free("tmpNorth") /\ ~Free("tmpSouth") =>
           /\ temperature.found /\ KindIn("tmpNorth") = "tmpNorth"
           /\ KindIn("tmpSouth") = temperature.south
      /\ (Free("tmpNorth") \/ Free("tmpSouth")) /\ recCount = Len(file) => ~temperature.found
  BY <1>1, SlotsAsFound DEF PtInv
<1> HIDE DEF pressure, temperature
<1>4. ptAt = "gaveUp" => ~(pressure.found /\ temperature.found)
  BY <1>1, <1>2, <1>3 DEF PtInv
<1>5. ptAt \in {"merge", "done"} => \A s \in Slots : ~Free(s)
  BY DEF PtInv
<1> QED BY <1>1, <1>2, <1>3, <1>4, <1>5 DEF TakesPtSlots, pressure, temperature

(* A handle that is used has not been deleted.                             *)
LEMMA PtInvHandles == PtInv => HandlesKept
<1> SUFFICES ASSUME PtInv  PROVE HandlesKept
  OBVIOUS
<1>1. PtTypeOK /\ \A s \in Slots : slot[s] \in 0..recCount
  BY RecordFacts DEF PtInv
<1>2. ASSUME ptAt # "done", NEW s \in Slots  PROVE slot[s] \notin deleted
  <2>1. slot[s] # None => slot[s] \in Kept
    BY DEF Kept
  <2>2. None \notin 1..recCount
    BY DEF None
  <2>3. ptAt \in {"scan", "merge", "gaveUp"}
    BY <1>1, <1>2 DEF PtTypeOK
  <2> QED BY <2>1, <2>2, <2>3 DEF PtInv, Accounted
<1>3. ASSUME ptAt = "gaveUp"  PROVE deleted = (1..recCount) \ {slot[s] : s \in Slots}
  <2>1. None \notin 1..recCount
    BY DEF None
  <2> QED BY <1>3, <2>1 DEF PtInv, Accounted, Kept
<1> QED BY <1>2, <1>3 DEF HandlesKept, PtInv

(* A set of two has no third member.                                       *)
LEMMA ThreeAreMoreThanTwo ==
  ASSUME NEW S, IsFiniteSet(S), NEW a \in S, NEW b \in S, NEW c \in S, a # b, a # c, b # c
  PROVE  ~(Cardinality(S) <= 2)
<1>1. IsFiniteSet({a}) /\ Cardinality({a}) = 1
  BY FS_Singleton
<1>2. IsFiniteSet({a} \cup {b}) /\ Cardinality({a} \cup {b}) = 2
  <2>1. b \notin {a}
    OBVIOUS
  <2>2. /\ IsFiniteSet({a} \cup {b})
        /\ Cardinality({a} \cup {b}) =
             IF b \in {a} THEN Cardinality({a}) ELSE Cardinality({a}) + 1
    <3> DEFINE T == {a}
    <3>1. IsFiniteSet(T)
      BY <1>1
    <3> HIDE DEF T
    <3>2. /\ IsFiniteSet(T \cup {b})
          /\ Cardinality(T \cup {b}) =
               IF b \in T THEN Cardinality(T) ELSE Cardinality(T) + 1
      BY <3>1, FS_AddElement
    <3> QED BY <3>2 DEF T
  <2> QED BY <1>1, <2>1, <2>2
<1>3. IsFiniteSet({a} \cup {b} \cup {c}) /\ Cardinality({a} \cup {b} \cup {c}) = 3
  <2> DEFINE T == {a} \cup {b}
  <2>1. c \notin T
    OBVIOUS
  <2>2. IsFiniteSet(T) /\ Cardinality(T) = 2
    BY <1>2
  <2> HIDE DEF T
  <2>3. /\ IsFiniteSet(T \cup {c})
        /\ Cardinality(T \cup {c}) =
             IF c \in T THEN Cardinality(T) ELSE Cardinality(T) + 1
    BY <2>2, FS_AddElement
  <2>4. IsFiniteSet(T \cup {c}) /\ Cardinality(T \cup {c}) = 3
    BY <2>1, <2>2, <2>3
  <2> QED BY <2>4 DEF T
<1>4. ({a} \cup {b} \cup {c}) \in SUBSET S
  OBVIOUS
<1>5. Cardinality({a} \cup {b} \cup {c}) <= Cardinality(S) /\ Cardinality(S) \in Nat
  BY <1>4, FS_Subset, FS_CardinalityType
<1> QED BY <1>3, <1>5

(* If the first two records of a parameter are of the two hemispheres, the *)
(* slots have these, whichever comes first.                                *)
LEMMA SlotsHaveHemispheres ==
  ASSUME PtTypeOK, NEW north \in Slots, NEW south \in Slots, NEW kinds, NEW P,
         north # south, Scanned(north, south, kinds), ~Free(north), ~Free(south),
         FirstTwo(kinds) = {[kind |-> north, points |-> P],
                            [kind |-> south, points |-> Points \ P]}
  PROVE  /\ file[slot[north]] = [kind |-> north, points |-> P]
         /\ file[slot[south]] = [kind |-> south, points |-> Points \ P]
<1> DEFINE Upto(j) == {l \in 1..j : file[l].kind \in kinds}
           a == slot[north]
           b == slot[south]
<1>1. /\ Len(file) \in Nat /\ recCount \in Nat /\ recCount <= Len(file)
      /\ a \in 0..recCount /\ b \in 0..recCount /\ a # 0 /\ b # 0
  BY RecordFacts DEF Free, None
<1>2. \A j \in Nat : IsFiniteSet(Upto(j))
  <2> TAKE j \in Nat
  <2>1. IsFiniteSet(1..j)
    BY FS_Interval
  <2> QED BY <2>1, FS_Subset
<1>3. /\ file[a].kind = north /\ \A i \in 1..(a - 1) : file[i].kind # north
      /\ file[b].kind \in kinds /\ b # a
      /\ \A i \in 1..(b - 1) : file[i].kind \in kinds => i = a
  BY DEF Scanned
<1>4. FirstTwo(kinds) = {file[k] : k \in {j \in 1..Len(file) :
                           file[j].kind \in kinds /\ Cardinality(Upto(j)) <= 2}}
  BY DEF FirstTwo
<1>5. PICK k \in 1..Len(file) :
        /\ file[k] = [kind |-> north, points |-> P]
        /\ file[k].kind \in kinds /\ Cardinality(Upto(k)) <= 2
  BY <1>4
<1>6. PICK l \in 1..Len(file) :
        /\ file[l] = [kind |-> south, points |-> Points \ P]
        /\ file[l].kind \in kinds /\ Cardinality(Upto(l)) <= 2
  BY <1>4
<1>7. file[k].kind = north /\ file[l].kind = south /\ k # l /\ north \in kinds
  BY <1>5, <1>6
<1>8. \A j, i : i \in Upto(j) <=> i \in 1..j /\ file[i].kind \in kinds
  OBVIOUS
<1> HIDE DEF Upto, a, b
<1>9. a <= k
  BY <1>1, <1>3, <1>7
<1>10. a = k
  <2> SUFFICES ASSUME a < k  PROVE FALSE
    BY <1>1, <1>9
  <2>1. CASE k < l
    <3>1. a \in 1..l /\ k \in 1..l /\ l \in 1..l /\ a # k /\ a # l /\ k # l
      BY <1>1, <1>3, <1>5, <1>6, <1>7, <2>1
    <3>2. a \in Upto(l) /\ k \in Upto(l) /\ l \in Upto(l)
      BY <1>3, <1>5, <1>6, <1>7, <1>8, <3>1
    <3> QED BY <1>2, <1>6, <3>1, <3>2, ThreeAreMoreThanTwo
  <2>2. CASE l < k
    <3>1. a \in 1..k /\ k \in 1..k /\ l \in 1..k /\ a # k /\ a # l /\ k # l
      BY <1>1, <1>3, <1>5, <1>6, <1>7, <2>2
    <3>2. a \in Upto(k) /\ k \in Upto(k) /\ l \in Upto(k)
      BY <1>3, <1>5, <1>6, <1>7, <1>8, <3>1
    <3> QED BY <1>2, <1>5, <3>1, <3>2, ThreeAreMoreThanTwo
  <2> QED BY <1>7, <2>1, <2>2
<1>11. b <= l
  BY <1>1, <1>3, <1>6, <1>7, <1>10
<1>12. b = l
  <2> SUFFICES ASSUME b < l  PROVE FALSE
    BY <1>1, <1>11
  <2>1. CASE k < l
    <3>1. b \in 1..l /\ k \in 1..l /\ l \in 1..l /\ b # k /\ b # l /\ k # l
      BY <1>1, <1>3, <1>5, <1>6, <1>7, <1>10, <2>1
    <3>2. b \in Upto(l) /\ k \in Upto(l) /\ l \in Upto(l)
      BY <1>3, <1>5, <1>6, <1>7, <1>8, <3>1
    <3> QED BY <1>2, <1>6, <3>1, <3>2, ThreeAreMoreThanTwo
  <2>2. CASE l < k
    <3>1. b \in 1..k /\ k \in 1..k /\ l \in 1..k /\ b # k /\ b # l /\ k # l
      BY <1>1, <1>3, <1>5, <1>6, <1>7, <1>10, <2>2
    <3>2. b \in Upto(k) /\ k \in Upto(k) /\ l \in Upto(k)
      BY <1>3, <1>5, <1>6, <1>7, <1>8, <3>1
    <3> QED BY <1>2, <1>5, <3>1, <3>2, ThreeAreMoreThanTwo
  <2> QED BY <1>7, <2>1, <2>2
<1> QED BY <1>5, <1>6, <1>10, <1>12 DEF a, b

(* On sound files the product covers the globe.                            *)
LEMMA PtInvGlobe == PtInv => WholeGlobe
<1> SUFFICES ASSUME PtInv, ptAt = "done", SoundFile, NEW p \in Points
             PROVE  /\ product[p] # MissingValue
                    /\ <<file[product[p].pressure].kind, file[product[p].temperature].kind>> \in
                         {<<"presNorth", "tmpNorth">>, <<"presSouth", "tmpSouth">>}
  BY DEF WholeGlobe
<1> DEFINE pN == slot["presNorth"]
           pS == slot["presSouth"]
           tN == slot["tmpNorth"]
           tS == slot["tmpSouth"]
<1>1. /\ PtTypeOK /\ (\A s \in Slots : ~Free(s)) /\ product = Merged
      /\ \A s \in Slots : slot[s] \in Nat
  BY RecordFacts DEF PtInv
<1>2. /\ "presNorth" \in Slots /\ "presSouth" \in Slots
      /\ "tmpNorth" \in Slots /\ "tmpSouth" \in Slots
  BY DEF Slots
<1>3. PICK P \in SUBSET Points :
        FirstTwo(PressureKinds) = {[kind |-> "presNorth", points |-> P],
                                   [kind |-> "presSouth", points |-> Points \ P]}
  BY DEF SoundFile, Hemispheres
<1>4. PICK Q \in SUBSET Points :
        FirstTwo(TemperatureKinds) = {[kind |-> "tmpNorth", points |-> Q],
                                      [kind |-> "tmpSouth", points |-> Points \ Q]}
  BY DEF SoundFile, Hemispheres
<1>5. /\ file[pN] = [kind |-> "presNorth", points |-> P]
      /\ file[pS] = [kind |-> "presSouth", points |-> Points \ P]
  BY <1>1, <1>2, <1>3, SlotsHaveHemispheres DEF PtInv
<1>6. /\ file[tN] = [kind |-> "tmpNorth", points |-> Q]
      /\ file[tS] = [kind |-> "tmpSouth", points |-> Points \ Q]
  BY <1>1, <1>2, <1>4, SlotsHaveHemispheres DEF PtInv
<1>7. P = Q
  <2>1. \A r \in FirstTwo(PressureKinds), t \in FirstTwo(TemperatureKinds) :
          r.kind = "presNorth" /\ t.kind = "tmpNorth" => r.points = t.points
    BY DEF SoundFile
  <2> DEFINE r == [kind |-> "presNorth", points |-> P]
             t == [kind |-> "tmpNorth", points |-> Q]
  <2>2. r \in FirstTwo(PressureKinds) /\ t \in FirstTwo(TemperatureKinds)
    BY <1>3, <1>4
  <2>3. r.kind = "presNorth" /\ t.kind = "tmpNorth" /\ r.points = P /\ t.points = Q
    OBVIOUS
  <2> QED BY <2>1, <2>2, <2>3
<1>8. /\ pN \in Nat /\ pS \in Nat /\ tN \in Nat /\ tS \in Nat
      /\ MissingValue \notin Nat /\ MissingValue \notin [pressure : Nat, temperature : Nat]
  BY <1>1, <1>2, MissingAssumption
<1>9. /\ Pressure(p) = IF p \in P THEN pN ELSE pS
      /\ Temperature(p) = IF p \in P THEN tN ELSE tS
  <2>1. /\ ValueAt("presNorth", p) = IF p \in P THEN pN ELSE MissingValue
        /\ ValueAt("presSouth", p) = IF p \in P THEN MissingValue ELSE pS
        /\ ValueAt("tmpNorth", p) = IF p \in P THEN tN ELSE MissingValue
        /\ ValueAt("tmpSouth", p) = IF p \in P THEN MissingValue ELSE tS
    BY <1>5, <1>6, <1>7 DEF ValueAt
  <2> HIDE DEF pN, pS, tN, tS
  <2> QED BY <1>8, <2>1 DEF Pressure, Temperature, OneOf
<1>10. product[p] = [pressure |-> Pressure(p), temperature |-> Temperature(p)]
  <2>1. Pressure(p) \in Nat /\ Temperature(p) \in Nat
    BY <1>8, <1>9
  <2> QED BY <1>1, <1>8, <2>1 DEF Merged
<1>11. product[p] # MissingValue
  <2>1. product[p] \in [pressure : Nat, temperature : Nat]
    BY <1>8, <1>9, <1>10
  <2> QED BY <1>8, <2>1
<1>12. product[p].pressure = Pressure(p) /\ product[p].temperature = Temperature(p)
  BY <1>10
<1>13. CASE p \in P
  BY <1>5, <1>6, <1>9, <1>11, <1>12, <1>13
<1>14. CASE p \notin P
  BY <1>5, <1>6, <1>9, <1>11, <1>12, <1>14
<1> QED BY <1>13, <1>14

-------------------------------------------------------------------------------
(* The parts together: they share the order of the run and no state.       *)

Inv == ArgInv /\ PtInv /\ TimeInv

(* The three programs together: at the beginning,                          *)
LEMMA InitInv == Init => Inv
<1> SUFFICES ASSUME Init  PROVE Inv
  OBVIOUS
<1>1. argv \in CommandLines /\ file \in Files /\ dtim \in InitialTimes /\ offset \in Offsets
  BY PlainAssumption DEF Init, PlainWords, PlainFile, PlainTime
<1> QED BY <1>1, ArgStartInv, PtStartInv, TimeStartInv DEF Init, Inv

(* at every step,                                                          *)
LEMMA NextInv == Inv /\ [Next]_vars => Inv'
<1> SUFFICES ASSUME Inv, [Next]_vars  PROVE Inv'
  OBVIOUS
<1>1. UNCHANGED argVars => ArgInv'
  BY DEF Inv, ArgInv, argVars, ArgTypeOK, Copied, ByDefault, Refused, FitsQueue, SaidAll, Word
<1>2. UNCHANGED ptVars => PtInv'
  BY DEF Inv, PtInv, ptVars, PtTypeOK, Scanned, Free, Accounted, Kept, Merged,
         Pressure, Temperature, ValueAt
<1>3. UNCHANGED timeVars => TimeInv'
  BY DEF Inv, TimeInv, timeVars, TimeTypeOK, Entered, Added, LeapFebruary
<1>4. CASE Parse
  BY <1>2, <1>3, <1>4, ArgStepInv DEF Parse, Inv, ptVars, timeVars
<1>5. CASE PtPart
  BY <1>1, <1>3, <1>5, PtStepInv DEF PtPart, Inv, argVars, timeVars
<1>6. CASE TimePart
  BY <1>1, <1>2, <1>6, TimeStepInv DEF TimePart, Inv, argVars, ptVars
<1>7. CASE UNCHANGED vars
  BY <1>1, <1>2, <1>3, <1>7 DEF vars, Inv, argVars, ptVars, timeVars
<1> QED BY <1>4, <1>5, <1>6, <1>7 DEF Next

(* and so always.                                                          *)
LEMMA Invariance == Spec => []Inv
<1> QED BY InitInv, NextInv, PTL DEF Spec

(* Every variable of the three parts keeps its type: the list that main()  *)
(* makes of the command line, the handles of                               *)
(* generatePotentialTemperature(), the structs dt of timeAdd().            *)
THEOREM TypeCorrect == Spec => []TypeOK
<1>1. Inv => TypeOK
  BY DEF Inv, ArgInv, PtInv, TimeInv, TypeOK
<1> QED BY <1>1, Invariance, PTL

(* processQueueContains(), which stops at the first empty place, finds in  *)
(* the queue exactly what was put into it.                                 *)
THEOREM QueueIsSearched == Spec => []SearchIsExact
<1>1. Inv => SearchIsExact
  BY ArgInvExact DEF Inv
<1> QED BY <1>1, Invariance, PTL

(* A list of names that fits into the queue and does not have "all" in it  *)
(* is processed as given if it is correct, and refused if it is not.  (For *)
(* longer lists, and for "all", the usage message is not kept.)            *)
THEOREM QueueIsAsListed == Spec => []AsListed
<1>1. Inv => AsListed
  BY ArgInvListed DEF Inv
<1> QED BY <1>1, Invariance, PTL

(* The scan of generatePotentialTemperature() over any file takes the      *)
(* records PtSlots says, on which the model of the main loop builds.       *)
THEOREM ScanTakesPtSlots == Spec => []TakesPtSlots
<1>1. Inv => TakesPtSlots
  BY PtInvTakes DEF Inv
<1> QED BY <1>1, Invariance, PTL

(* None of the four handles it keeps is deleted before the product is      *)
(* made, after a product every handle that was read is, and when the scan  *)
(* gives up all are but those it keeps: these leak.                        *)
THEOREM HandlesAreKept == Spec => []HandlesKept
<1>1. Inv => HandlesKept
  BY PtInvHandles DEF Inv
<1> QED BY <1>1, Invariance, PTL

(* The merge covers the globe, though its test for the southern level is   *)
(* an assignment, if the file lists the hemispheres first.                 *)
THEOREM GlobeIsWhole == Spec => []WholeGlobe
<1>1. Inv => WholeGlobe
  BY PtInvGlobe DEF Inv
<1> QED BY <1>1, Invariance, PTL

(* timeAdd() returns a date of the Gregorian calendar, the offset after    *)
(* the initial time, for all times since the year 1.                       *)
THEOREM TimeAddAdds == Spec => []TimeKept
<1>1. Inv => TimeKept
  BY TimeInvKept DEF Inv
<1> QED BY <1>1, Invariance, PTL

(* util.c, ncdcTigge.pm and link_input.py expect the same number of        *)
(* members of every cycle.                                                 *)
THEOREM ProgramsAgree == Spec => []SameEnsemble
<1>1. Inv => SameEnsemble
  BY EnsembleAgrees DEF Inv
<1> QED BY <1>1, Invariance, PTL
===============================================================================
