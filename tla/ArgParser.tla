------------------------------- MODULE ArgParser -------------------------------
(***************************************************************************)
(* The command line of ncdcTigge: a date and the short names of the        *)
(* variables to process, which end up in the array variablesToProcess.     *)
(* Everything after it asks that array, through processQueueContains().    *)
(*                                                                         *)
(* Names are the short names, DefaultOrder those that fillQueueWithDefault *)
(* writes, one for each place of the array.  In the code DefaultOrder has  *)
(* thirteen names and Names fourteen: sf6 has no place.                    *)
(***************************************************************************)
EXTENDS Integers, Sequences

CONSTANTS
  Names,         \* what variableIdFromShortName() knows
  DefaultOrder,  \* the queue of fillQueueWithDefault()
  Unknown,       \* stands for all words that are not the name of a variable
  All,           \* the keyword "all"
  Empty,         \* the -1 of an empty place
  CommandLines   \* the lists of words that may follow the date

NumberOfVariables == Len(DefaultOrder)
Places == 0..(NumberOfVariables - 1)
Words  == Names \cup {Unknown, All}

ASSUME NamesAssumption ==
  /\ Unknown \notin Names /\ All \notin Names /\ Empty \notin Names
  /\ Unknown # All
ASSUME DefaultAssumption ==
  /\ DefaultOrder \in Seq(Names) /\ DefaultOrder # <<>>
  /\ \A j, k \in 1..Len(DefaultOrder) : DefaultOrder[j] = DefaultOrder[k] => j = k
ASSUME CommandLineAssumption == CommandLines \subseteq Seq(Words)

VARIABLES
  parser,              \* date, words, or how main() went on: process, exit
  argv,                \* the words after the date
  index,               \* main's loop counter, counted from the first word
  variablesToProcess

argVars == <<parser, argv, index, variablesToProcess>>

ArgStart ==
  /\ parser = "date" /\ index = 0
  /\ variablesToProcess = [k \in Places |-> Empty]

ArgInit == argv \in CommandLines /\ ArgStart

-------------------------------------------------------------------------------
(* processQueueContains() compares with the places up to the first empty   *)
(* one.  It answers -1, which is true, for a word that is no variable.     *)
Filled == {k \in Places : \A j \in 0..k : variablesToProcess[j] # Empty}

ProcessQueueContains(word) ==
  word \notin Names \/ \E k \in Filled : variablesToProcess[k] = word

Default == [k \in Places |-> DefaultOrder[k + 1]]

(* The date is missing or does not have ten characters.                    *)
BadDate ==
  /\ parser = "date"
  /\ parser' = "exit"
  /\ UNCHANGED <<argv, index, variablesToProcess>>

(* The queue is emptied before it is filled.                               *)
NoNames ==
  /\ parser = "date" /\ argv = <<>>
  /\ parser' = "process"
  /\ variablesToProcess' = Default
  /\ UNCHANGED <<argv, index>>

(* argc <= NUMBER_OF_VARIABLES + 2                                         *)
FitsQueue == Len(argv) <= NumberOfVariables

ReadNames ==
  /\ parser = "date" /\ argv # <<>> /\ FitsQueue
  /\ parser' = "words"
  /\ UNCHANGED <<argv, index, variablesToProcess>>

(* With more names than places there is neither a list nor a message.      *)
TooManyNames ==
  /\ parser = "date" /\ argv # <<>> /\ ~FitsQueue
  /\ parser' = "process"
  /\ UNCHANGED <<argv, index, variablesToProcess>>

Word == argv[index + 1]

Reading == parser = "words" /\ index < Len(argv)

(* addVariableToProcessList() writes at the index of the word.             *)
AddVariable_Unchecked ==
  /\ Reading /\ Word \in Names
  /\ variablesToProcess' = [variablesToProcess EXCEPT ![index] = Word]
  /\ index' = index + 1
  /\ UNCHANGED <<parser, argv>>

AddVariable ==
  /\ Reading /\ Word \in Names /\ ~ProcessQueueContains(Word)
  /\ variablesToProcess' = [variablesToProcess EXCEPT ![index] = Word]
  /\ index' = index + 1
  /\ UNCHANGED <<parser, argv>>

(* "all" replaces what the words before it asked for.                      *)
AddAll ==
  /\ Reading /\ Word = All
  /\ variablesToProcess' = Default
  /\ parser' = "process"
  /\ UNCHANGED <<argv, index>>

(* A word that is no variable, or a variable for the second time.          *)
RefuseWord ==
  /\ Reading /\ Word # All /\ ProcessQueueContains(Word)
  /\ parser' = "exit"
  /\ UNCHANGED <<argv, index, variablesToProcess>>

EndOfWords_OneEarly ==
  /\ parser = "words" /\ index = Len(argv) - 1
  /\ parser' = "process"
  /\ UNCHANGED <<argv, index, variablesToProcess>>

EndOfWords ==
  /\ parser = "words" /\ index = Len(argv)
  /\ parser' = "process"
  /\ UNCHANGED <<argv, index, variablesToProcess>>

ArgNext ==
  \/ BadDate \/ NoNames \/ ReadNames \/ TooManyNames
  \/ AddVariable \/ AddAll \/ RefuseWord \/ EndOfWords

ArgSpec == ArgInit /\ [][ArgNext]_argVars

-------------------------------------------------------------------------------
(* What main() asks of the finished queue.                                 *)
Requested == {argv[k] : k \in 1..Len(argv)}
Processed == {v \in Names : ProcessQueueContains(v)}
SaidAll   == index < Len(argv) /\ Len(argv) <= NumberOfVariables /\ Word = All

(* The queue is an array of variables and empty places.                    *)
ArgTypeOK ==
  /\ parser \in {"date", "words", "process", "exit"}
  /\ argv \in CommandLines
  /\ index \in 0..Len(argv)
  /\ variablesToProcess \in [Places -> Names \cup {Empty}]

(* processQueueContains() stops at the first empty place, yet it overlooks *)
(* no variable, for there is none behind that place; and the queue has     *)
(* each variable once, whatever names were given before "all".             *)
SearchIsExact ==
  /\ \A k \in Places : variablesToProcess[k] # Empty => k \in Filled
  /\ \A j, k \in Filled : variablesToProcess[j] = variablesToProcess[k] => j = k

(* A list that fits into the queue, without "all", is processed as given   *)
(* if each of its words is the name of a variable and none is there twice, *)
(* and refused otherwise, though processQueueContains() says yes to words  *)
(* that are no name and looks at the list as far as it is filled.  Of a    *)
(* list that does not fit nothing is processed, and it is never refused.   *)
FitsWithoutAll == argv # <<>> /\ FitsQueue /\ All \notin Requested

Correct ==
  Unknown \notin Requested /\ \A j, k \in 1..Len(argv) : argv[j] = argv[k] => j = k

AsListed ==
  /\ FitsWithoutAll =>
       /\ parser = "process" => Correct /\ Processed = Requested
       /\ parser = "exit" /\ index > 0 => ~Correct
  /\ argv # <<>> /\ ~FitsQueue =>
       /\ parser = "process" => Processed = {}
       /\ parser = "exit" => index = 0

-------------------------------------------------------------------------------
(* What the usage message says: "You may list as many as you like.  All    *)
(* variables will be processed if none are supplied, or the keyword "all"  *)
(* is used".  There are three ways to ask for everything: no names, the    *)
(* keyword, and a list of all names.                                       *)
AskedForAll == argv = <<>> \/ All \in Requested \/ (Requested = Names /\ Correct)

AllMeansAll == parser = "process" /\ AskedForAll => Processed = Names
===============================================================================
