--------------------------------- MODULE Texts ---------------------------------
(***************************************************************************)
(* The pure functions on text, against what they are meant to compute:     *)
(* parseCommand with the dispatch of /google-drive (server/plugin/         *)
(* command.go, notifications.go) and LastN (server/plugin/utils/utils.go). *)
(* Input is any sequence of tokens; a token is a character, or several     *)
(* that make no difference when taken together.                            *)
(***************************************************************************)
EXTENDS Integers, FiniteSets, Sequences

CONSTANTS
    Space,      \* the tokens that are white space; "blank" among them
    Quote,      \* the double quote
    Black,      \* all other tokens
    Slash,      \* "/google-drive"
    MaxLength   \* bound: tokens on a line

ASSUME TokenAssumption ==
    /\ "blank" \in Space /\ Quote \notin Space \cup Black /\ Space \cap Black = {}
    /\ Slash \in Black /\ MaxLength \in Nat
    /\ Space \cap {"notifications", "start", "stop"} = {}
    /\ Quote \notin {"notifications", "start", "stop"}

Token == Space \cup Black \cup {Quote}

VARIABLES
    line,      \* the input, as far as the loop of parseCommand has read it
    split,     \* parseCommand: the words that have ended
    current,   \* parseCommand: the word that has not
    inQuotes   \* parseCommand: an odd number of quotes has been read

textVars == <<line, split, current, inQuotes>>

\* Mattermost calls the plugin for commands that begin with its trigger.
TextsInit ==
    /\ line = <<Slash>>
    /\ split = <<>> /\ current = <<Slash>> /\ inQuotes = FALSE

-----------------------------------------------------------------------------
(* parseCommand.                                                           *)

\* What it returns if the input ends here: the words, with the last one.
parseCommand == IF current = <<>> THEN split ELSE Append(split, current)

\* (A mistake the checks must find: a quote ends the word before it.)
ReadQuoteApart(char) ==
    \/ /\ char \in Space /\ inQuotes
       /\ current' = Append(current, "blank") /\ UNCHANGED <<split, inQuotes>>
    \/ /\ char \in Space /\ ~inQuotes
       /\ split' = parseCommand /\ current' = <<>> /\ UNCHANGED inQuotes
    \/ /\ char = Quote
       /\ split' = parseCommand /\ current' = <<Quote>> /\ inQuotes' = ~inQuotes
    \/ /\ char \in Black
       /\ current' = Append(current, char) /\ UNCHANGED <<split, inQuotes>>

\* One turn of the loop: white space is kept inside quotes and ends a word outside of
\* them, and a quote is a character of its word.
Read(char) ==
    \/ /\ char \in Space /\ inQuotes
       /\ current' = Append(current, "blank") /\ UNCHANGED <<split, inQuotes>>
    \/ /\ char \in Space /\ ~inQuotes
       /\ split' = parseCommand /\ current' = <<>> /\ UNCHANGED inQuotes
    \/ /\ char \notin Space
       /\ current' = Append(current, char) /\ UNCHANGED split
       /\ inQuotes' = IF char = Quote THEN ~inQuotes ELSE inQuotes

\* The input has one more character.
More(char) == Len(line) < MaxLength /\ line' = Append(line, char) /\ Read(char)

TextsNext == \E char \in Token : More(char)
TextsSpec == TextsInit /\ [][TextsNext]_textVars

-----------------------------------------------------------------------------
(* The dispatch of /google-drive.                                          *)

\* (A mistake: a word counts wherever it stands.)
IsAmong(words, k, name) == \E i \in 1 .. Len(words) : words[i] = <<name>>

\* Word 1 is the command, word 2 the action, word 3 the first parameter.
Is(words, k, name) == Len(words) >= k /\ words[k] = <<name>>

\* ExecuteCommand and handleNotifications: what is carried out.
Actions == {"about", "help", "setup", "connect", "disconnect", "create", "notifications"}
Carried ==
    LET words == parseCommand IN
    IF ~Is(words, 1, Slash) THEN "nothing"
    ELSE IF \A name \in Actions : ~Is(words, 2, name) THEN "not a valid command"
    ELSE IF ~Is(words, 2, "notifications") THEN CHOOSE name \in Actions : Is(words, 2, name)
    ELSE IF Is(words, 3, "start") THEN "start" ELSE IF Is(words, 3, "stop") THEN "stop"
    ELSE "not a valid subcommand"

\* (A mistake: one character too many is masked.)
LastNMasksMore(s, n) ==
    IF n < 0 THEN <<>>
    ELSE LET first == IF Len(s) > n + 3 THEN Len(s) - n - 2 ELSE 1
             out == SubSeq(s, first, Len(s))
         IN  [i \in 1 .. Len(out) |-> IF i - 1 <= Len(out) - n THEN "star" ELSE out[i]]

\* LastN, on a slice of the last n + 3 characters.
LastN(s, n) ==
    IF n < 0 THEN <<>>
    ELSE LET first == IF Len(s) > n + 3 THEN Len(s) - n - 2 ELSE 1
             out == SubSeq(s, first, Len(s))
         IN  [i \in 1 .. Len(out) |-> IF i - 1 < Len(out) - n THEN "star" ELSE out[i]]

-----------------------------------------------------------------------------
\* A stretch of s, from i to j, is as long as can be without white space outside of
\* quotes.
QuotesBefore(s, i) == Cardinality({j \in 1 .. i - 1 : s[j] = Quote})
Apart(s, i) == s[i] \in Space /\ QuotesBefore(s, i) % 2 = 0
Begins(s) == {i \in 1 .. Len(s) : ~Apart(s, i) /\ (i > 1 => Apart(s, i - 1))}
Ends(s, i, j) ==
    /\ \A k \in i .. j : ~Apart(s, k)
    /\ j < Len(s) => Apart(s, j + 1)
Text(s, i, j) == [k \in 1 .. j - i + 1 |->
                     IF s[i + k - 1] \in Space THEN "blank" ELSE s[i + k - 1]]
Place(s, i) == Cardinality({j \in Begins(s) : j <= i})

\* "keep whitespaces that are inside double quotes", "ignore successive whitespaces
\* that are outside of double quotes" (command.go:97, 103): the words of the input are
\* its stretches, in their order, with every white space in them a blank.
WordsAreStretches ==
    /\ Len(parseCommand) = Cardinality(Begins(line))
    /\ \A i \in Begins(line) : \A j \in i .. Len(line) :
          Ends(line, i, j) => parseCommand[Place(line, i)] = Text(line, i, j)

\* Notifications are started or stopped exactly when the three words stand apart at
\* the beginning of the line, whatever white space is between them and whatever
\* comes after: a quote next to a word makes it another.
OnlyNamedIsCarried ==
    \A name \in {"start", "stop"} :
        Carried = name <=>
            \E i, j \in 1 .. Len(line) :
                /\ 2 < i /\ i + 1 < j
                /\ line[1] = Slash /\ line[i] = "notifications" /\ line[j] = name
                /\ \A k \in 2 .. j - 1 : k = i \/ line[k] \in Space
                /\ j < Len(line) => line[j + 1] \in Space

\* "LastN returns the last n characters of a string, with the rest replaced by *.  At
\* most 3 characters are replaced.  The rest is cut off." (utils.go:88)
LastNKeepsLast ==
    \A n \in -1 .. MaxLength :
        LET kept == IF n < 0 THEN 0 ELSE IF n < Len(line) THEN n ELSE Len(line)
            rest == Len(line) - kept
            masked == IF n < 0 THEN 0 ELSE IF rest < 3 THEN rest ELSE 3
        IN  LastN(line, n) = [i \in 1 .. masked |-> "star"] \o SubSeq(line, rest + 1, Len(line))
=============================================================================
