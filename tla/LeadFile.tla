------------------------------ MODULE LeadFile ------------------------------
(***************************************************************************)
(* The list of leads as a file: app/leads/page.tsx writes it (exportCsv),  *)
(* a user may open and save it in a spreadsheet, and the import wizard of  *)
(* the same page reads it again, character by character (parseCSV), finds  *)
(* the column of each field by its title, lets the user choose another and *)
(* posts one record per row.                                               *)
(*                                                                         *)
(* A text is a sequence of characters: the quote, the comma, the two ends  *)
(* of line, the blank and any other.  What leads/import does with the      *)
(* records is LeadStore.                                                   *)
(***************************************************************************)
EXTENDS Integers, Sequences, SequencesExt, FiniteSets, FiniteSetsExt

CONSTANTS
  Character,    \* the characters of a text; some of them:
  Quote, Comma, CR, LF, Blank,
  Titles,       \* the titles exportCsv writes, in order; all different
  Status,       \* the last cell of every exported row, never blank
  Lists,        \* lists of leads: sequences of rows without the status
  Field,        \* fields of the import
  Column,       \* Column[f]: the exported column of f, 0 if it is not exported
  Alike,        \* Alike[f]: the titles that resemble f or one of its aliases
  MaxFileActs, MaxFileFaults \* bounds: columns chosen or second files, posts that fail

Trim(v) ==
  LET kept == {i \in 1 .. Len(v) : v[i] \notin {Blank, CR, LF}}
  IN IF kept = {} THEN <<>> ELSE SubSeq(v, Min(kept), Max(kept))

(* No two titles are alike, no title and no status has blanks around it, and  *)
(* the first title that resembles a field is that of its own column.          *)
ASSUME FileAssumption ==
  /\ {Quote, Comma, CR, LF, Blank} \subseteq Character
  /\ Quote \notin {Comma, CR, LF} /\ Comma \notin {CR, LF} /\ CR # LF
  /\ Titles \in Seq(Seq(Character)) /\ Titles # <<>>
  /\ \A i, j \in 1 .. Len(Titles) : i # j => Titles[i] # Titles[j]
  /\ Status \in Seq(Character)
  /\ \A v \in {Titles[i] : i \in 1 .. Len(Titles)} \cup {Status} : v # <<>> /\ Trim(v) = v
  /\ Lists \subseteq Seq(Seq(Seq(Character)))
  /\ \A list \in Lists : \A i \in 1 .. Len(list) : Len(list[i]) = Len(Titles) - 1
  /\ \A f \in Field :
       /\ Column[f] \in 0 .. Len(Titles) - 1
       /\ Column[f] # 0 => Titles[Column[f]] \in Alike[f]
       /\ \A i \in 1 .. Len(Titles) : Titles[i] \in Alike[f] => Column[f] \in 1 .. i
  /\ MaxFileActs \in Nat /\ MaxFileFaults \in Nat

VARIABLES
  listed,        \* the leads on the page: rows of cells
  wizard,       \* "upload", "reading", "mapping", "posting" or "results"
  text, pos,    \* the file, and the character parseCSV is at
  cells,        \* row
  inQuotes, current,
  lines,
  csvHeaders, csvRows, columnMapping,
  posted,       \* the leads of the last request
  remapped,     \* history: the user chose a column
  fileActs, fileFaults  \* history: what the bounds count

parsing == <<text, pos, cells, inQuotes, current, lines>>
mapping == <<csvHeaders, csvRows, columnMapping>>
fileVars == <<listed, wizard, parsing, mapping, posted, remapped, fileActs, fileFaults>>

-----------------------------------------------------------------------------
(* Writing *)

JoinedBy(parts, between) ==
  FlattenSeq([i \in 1 .. Len(parts) |-> IF i = 1 THEN parts[i] ELSE between \o parts[i]])
Escaped(v) == FlattenSeq([i \in 1 .. Len(v) |-> IF v[i] = Quote THEN <<Quote, Quote>> ELSE <<v[i]>>])
InQuotes(v) == <<Quote>> \o Escaped(v) \o <<Quote>>
RowsOf(list) == <<Titles>> \o [i \in 1 .. Len(list) |-> Append(list[i], Status)]

Csv(list) ==
  LET Line(r) == JoinedBy([i \in 1 .. Len(r) |-> InQuotes(r[i])], <<Comma>>)
      rows == RowsOf(list)
  IN JoinedBy([i \in 1 .. Len(rows) |-> Line(rows[i])], <<LF>>)

(* What a spreadsheet writes: quotes where they are needed, every line ended. *)
Resaved(list) ==
  LET Special(v) == \E i \in 1 .. Len(v) : v[i] \in {Quote, Comma, CR, LF}
      Line(r) == JoinedBy([i \in 1 .. Len(r) |-> IF Special(r[i]) THEN InQuotes(r[i]) ELSE r[i]], <<Comma>>)
      rows == RowsOf(list)
  IN FlattenSeq([i \in 1 .. Len(rows) |-> Line(rows[i]) \o <<CR, LF>>])

-----------------------------------------------------------------------------
FileInit ==
  /\ listed \in Lists
  /\ wizard = "upload"
  /\ text = <<>> /\ pos = 1 /\ cells = <<>> /\ inQuotes = FALSE /\ current = <<>> /\ lines = <<>>
  /\ csvHeaders = <<>> /\ csvRows = <<>> /\ columnMapping = [f \in Field |-> <<>>]
  /\ posted = <<>> /\ remapped = FALSE /\ fileActs = 0 /\ fileFaults = 0

(* The page's file, or that file saved again, is given to the wizard. *)
UploadFile ==
  /\ wizard = "upload"
  /\ wizard' = "reading"
  /\ text' \in {Csv(listed), Resaved(listed)}
  /\ pos' = 1 /\ cells' = <<>> /\ inQuotes' = FALSE /\ current' = <<>> /\ lines' = <<>>
  /\ UNCHANGED <<listed, mapping, posted, remapped, fileActs, fileFaults>>

-----------------------------------------------------------------------------
(* parseCSV *)

Reading(c) == wizard = "reading" /\ pos <= Len(text) /\ text[pos] = c
FollowedBy(c) == pos < Len(text) /\ text[pos + 1] = c
StillReading == UNCHANGED <<listed, wizard, text, mapping, posted, remapped, fileActs, fileFaults>>

DoubledQuote_once ==
  /\ Reading(Quote) /\ inQuotes /\ FollowedBy(Quote)
  /\ current' = Append(current, Quote) /\ pos' = pos + 1
  /\ StillReading /\ UNCHANGED <<cells, inQuotes, lines>>
DoubledQuote ==
  /\ Reading(Quote) /\ inQuotes /\ FollowedBy(Quote)
  /\ current' = Append(current, Quote) /\ pos' = pos + 2
  /\ StillReading /\ UNCHANGED <<cells, inQuotes, lines>>

SingleQuote ==
  /\ Reading(Quote) /\ ~(inQuotes /\ FollowedBy(Quote))
  /\ inQuotes' = ~inQuotes /\ pos' = pos + 1
  /\ StillReading /\ UNCHANGED <<cells, current, lines>>

EndCell ==
  /\ Reading(Comma) /\ ~inQuotes
  /\ cells' = Append(cells, Trim(current)) /\ current' = <<>> /\ pos' = pos + 1
  /\ StillReading /\ UNCHANGED <<inQuotes, lines>>

EndLine ==
  /\ Reading(CR) \/ Reading(LF)
  /\ ~inQuotes
  /\ lines' = Append(lines, Append(cells, Trim(current))) /\ cells' = <<>> /\ current' = <<>>
  /\ pos' = IF Reading(CR) /\ FollowedBy(LF) THEN pos + 2 ELSE pos + 1
  /\ StillReading /\ UNCHANGED inQuotes

PlainCharacter ==
  /\ wizard = "reading" /\ pos <= Len(text)
  /\ text[pos] # Quote /\ (text[pos] \in {Comma, CR, LF} => inQuotes)
  /\ current' = Append(current, text[pos]) /\ pos' = pos + 1
  /\ StillReading /\ UNCHANGED <<cells, inQuotes, lines>>

NotBlank(line) == \E i \in 1 .. Len(line) : line[i] # <<>>
Filled(all) == FlattenSeq([i \in 1 .. Len(all) |-> IF NotBlank(all[i]) THEN <<all[i]>> ELSE <<>>])

CloseMatch(f, titles) ==
  LET alike == {i \in 1 .. Len(titles) : titles[i] \in Alike[f]}
  IN IF alike = {} THEN <<>> ELSE titles[Min(alike)]

(* The rest of parseCSV and of handleFileUpload. *)
EndText ==
  /\ wizard = "reading" /\ pos > Len(text)
  /\ LET all == IF current # <<>> \/ cells # <<>> THEN Append(lines, Append(cells, Trim(current))) ELSE lines
         read == Filled(all)
     IN IF read = <<>>
        THEN wizard' = "upload" /\ UNCHANGED mapping
        ELSE /\ wizard' = "mapping"
             /\ csvHeaders' = Head(read) /\ csvRows' = Tail(read)
             /\ columnMapping' = [f \in Field |-> CloseMatch(f, Head(read))]
  /\ UNCHANGED <<listed, parsing, posted, remapped, fileActs, fileFaults>>

-----------------------------------------------------------------------------
(* The mapping and the request *)

FileAct == fileActs < MaxFileActs /\ fileActs' = fileActs + 1

(* A title, or <<>> to leave the field out. *)
ChooseColumn(f, title) ==
  /\ wizard = "mapping" /\ FileAct
  /\ columnMapping' = [columnMapping EXCEPT ![f] = title] /\ remapped' = TRUE
  /\ UNCHANGED <<listed, wizard, parsing, csvHeaders, csvRows, posted, fileFaults>>

UploadDifferent ==
  /\ wizard = "mapping" /\ FileAct
  /\ wizard' = "upload"
  /\ UNCHANGED <<listed, parsing, mapping, posted, remapped, fileFaults>>

(* The first column of the title; a cell the row lacks is blank. *)
Mapped(line, f) ==
  LET at == {i \in 1 .. Len(csvHeaders) : csvHeaders[i] = columnMapping[f]}
  IN IF columnMapping[f] = <<>> \/ at = {} \/ Min(at) > Len(line) THEN <<>> ELSE line[Min(at)]

RunImport ==
  /\ wizard = "mapping"
  /\ wizard' = "posting"
  /\ posted' = [i \in 1 .. Len(csvRows) |-> [f \in Field |-> Mapped(csvRows[i], f)]]
  /\ UNCHANGED <<listed, parsing, mapping, remapped, fileActs, fileFaults>>

ImportAnswered ==
  /\ wizard = "posting"
  /\ wizard' = "results"
  /\ UNCHANGED <<listed, parsing, mapping, posted, remapped, fileActs, fileFaults>>

(* An alert; the mapping stays for another try. *)
ImportFails ==
  /\ wizard = "posting" /\ fileFaults < MaxFileFaults
  /\ wizard' = "mapping" /\ fileFaults' = fileFaults + 1
  /\ UNCHANGED <<listed, parsing, mapping, posted, remapped, fileActs>>

FileNext ==
  \/ UploadFile \/ DoubledQuote \/ SingleQuote \/ EndCell \/ EndLine \/ PlainCharacter \/ EndText
  \/ UploadDifferent \/ RunImport \/ ImportAnswered \/ ImportFails
  \/ \E f \in Field, i \in 0 .. Len(csvHeaders) :
       ChooseColumn(f, IF i = 0 THEN <<>> ELSE csvHeaders[i])

FileSpec == FileInit /\ [][FileNext]_fileVars

-----------------------------------------------------------------------------
FileTypeOK ==
  /\ wizard \in {"upload", "reading", "mapping", "posting", "results"}
  /\ pos \in 1 .. Len(text) + 1 /\ inQuotes \in BOOLEAN
  /\ \A f \in Field : columnMapping[f] = <<>> \/ \E i \in 1 .. Len(csvHeaders) : csvHeaders[i] = columnMapping[f]
  /\ remapped \in BOOLEAN /\ fileActs \in 0 .. MaxFileActs /\ fileFaults \in 0 .. MaxFileFaults

(* The rows a list should be read as, its titles first. *)
Expected ==
  [i \in 1 .. Len(listed) + 1 |->
     IF i = 1 THEN Titles
     ELSE [j \in 1 .. Len(Titles) |-> IF j < Len(Titles) THEN Trim(listed[i - 1][j]) ELSE Status]]

(* A list that is exported, and perhaps saved again by a spreadsheet, is read *)
(* back whole: one row for each lead, every cell as it was but for the blanks *)
(* around it, whatever quotes, commas and ends of line the cells contain, and *)
(* nothing else on the way.  If the user leaves the columns alone, every      *)
(* field that was exported is posted with the value the lead had, and every   *)
(* other field blank.                                                         *)
ReadBack ==
  /\ wizard = "reading" =>
       /\ lines = SubSeq(Expected, 1, Len(lines))
       /\ cells # <<>> => cells = SubSeq(Expected[Len(lines) + 1], 1, Len(cells))
  /\ wizard = "mapping" => csvHeaders = Titles /\ csvRows = Tail(Expected)
  /\ wizard = "posting" /\ ~remapped =>
       posted = [i \in 1 .. Len(listed) |->
                   [f \in Field |-> IF Column[f] = 0 THEN <<>> ELSE Trim(listed[i][Column[f]])]]
=============================================================================
