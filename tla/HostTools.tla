----------------------------- MODULE HostTools ------------------------------
(***************************************************************************)
(* Two tools with state between calls (spine-cli: partner_tools.rs): the   *)
(* paged file_read, whose caller follows next_offset while file_write and  *)
(* shell commands may change the file, and the browser session that a      *)
(* parent and its subagents share.                                         *)
(*                                                                         *)
(* A file is its length and a version; what a page costs of the output     *)
(* budget is its header, with the decimal numbers in it, and its content.  *)
(* A page of the web is its number; what fetch makes of a body (title,     *)
(* links, text, entities) is not looked at again and is left out.          *)
(***************************************************************************)
EXTENDS Naturals, Sequences, FiniteSets

CONSTANTS
  FileSizes,   \* lengths a file may have
  HeaderBase,  \* header of a page without its four numbers
  Budgets,     \* values of max_tool_result_chars
  Requests,    \* values of max_chars that file_read accepts
  Surfer,      \* agents that share the browser
  Engines,     \* search endpoints configured
  MaxFetches   \* bound: requests sent

ASSUME FileNumbers == /\ FileSizes \subseteq Nat /\ HeaderBase \in Nat
                      /\ Budgets \subseteq Nat /\ Requests \subseteq Nat \ {0}
ASSUME WebNumbers == Engines \in Nat /\ MaxFetches \in Nat

VARIABLES
  file,    \* length and version of the file
  pager,   \* the caller of file_read: next_offset, null or not; what it has so far
  page,    \* what the last file_read returned
  pages,   \* BrowserState: history
  cursor,  \*   and cursor, 0 for None
  request, \* agent -> its request under way
  fetched  \* requests sent so far

fileVars == <<file, pager, page>>
browserVars == <<pages, cursor, request, fetched>>
toolVars == <<fileVars, browserVars>>

-----------------------------------------------------------------------------
(* file_read and file_write *)

\* A decimal number has one digit, and one more from each power of ten on; no
\* file is as long as 10^9.
Digits(n) == 1 + Cardinality({d \in 1..8 : 10 ^ d <= n})

\* The header with the size, the offset, the end and next_offset or null.
Header(total, offset, end) ==
  HeaderBase + Digits(total) + Digits(offset) + Digits(end)
             + IF end < total THEN Digits(end) ELSE 4

\* Mutation of Reserved: the header of a page that does not end the file.
ReservedForMore(total, offset) == Header(total, offset, IF total = 0 THEN 0 ELSE total - 1)

\* The widest header this page may get: with null, or with the widest cursor.
Reserved(total, offset) ==
  LET last == Header(total, offset, total)
      more == Header(total, offset, IF total = 0 THEN 0 ELSE total - 1)
  IN  IF last > more THEN last ELSE more

Least(S) == CHOOSE n \in S : \A m \in S : n <= m

\* file_read at an offset: characters returned, or no page at all.
ReadPage(total, offset, budget, requested) ==
  IF \/ offset > total
     \/ budget < Reserved(total, offset)
     \/ budget = Reserved(total, offset) /\ offset < total
  THEN [ok |-> FALSE]
  ELSE LET n == Least({requested, budget - Reserved(total, offset), total - offset})
       IN  [ok |-> TRUE, chars |-> n, budget |-> budget,
            cost |-> n + Header(total, offset, offset + n)]

Beginning(version) == [next |-> 0, eof |-> FALSE, has |-> 0, of |-> version]

\* The caller goes on at next_offset, or gives up on an error.
FileRead(budget, requested) ==
  /\ ~pager.eof
  /\ page' = ReadPage(file.size, pager.next, budget, requested)
  /\ IF page'.ok
     THEN LET end == pager.next + page'.chars
          IN  pager' = [next |-> end, eof |-> end = file.size,
                        has |-> pager.has + page'.chars, of |-> pager.of]
     ELSE pager' = Beginning(file.version)
  /\ UNCHANGED <<file, browserVars>>

\* The next file, or the same one again.
Reopen ==
  /\ pager.eof
  /\ pager' = Beginning(file.version)
  /\ page' = [ok |-> FALSE]
  /\ UNCHANGED <<file, browserVars>>

\* file_write, or a command of the shell.
FileWrite(n) ==
  /\ file.version = 0
  /\ file' = [size |-> n, version |-> 1]
  /\ UNCHANGED <<pager, page, browserVars>>

-----------------------------------------------------------------------------
(* web_fetch, web_navigate, web_search, web_back and web_forward *)

NoRequest == [engines |-> 0, page |-> 0]

\* fetch sends the request; a search has the other engines to fall back on.
SendRequest(a, engines) ==
  /\ request[a] = NoRequest
  /\ fetched < MaxFetches
  /\ fetched' = fetched + 1
  /\ request' = [request EXCEPT ![a] = [engines |-> engines, page |-> fetched']]
  /\ UNCHANGED <<fileVars, pages, cursor>>

\* A page that arrived replaces everything ahead of the cursor.
Recorded(p) == SubSeq(pages, 1, cursor) \o <<p>>

\* The response is there, in whatever order responses arrive.
PageArrives(a) ==
  /\ request[a] # NoRequest
  /\ pages' = Recorded(request[a].page)
  /\ cursor' = Len(pages')
  /\ request' = [request EXCEPT ![a] = NoRequest]
  /\ UNCHANGED <<fileVars, fetched>>

\* An error, a status or too long a body: the next engine, if there is one.
FetchFails(a) ==
  /\ request[a] # NoRequest
  /\ request' = [request EXCEPT ![a] =
                  IF @.engines = 1 THEN NoRequest
                  ELSE [engines |-> @.engines - 1, page |-> @.page]]
  /\ UNCHANGED <<fileVars, pages, cursor, fetched>>

\* move_history, which stays where it is at either end.
MoveHistory(next) ==
  /\ cursor # 0 /\ next \in 1..Len(pages)
  /\ cursor' = next
  /\ UNCHANGED <<fileVars, pages, request, fetched>>

-----------------------------------------------------------------------------

ToolsInit ==
  /\ \E n \in FileSizes : file = [size |-> n, version |-> 0]
  /\ pager = Beginning(0)
  /\ page = [ok |-> FALSE]
  /\ pages = <<>> /\ cursor = 0 /\ fetched = 0
  /\ request = [a \in Surfer |-> NoRequest]

ToolsNext ==
  \/ \E b \in Budgets, r \in Requests : FileRead(b, r)
  \/ Reopen
  \/ \E n \in FileSizes : FileWrite(n)
  \/ \E a \in Surfer : \/ SendRequest(a, 1) \/ SendRequest(a, Engines)
                       \/ PageArrives(a) \/ FetchFails(a)
  \/ MoveHistory(cursor - 1) \/ MoveHistory(cursor + 1)

ToolsSpec == ToolsInit /\ [][ToolsNext]_toolVars

-----------------------------------------------------------------------------
(* Properties. *)

\* Every page with its header fits the output budget, moves on unless it is at
\* the end, and a caller that follows next_offset to null through a file nobody
\* changed has every character once (execute of FileReadTool).  Whichever agent's
\* page arrives when, the browser shows a page it has (fetch, move_history).
PagesCover ==
  /\ page.ok => /\ page.cost <= page.budget
                /\ page.chars > 0 \/ pager.eof
  /\ pager.of = file.version => /\ pager.has = pager.next
                                /\ pager.eof => pager.has = file.size
  /\ pages # <<>> => cursor \in DOMAIN pages

=============================================================================
