--------------------------- MODULE ProcessRequest ---------------------------
(***************************************************************************)
(* What hw4/HttpServer.cc makes of one request after another: the page     *)
(* with the search box, the answer to a search or a file.  For a search it *)
(* makes a QueryProcessor, asks it once and destroys it.  The other        *)
(* customer of QueryProcessor, hw3/filesearchshell, asks one all it has to *)
(* ask.                                                                    *)
(*                                                                         *)
(* The requests are those of a browser, external to the code: a form with  *)
(* the text that somebody typed, or a file by its name, encoded the way    *)
(* RFC 3986 and HTML forms encode them.                                    *)
(***************************************************************************)
EXTENDS QueryProcessor, HttpUtils

CONSTANTS
    Texts,           \* what may be typed into the search box
    FileNames,       \* the file names that may be asked for
    Files,           \* the names of the files under the static directory
    ContentTypes,    \* the suffixes that have a content type, and which
    FNVHash64(_),    \* the hash of a word
    None,
    Terminated

VARIABLES
    customer,   \* which program has the QueryProcessor
    request,    \* what the browser asks for, and what is made of its URI
    page        \* what it is sent; Terminated if the process ends instead

web     == <<customer, request, page>>
webVars == <<vars, web>>

-----------------------------------------------------------------------------
(* The browser: letters, digits, "-", ".", "/", "_" and "~" stay, a space  *)
(* in a form is a "+", everything else is escaped.                         *)
Plain == 45..57 \cup 65..90 \cup {95} \cup 97..122 \cup {126}
HexDigit(n) == IF n < 10 THEN 48 + n ELSE 55 + n
Encode(s) ==
    FlattenSeq([n \in DOMAIN s |->
        IF s[n] \in Plain THEN <<s[n]>>
        ELSE <<Percent, HexDigit(s[n] \div 16), HexDigit(s[n] % 16)>>])
FormEncode(s) ==
    FlattenSeq([n \in DOMAIN s |-> IF s[n] = SP THEN <<Plus>> ELSE Encode(<<s[n]>>)])

Slash  == <<47>>
Static == <<47, 115, 116, 97, 116, 105, 99, 47>>     \* "/static/"
Terms  == <<116, 101, 114, 109, 115>>                \* "terms"
Search == <<113, 117, 101, 114, 121, Question>> \o Terms \o <<Equals>>
                                                     \* "query?terms="

URI(r) ==
    CASE r.kind = "home"   -> Slash
      [] r.kind = "file"   -> Static \o Encode(r.text)
      [] r.kind = "search" -> Slash \o Search \o FormEncode(r.text)

Requests ==
    {[kind |-> "home", text |-> <<>>]}
        \cup [kind : {"file"}, text : FileNames] \cup [kind : {"search"}, text : Texts]

-----------------------------------------------------------------------------
RequestInit ==
    /\ Unborn
    /\ customer \in {"filesearchshell", "http333d"}
    /\ validate = (customer = "filesearchshell")
    /\ pc = IF customer = "http333d" THEN "destroyed" ELSE "fopen"
    /\ request = None /\ page = None

(* ProcessRequest's two tests. *)
IsFileRequest(u) == IsPrefix(Static, u)
IsSearch(u) == \E n \in 0..(Len(u) - Len(Search)) : SubSeq(u, n + 1, n + Len(Search)) = Search

(* The text asked for, and its words. *)
QueryText(u) == to_lower(trim(Arg(u, Terms)))
QueryWords(u) == split(compress(QueryText(u), SP), SP)

(* What follows from the last dot on, less its last character if that dot  *)
(* is the first character: substr's second argument is a length.           *)
HasDot(fname) == \E n \in DOMAIN fname : fname[n] = Dot
Suffix(fname) ==
    LET dot_pos == Max({n \in DOMAIN fname : fname[n] = Dot})
    IN  SubSeq(fname, dot_pos, Min({Len(fname), dot_pos + Len(fname) - 2}))

ContentType(fname) ==
    IF Suffix(fname) \in DOMAIN ContentTypes THEN ContentTypes[Suffix(fname)] ELSE "text/plain"

(* The file, or that there is none.  For the name of a file without a dot  *)
(* substr throws, which nobody catches.                                    *)
FilePage(u) ==
    LET fname == SubSeq(Path(u), Len(Static) + 1, Len(Path(u)))
    IN  CASE fname \notin Files ->
               [code |-> 404, shown |-> EscapeHtml(fname), body |-> None, content_type |-> None]
          [] fname \in Files /\ HasDot(fname) ->
               [code |-> 200, shown |-> <<>>, body |-> fname, content_type |-> ContentType(fname)]
          [] OTHER -> Terminated

(* The logo and the search box, and below it what was found. *)
QueryPage(shown, found) ==
    [code |-> 200, shown |-> shown, body |-> found, content_type |-> None]

(* The requests, and what the handlers compute from their URIs. *)
Handled(r, u) ==
    [kind |-> r.kind, text |-> r.text, uri |-> u,
     isFile   |-> IsFileRequest(u),
     isSearch |-> IsSearch(u),
     words    |-> QueryWords(u),
     shown    |-> EscapeHtml(QueryText(u)),
     filePage |-> IF IsFileRequest(u) THEN FilePage(u) ELSE None]
Parsed == {Handled(r, URI(r)) : r \in Requests}

(* What ProcessQuery is given for a search. *)
Query(words) ==
    [n \in DOMAIN words |->
        [key |-> FNVHash64(words[n]), len |-> Len(words[n]), word |-> words[n]]]

ASSUME WordsAssumption == \A r \in Parsed : IsQuery(Query(r.words))

-----------------------------------------------------------------------------
(* The next request is read; there is no QueryProcessor now. *)
NextRequest(r) ==
    /\ customer = "http333d" /\ pc = "destroyed" /\ page # Terminated
    /\ request' = r

ProcessFileRequest(r) ==
    /\ NextRequest(r)
    /\ r.isFile
    /\ page' = r.filePage
    /\ UNCHANGED <<vars, customer>>

(* ProcessQueryRequest without a search. *)
ShowSearchBox(r) ==
    /\ NextRequest(r)
    /\ ~r.isFile /\ ~r.isSearch
    /\ page' = QueryPage(<<>>, None)
    /\ UNCHANGED <<vars, customer>>

(* ProcessQueryRequest with a search, which opens the index files anew, *)
StartSearch(r) ==
    /\ NextRequest(r)
    /\ ~r.isFile /\ r.isSearch
    /\ page' = None
    /\ pc' = "fopen"
    /\ i' = 1
    /\ offset' = [x \in DOMAIN indexlist |-> 0]
    /\ reading' = <<>>
    /\ query' = <<>> /\ w' = 1 /\ table' = 0 /\ result' = <<>> /\ k' = 0 /\ finalresult' = <<>>
    /\ UNCHANGED <<args, streams, runs, misread, customer>>

(* asks for the words, *)
SearchTerms ==
    /\ customer = "http333d" /\ query = <<>>
    /\ ProcessQuery(Query(request.words))
    /\ UNCHANGED web

(* and shows the answer; the QueryProcessor goes out of scope. *)
SearchPage ==
    /\ customer = "http333d" /\ query # <<>>
    /\ page' = QueryPage(request.shown, finalresult)
    /\ Destroy
    /\ UNCHANGED <<customer, request>>

(* filesearchshell goes on until a Verify333 ends it. *)
Shell == customer = "filesearchshell" /\ ShellQuery /\ UNCHANGED web

Program == (Step /\ UNCHANGED web) \/ SearchTerms \/ SearchPage

RequestNext ==
    \/ Program \/ Shell
    \/ \E r \in Parsed : ProcessFileRequest(r) \/ ShowSearchBox(r) \/ StartSearch(r)

RequestSpec == RequestInit /\ [][RequestNext]_webVars

(* Both programs run on; nobody has to ask them anything. *)
RequestFairSpec == RequestSpec /\ WF_webVars(Program)

-----------------------------------------------------------------------------
(* The words that were typed: the longest stretches without a space, in    *)
(* lower case, or an empty word if there is none.                          *)
TypedWords(text) ==
    LET ends == {e \in (DOMAIN text) \X (DOMAIN text) :
                    /\ e[1] <= e[2]
                    /\ \A n \in e[1]..e[2] : text[n] # SP
                    /\ e[1] = 1 \/ text[e[1] - 1] = SP
                    /\ e[2] = Len(text) \/ text[e[2] + 1] = SP}
        inOrder == SetToSortSeq(ends, LAMBDA e, f : e[1] < f[1])
    IN  IF ends = {} THEN << <<>> >>
        ELSE [n \in DOMAIN inOrder |-> to_lower(SubSeq(text, inOrder[n][1], inOrder[n][2]))]

(* A browser shows the text for this HTML, and takes nothing in it for a   *)
(* tag or the end of an attribute.                                         *)
Displays(html, text) ==
    LET entitiesAt(n) == {c \in DOMAIN Entity : IsPrefix(Entity[c], SubSeq(html, n, Len(html)))}
        rendered[n \in 1..(Len(html) + 1)] ==
            IF n > Len(html) THEN <<>>
            ELSE IF entitiesAt(n) = {} THEN <<html[n]>> \o rendered[n + 1]
            ELSE LET c == CHOOSE e \in entitiesAt(n) : TRUE
                 IN  <<c>> \o rendered[n + Len(Entity[c])]
    IN  /\ ToSet(html) \cap {Quote, Apos, Less, Greater} = {}
        /\ rendered[1] = text

(* Whatever printable characters somebody types, the words looked up are   *)
(* the words typed, the page shows the text, and no text ends the server:  *)
(* no Verify333 of the constructor, of the lookups or of FileDup fails     *)
(* unless an index file is not complete or the process cannot have two     *)
(* descriptors for each index file and one more; the shell also ends on a  *)
(* query without words.  A file is found under the name it has, and sent   *)
(* with its content type if something comes before its last dot; only a    *)
(* name without a dot ends the server.                                     *)
RequestsUnderstood ==
    /\ pc = "exited" =>
          \/ \E x \in DOMAIN indexlist : ~IndexTables[indexlist[x]].complete
          \/ customer = "filesearchshell" /\ Opened = Readers /\ query = <<>>
          \/ 2 * Len(indexlist) + 1 > MaxFds
    /\ customer = "http333d" =>
        /\ page = Terminated => request.text \in Files /\ ~HasDot(request.text)
        /\ page \notin {None, Terminated} =>
              CASE request.kind = "home" -> page = QueryPage(<<>>, None)
                [] request.kind = "search" ->
                      /\ [n \in DOMAIN query |-> query[n].word] = TypedWords(request.text)
                      /\ Displays(page.shown, to_lower(trim(request.text)))
                [] request.kind = "file" /\ request.text \notin Files ->
                      page.code = 404 /\ Displays(page.shown, request.text)
                [] request.kind = "file" /\ request.text \in Files ->
                      /\ page.body = request.text
                      /\ \A s \in DOMAIN ContentTypes :
                            IsSuffix(s, request.text) /\ Len(s) < Len(request.text) =>
                                page.content_type = ContentTypes[s]

(* Each query and each search is answered, or the process ends. *)
Responds ==
    /\ Answered
    /\ request # None /\ page = None ~> page # None \/ pc = "exited"
=============================================================================
