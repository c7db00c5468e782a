--------------------------- MODULE ResponsePrepare ---------------------------
(***************************************************************************)
(* The response preparation a pool thread performs in                     *)
(* HttpServer::handler_tasks (src/sources/server/server.cpp:342-366): the  *)
(* HEAD, Range, gzip and default stages, the header checks                *)
(* check_client_support_gzip_encoding / check_client_request_range, and   *)
(* parseRangesRequest with the prepare_*_response functions.               *)
(*                                                                         *)
(* A handler's body of len bytes is the sequence of its byte indices       *)
(* 0..len-1, so a slice says which bytes it holds.  size_t arithmetic is   *)
(* taken modulo SizeMod, which stands for 2^64: every number a header in   *)
(* the model spells is far below it, and only (size_t)-1 and the wrap of   *)
(* +1 reach it.  Header values are character sequences after their unit:   *)
(* the range header is a unit ("bytes=", or one without it) followed by    *)
(* the range set, whose alphabet has no letters of the unit.  gzip is the  *)
(* external compression primitive and is recorded as a flag on the body.  *)
(***************************************************************************)
EXTENDS Integers, Sequences, FiniteSets
LOCAL INSTANCE SequencesExt
LOCAL INSTANCE Functions

CONSTANTS
  Lens,            \* body sizes a handler may return
  RangeHeaders,    \* values of the "range" header: [unit, set]
  NoRange,         \* the request has no "range" header
  Encodings,       \* "accept-encoding": "absent", "gzip" or another coding
  SizeMod,         \* 2^(bits of size_t)
  CompressStatic   \* m_compress_static_resources

ASSUME
  /\ Lens \subseteq Nat
  /\ SizeMod \in Nat /\ SizeMod > 4 * (1 + Max(Lens))
  /\ CompressStatic \in BOOLEAN
  /\ NoRange \notin RangeHeaders

Methods == {"GET", "HEAD"}
Kinds   == {"local", "static"}
Tasks   == [method : Methods, range : RangeHeaders \cup {NoRange},
            enc : Encodings, kind : Kinds]
Results == [len : Lens, compress : BOOLEAN]   \* what the handler returned

Digits == {"0", "1", "2", "3", "4", "5", "6", "7", "8", "9"}
DigitVal == [c \in Digits |-> CASE c = "0" -> 0 [] c = "1" -> 1 [] c = "2" -> 2
                                 [] c = "3" -> 3 [] c = "4" -> 4 [] c = "5" -> 5
                                 [] c = "6" -> 6 [] c = "7" -> 7 [] c = "8" -> 8
                                 [] OTHER -> 9]
SizeT == 0 .. SizeMod - 1
NaN  == -1                               \* what Number gives for a non-digit
Err  == <<>>      \* OnyxupException: no range (a real result is never empty)
Past == "past"                           \* a byte read beyond the body

Body(r) == [k \in 1 .. r.len |-> k - 1]

NoOut == [code |-> "none", gzip |-> FALSE, data |-> <<>>, parts |-> <<>>]

VARIABLES
  task,   \* the task the thread popped: its request's method and headers
  resp,   \* the ResponseBase the handler returned
  out     \* the prepared response, NoOut before preparation

vars == <<task, resp, out>>

-----------------------------------------------------------------------------
(* Header checks.  Both functions fall off their end when the header is    *)
(* present but does not contain the word (no return statement): the        *)
(* result is whatever the build leaves in the return register.             *)
ClientGzip(t) ==
  CASE t.enc = "absent" -> {FALSE}
    [] t.enc = "gzip"   -> {TRUE}
    [] OTHER            -> BOOLEAN

ClientRange(t) ==
  CASE t.range = NoRange                     -> {FALSE}
    [] t.range.unit \in {"bytes=", "bytes"}  -> {TRUE}
    [] OTHER                                 -> BOOLEAN

-----------------------------------------------------------------------------
(* parseRangesRequest(src, max_index_byte).                                *)

(* trim_spaces *)
TrimSpaces(s) == SelectSeq(s, LAMBDA c : c # " ")

(* The segments of s between commas, the last one included. *)
RECURSIVE Fields(_)
Fields(s) ==
  LET i == SelectInSeq(s, LAMBDA c : c = ",") IN
  IF i = 0 THEN <<s>> ELSE <<SubSeq(s, 1, i - 1)>> \o Fields(SubSeq(s, i + 1, Len(s)))

(* std::getline(iss, token, ','): every segment, except a last one that is *)
(* empty (nothing follows the final comma, or the set is empty).           *)
Tokens(s) == LET f == Fields(s) IN IF Last(f) = <<>> THEN Front(f) ELSE f

(* value = value * 10 + digit over s, in size_t; NaN on a non-digit. *)
Number(s) ==
  IF \E i \in 1 .. Len(s) : s[i] \notin Digits THEN NaN
  ELSE FoldLeft(LAMBDA v, c : (v * 10 + DigitVal[c]) % SizeMod, 0, s)

(* "N-" *)
OpenRange(v, max) == IF v = NaN \/ v > max THEN Err ELSE <<v, max>>

(* "-N" *)
SuffixRange(v, max) == IF v = NaN \/ v > max THEN Err ELSE <<max - v, max>>

(* "A-B" *)
ClosedRange(l, r, max) ==
  IF l = NaN \/ r = NaN \/ r < l \/ r > max THEN Err ELSE <<l, r>>

(* One token with its spaces removed.  An empty token reads                *)
(* token[size() - 1], the byte before the string's data, which the build   *)
(* (libstdc++, short-string layout) holds as '\0': it is not '-', neither  *)
(* is token[0], and find("-") fails, so the token throws.                  *)
ParseToken(t, max) ==
  LET d == SelectInSeq(t, LAMBDA c : c = "-") IN
  CASE t = <<>>        -> Err
    [] Last(t) = "-"   -> OpenRange(Number(Front(t)), max)
    [] t[1] = "-"      -> SuffixRange(Number(Tail(t)), max)
    [] d = 0           -> Err
    [] OTHER           -> ClosedRange(Number(SubSeq(t, 1, d - 1)),
                                      Number(SubSeq(t, d + 1, Len(t))), max)

(* std::sort by first: the order of ranges with equal starts is            *)
(* unspecified, so every order sorted by start is a possible result.       *)
SortedPermutations(s) ==
  { [i \in DOMAIN s |-> s[p[i]]] : p \in Bijection(DOMAIN s, DOMAIN s) }
  \cap { q \in [DOMAIN s -> Range(s)] : \A i \in 2 .. Len(s) : q[i - 1][1] <= q[i][1] }

(* Mutant: the border is taken from the previous range's start. *)
OrderedByStart(s, max) ==
  \A i \in 2 .. Len(s) : s[i][1] >= s[i - 1][1] /\ s[i][2] <= max

(* The border loop: no range starts before the previous range's end. *)
Ordered(s, max) ==
  \A i \in 2 .. Len(s) : s[i][1] >= s[i - 1][2] /\ s[i][2] <= max

(* The possible results of parseRangesRequest(h, max): a sequence of       *)
(* ranges, or Err.                                                         *)
ParseRangesRequest(h, max) ==
  LET toks == Tokens(h.set)
      rs   == [i \in DOMAIN toks |-> ParseToken(TrimSpaces(toks[i]), max)]
  IN IF max = 0 \/ h.unit # "bytes=" \/ toks = <<>>
           \/ \E i \in DOMAIN rs : rs[i] = Err
     THEN {Err}
     ELSE { IF Ordered(s, max) THEN s ELSE Err : s \in SortedPermutations(rs) }

-----------------------------------------------------------------------------
(* std::copy(begin + f, begin + l + 1): nothing when the end is not past   *)
(* the start (l + 1 wraps when l is (size_t)-1); a byte beyond the body is *)
(* read as whatever follows it.                                            *)
Copy(body, f, l) ==
  LET e == (l + 1) % SizeMod IN
  IF e <= f THEN <<>>
  ELSE [k \in 1 .. e - f |-> IF f + k - 1 < Len(body) THEN body[f + k] ELSE Past]

(* prepare_range_response: one part per range (a single range is the     *)
(* body itself, several form a multipart body).                          *)
RangeResponse(r, rs) ==
  [code |-> "206", gzip |-> FALSE, data |-> <<>>,
   parts |-> [i \in DOMAIN rs |-> [first |-> rs[i][1], last |-> rs[i][2],
                                   data |-> Copy(Body(r), rs[i][1], rs[i][2])]]]

(* prepare_range_not_satisfiable_response *)
NotSatisfiable == [code |-> "416", gzip |-> FALSE, data |-> <<>>, parts |-> <<>>]

(* prepare_head_response *)
HeadResponse(r) == [code |-> "H", gzip |-> FALSE, data |-> <<>>, parts |-> <<>>]

(* prepare_default_response *)
DefaultResponse(r) == [code |-> "H", gzip |-> FALSE, data |-> Body(r), parts |-> <<>>]

(* prepare_compress_response *)
Compressed(r) == [code |-> "H", gzip |-> TRUE, data |-> Body(r), parts |-> <<>>]

(* The Range stage: the body size minus one, in size_t, is the maximum     *)
(* index; an exception becomes a 416.                                      *)
RangeStage(t, r) ==
  { IF o = Err THEN NotSatisfiable ELSE RangeResponse(r, o) :
      o \in ParseRangesRequest(t.range, (r.len - 1) % SizeMod) }

(* Mutant: the compression stage is tried before the Range stage. *)
PreparedCompressFirst(t, r, gz, rg) ==
  CASE t.method = "HEAD"                                         -> {HeadResponse(r)}
    [] (r.compress /\ gz) \/ (t.kind = "static" /\ CompressStatic) -> {Compressed(r)}
    [] rg                                                        -> RangeStage(t, r)
    [] OTHER                                                     -> {DefaultResponse(r)}

(* The chain of handler_tasks: HEAD, else Range, else compression, else    *)
(* the default Content-Length.                                             *)
Prepared(t, r, gz, rg) ==
  CASE t.method = "HEAD"                                         -> {HeadResponse(r)}
    [] rg                                                        -> RangeStage(t, r)
    [] (r.compress /\ gz) \/ (t.kind = "static" /\ CompressStatic) -> {Compressed(r)}
    [] OTHER                                                     -> {DefaultResponse(r)}

-----------------------------------------------------------------------------
(* A pool thread has popped a task and run its handler.  After preparing  *)
(* it the thread pushes the task and blocks in wait_and_pop again, which   *)
(* Reactor models: here every behaviour prepares one task and stops.       *)
Init ==
  /\ task \in Tasks
  /\ resp \in Results
  /\ out = NoOut

(* The thread prepares the handler's response for the task it holds. *)
Prepare ==
  /\ out = NoOut
  /\ \E gz \in ClientGzip(task), rg \in ClientRange(task) :
       \E o \in Prepared(task, resp, gz, rg) : out' = o
  /\ UNCHANGED <<task, resp>>

Next == Prepare

Spec == Init /\ [][Next]_vars

-----------------------------------------------------------------------------
(* Reference: the byte ranges of spec.md section 4.4 for a body of len      *)
(* bytes.  "a-b" is the closed interval with a <= b <= len - 1, "a-" runs  *)
(* from a to the end, "-n" is the last n bytes; endpoints are all digits;  *)
(* sorted by start, no range may start before the previous one ends.       *)
RECURSIVE Decimal(_)
Decimal(s) == IF s = <<>> THEN 0 ELSE 10 * Decimal(Front(s)) + DigitVal[Last(s)]

AllDigits(s) == s # <<>> /\ \A i \in 1 .. Len(s) : s[i] \in Digits
Dash(t) == SelectInSeq(t, LAMBDA c : c = "-")
Before(t) == SubSeq(t, 1, Dash(t) - 1)
After(t) == SubSeq(t, Dash(t) + 1, Len(t))
IsClosed(t) == Dash(t) > 0 /\ AllDigits(Before(t)) /\ AllDigits(After(t))
IsOpen(t)   == Dash(t) > 0 /\ AllDigits(Before(t)) /\ After(t) = <<>>
IsSuffixForm(t) == Dash(t) = 1 /\ AllDigits(After(t))

SpecRange(t, len) ==
  CASE IsClosed(t) /\ Decimal(Before(t)) <= Decimal(After(t))
                   /\ Decimal(After(t)) <= len - 1
         -> <<Decimal(Before(t)), Decimal(After(t))>>
    [] IsOpen(t) /\ Decimal(Before(t)) <= len - 1
         -> <<Decimal(Before(t)), len - 1>>
    [] IsSuffixForm(t) /\ 1 <= Decimal(After(t)) /\ Decimal(After(t)) <= len
         -> <<len - Decimal(After(t)), len - 1>>
    [] OTHER -> Err

SpecOutcomes(elems, len) ==
  LET rs == [i \in DOMAIN elems |-> SpecRange(TrimSpaces(elems[i]), len)] IN
  IF \E i \in DOMAIN rs : rs[i] = Err THEN {Err}
  ELSE { IF \A i \in 2 .. Len(s) : s[i][1] >= s[i - 1][2] THEN s ELSE Err :
           s \in SortedPermutations(rs) }

Slice(f, l) == [k \in 1 .. l - f + 1 |-> f + k - 1]

(* The ranges a response carries, Err for any other response. *)
Served(o) == [i \in DOMAIN o.parts |-> <<o.parts[i].first, o.parts[i].last>>]

RangeGet == out # NoOut /\ task.method = "GET" /\ task.range # NoRange
            /\ task.range.unit = "bytes="
Elements == Fields(task.range.set)
OneElement == Len(Elements) = 1
A == Decimal(Before(task.range.set))
B == Decimal(After(task.range.set))

(* spec.md 4.5: "bytes=a-b" with a > b or b > len - 1 is answered 416      *)
(* (the bound checks of parseRangesRequest against max_index_byte).        *)
InvalidRangeRejected ==
  RangeGet /\ OneElement /\ IsClosed(task.range.set) /\ (A > B \/ B > resp.len - 1)
  => out.code = "416"

(* Range sets of closed and open ranges on bodies of two bytes or more are  *)
(* served as spec.md 4.4 says: the same ranges in ascending order, each     *)
(* part holding exactly its bytes, or 416 when a range is invalid or starts *)
(* before the previous one ends (tokenizing, trimming, digit parsing,      *)
(* bound checks, std::sort and the border loop of parseRangesRequest, and   *)
(* the copies of prepare_range_response).  Suffix ranges, the bare "-" and  *)
(* empty elements are excluded: the spec leaves the last two open, and a   *)
(* suffix diverges from it in a single step (server.cpp:252).              *)
RangesAgreeWithSpec ==
  LET closedOrOpen == \A i \in DOMAIN Elements :
                        LET e == TrimSpaces(Elements[i]) IN
                        ~IsSuffixForm(e) /\ e \notin {<<>>, <<"-">>}
  IN RangeGet /\ resp.len >= 2 /\ closedOrOpen
     => /\ Served(out) \in SpecOutcomes(Elements, resp.len)
        /\ \A j \in DOMAIN out.parts :
             out.parts[j].data = Slice(out.parts[j].first, out.parts[j].last)

(* spec.md 4.4: a Range header naming bytes ends the chain with 206 or 416; *)
(* it is never compressed or served whole (the stage order of              *)
(* handler_tasks).                                                         *)
RangeTerminal ==
  out # NoOut /\ task.method = "GET" /\ task.range # NoRange
  /\ task.range.unit \in {"bytes=", "bytes"}
  => out.code \in {"206", "416"}

====
