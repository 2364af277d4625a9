------------------------------ MODULE Scanner ------------------------------
(***************************************************************************)
(* The scanner and the token queue of the parser (lexer.c, and TokenQueue  *)
(* in lexer_helpers.c), as operators on the record of everything the       *)
(* parser has at hand.  A text is a sequence of lexemes: what a token is   *)
(* made of, or a newline, or a comment; how a lexeme is spelled is left    *)
(* out.  The scanner drops comments, and newlines while a bracket is open. *)
(*                                                                         *)
(* Every operator takes a parser and answers the parser after it, with     *)
(* what the function of the code returns as its field out.  After an error *)
(* the compiler exits: a refused parser sees nothing but the end of the    *)
(* file.                                                                   *)
(*                                                                         *)
(* PeeksThree is a deviation.                                              *)
(***************************************************************************)
EXTENDS Naturals, Sequences

Lexeme(type, value, col) == [type |-> type, value |-> value, col |-> col]

Newline(col) == Lexeme("newline", "", col)
Comment(col) == Lexeme("comment", "", col)

Opening == [round |-> "(", square |-> "[", curly |-> "{"]
Closing == [round |-> ")", square |-> "]", curly |-> "}"]
Brackets == DOMAIN Opening

\* A file that ends with a newline ends in its first column.
EndOfFile == Lexeme("eof", "", 1)

NoRule == "none"
NoToken == Lexeme("none", "", 0)

(* The parser before it has read anything of the text.                     *)
NewParser(text, scope) ==
  [text |-> text, open |-> [b \in Brackets |-> 0],
   asserting |-> FALSE, asserted |-> <<>>,
   tq |-> <<>>, longest |-> 0,
   previous |-> NoToken, token |-> NoToken, rule |-> NoRule,
   indents |-> <<>>, scopes |-> <<scope>>, in_loop |-> FALSE,
   members |-> <<>>, refused |-> FALSE, out |-> <<>>]

(* syntax_error and its like: nothing is read any more.                    *)
Refuse(p) ==
  [p EXCEPT !.refused = TRUE, !.text = <<>>, !.tq = <<EndOfFile>>,
            !.token = EndOfFile, !.scopes = <<p.scopes[1]>>]

Returning(p, value) == [p EXCEPT !.out = value]

AtLeast(m, n) == IF m < n THEN n ELSE m

tq_push(p, token) ==
  [p EXCEPT !.tq = Append(@, token), !.longest = AtLeast(@, Len(p.tq) + 1)]

should_tokenize_newlines(p) == \A b \in Brackets : p.open[b] = 0

(* handle_single_char_tokens: a bracket is counted, and one that closes    *)
(* what is not open is refused.                                            *)
CountBracket(p, l) ==
  IF \E b \in Brackets : Closing[b] = l.type /\ p.open[b] = 0 THEN Refuse(p)
  ELSE [p EXCEPT !.open = [b \in Brackets |->
          @[b] + (IF Opening[b] = l.type THEN 1 ELSE 0)
               - (IF Closing[b] = l.type THEN 1 ELSE 0)]]

IsAssert(l) == l.type = "keyword" /\ l.value = "assert"

(* scanner_getc copies what it reads into assert_buf from the keyword on.  *)
LexemeRead(p, l) ==
  [p EXCEPT !.text = Tail(@),
            !.asserting = @ \/ IsAssert(l),
            !.asserted = CASE IsAssert(l) -> <<l>>
                           [] p.asserting /\ ~IsAssert(l) -> Append(@, l)
                           [] OTHER -> @]

(* A comment is dropped, and a newline while a bracket is open.            *)
Dropped(p, l) ==
  l.type = "comment" \/ (l.type = "newline" /\ ~should_tokenize_newlines(p))

Tokenized(p, l) == IF p.refused THEN p ELSE tq_push(p, l)

RECURSIVE scan_token(_)
Scanned(p, l) ==
  IF Dropped(p, l) THEN scan_token(p) ELSE Tokenized(CountBracket(p, l), l)
scan_token(p) ==
  IF p.text = <<>> THEN tq_push(p, EndOfFile)
  ELSE Scanned(LexemeRead(p, Head(p.text)), Head(p.text))

(* What was read since the keyword, without the newlines at its end.       *)
RECURSIVE WithoutNewlines(_)
WithoutNewlines(ls) ==
  IF ls # <<>> /\ ls[Len(ls)].type = "newline"
    THEN WithoutNewlines(SubSeq(ls, 1, Len(ls) - 1)) ELSE ls

get_assert_source_code(p) ==
  [p EXCEPT !.asserting = FALSE, !.asserted = <<>>,
            !.out = WithoutNewlines(p.asserted)]

-----------------------------------------------------------------------------
(* The parser's side of the queue.                                         *)

peek_next_token(p) == IF p.tq = <<>> THEN scan_token(p) ELSE p

(* The token peek_next_token returns.                                      *)
Peeked(p) == Head(peek_next_token(p).tq)

(* Consuming a token makes it the current one; discarding it does not.     *)
discard_next_token(p) == [p EXCEPT !.tq = IF p.refused THEN @ ELSE Tail(@)]

Taken(p, previous) ==
  IF p.refused THEN p
  ELSE [p EXCEPT !.tq = Tail(@), !.previous = previous, !.token = Head(p.tq),
                 !.out = Head(p.tq)]

get_next_token(p) == Taken(peek_next_token(p), p.token)

PeeksThree(p, n) ==
  IF p.refused THEN p ELSE scan_token(scan_token(scan_token(p)))

(* With more than n + 1 tokens waiting required_scans wraps around, and    *)
(* the scanner fills the queue until an assertion stops it.                *)
RECURSIVE peek_forward_n_tokens(_, _)
peek_forward_n_tokens(p, n) ==
  IF p.refused \/ Len(p.tq) = n + 1 THEN p
  ELSE IF Len(p.tq) > n + 1 THEN Refuse(p)
  ELSE peek_forward_n_tokens(scan_token(p), n)

(* The n-th token behind the next one.                                     *)
PeekedForward(p, n) ==
  IF p.refused THEN EndOfFile ELSE peek_forward_n_tokens(p, n).tq[n + 1]

Is(token, type) == token.type = type
IsKeyword(token, word) == token.type = "keyword" /\ token.value = word
IsAssignment(token) == token.type = "operator" /\ token.value = "="

OrRefuse(p, expected) == IF expected THEN p ELSE Refuse(p)

OfType(p, type) == OrRefuse(p, p.token.type = type)
expect_token_type(p, type) == OfType(get_next_token(p), type)

BeingKeyword(p, word) == OrRefuse(p, IsKeyword(p.token, word))
expect_keyword(p, word) == BeingKeyword(get_next_token(p), word)

(* A rule set by a caller holds for the next expression or statement only. *)
consume_rule(p) == [p EXCEPT !.rule = NoRule]

RECURSIVE consume_newline_tokens(_)
PastNewline(p) ==
  IF Is(Head(p.tq), "newline")
    THEN consume_newline_tokens(discard_next_token(p)) ELSE p
consume_newline_tokens(p) == PastNewline(peek_next_token(p))
=============================================================================
