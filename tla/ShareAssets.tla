----------------------------- MODULE ShareAssets ------------------------------
(* The links to an article's images are rewritten when it is shown under a     *)
(* link: those that are shown as images, and not those that a text about       *)
(* Markdown quotes as code.  rewriteShareAssets of internal/api/share.go.      *)
(*                                                                             *)
(* A text is a sequence of tokens: an image of the article, a run of one,      *)
(* three or four backticks, the end of a line, anything else.                  *)
EXTENDS Naturals, Sequences

CONSTANTS MaxLen

VARIABLES
    content,
    i,              \* where the scan for fences is
    normalStart,    \* where the text since the last fence begins
    result

vars == <<content, i, normalStart, result>>

Token == {"image", "tick", "ticks3", "ticks4", "line", "text"}
Run(t) == CASE t = "tick" -> 1 [] t = "ticks3" -> 3 [] t = "ticks4" -> 4 [] OTHER -> 0

\* Two runs side by side would be one longer run.
Texts == {s \in UNION {[1..n -> Token] : n \in 0..MaxLen} :
            \A k \in 2..Len(s) : Run(s[k]) = 0 \/ Run(s[k - 1]) = 0}

TypeOK ==
    /\ content \in Texts /\ i \in 1..(MaxLen + 1) /\ normalStart \in 1..i
    /\ \A k \in 1..Len(result) : result[k] \in Token \cup {"asset"}

Init == content \in Texts /\ i = 1 /\ normalStart = 1 /\ result = <<>>

Least(S) == CHOOSE k \in S : \A j \in S : k <= j

rewriteNonCode(s) == [k \in 1..Len(s) |-> IF s[k] = "image" THEN "asset" ELSE s[k]]

\* Code reaches from a run to the next one of the same length; a run that has
\* none is text.
rewriteOutsideInlineCode(s) ==
    LET n == Len(s)
        next(k) == {j \in (k + 1)..n : Run(s[j]) = Run(s[k])}
        \* done[k]: what becomes of the text from its k-th token on
        done[k \in 1..(n + 1)] ==
          IF k = n + 1 THEN <<>>
          ELSE IF Run(s[k]) > 0 /\ next(k) # {}
          THEN SubSeq(s, k, Least(next(k))) \o done[Least(next(k)) + 1]
          ELSE rewriteNonCode(<<s[k]>>) \o done[k + 1]
    IN  done[1]

StartsLine(k) == k = 1 \/ content[k - 1] = "line"
EndsLine(k) == k = Len(content) \/ content[k + 1] = "line"

\* Where the block that a fence opens ends: after the first line below it that
\* is a fence at least as long, or with the text.
Closing(k) ==
    {j \in (k + 1)..Len(content) :
        StartsLine(j) /\ EndsLine(j) /\ Run(content[j]) >= Run(content[k])}

fencedCodeEnd(k) ==
    IF Closing(k) = {} THEN Len(content) + 1
    ELSE IF Least(Closing(k)) = Len(content) THEN Len(content) + 1
    ELSE Least(Closing(k)) + 2

Opens(k) == StartsLine(k) /\ Run(content[k]) >= 3

\* One position of the loop.
rewriteOutsideFencedCode ==
    /\ i <= Len(content) /\ UNCHANGED content
    /\ IF Opens(i)
       THEN /\ result' = result \o rewriteOutsideInlineCode(SubSeq(content, normalStart, i - 1))
                                \o SubSeq(content, i, fencedCodeEnd(i) - 1)
            /\ i' = fencedCodeEnd(i) /\ normalStart' = fencedCodeEnd(i)
       ELSE i' = i + 1 /\ UNCHANGED <<normalStart, result>>

rewriteShareAssets ==
    /\ i = Len(content) + 1 /\ normalStart <= Len(content)
    /\ result' = result \o rewriteOutsideInlineCode(SubSeq(content, normalStart, i - 1))
    /\ normalStart' = i
    /\ UNCHANGED <<content, i>>

Next == rewriteOutsideFencedCode \/ rewriteShareAssets

Spec == Init /\ [][Next]_vars

-----------------------------------------------------------------------------
Finished == i = Len(content) + 1 /\ normalStart = i

\* A reader's view, token by token: the length of the block's fence that is
\* open after a token, and of the span's run.
Block[k \in 0..MaxLen] ==
    IF k = 0 THEN 0
    ELSE IF Block[k - 1] = 0 THEN IF Opens(k) THEN Run(content[k]) ELSE 0
    ELSE IF StartsLine(k) /\ EndsLine(k) /\ Run(content[k]) >= Block[k - 1] THEN 0
    ELSE Block[k - 1]

InBlock(k) == Block[k] # 0 \/ Block[k - 1] # 0

Span[k \in 0..MaxLen] ==
    LET r == Run(content[k]) IN
    IF k = 0 THEN 0
    ELSE IF InBlock(k) THEN 0
    ELSE IF Span[k - 1] # 0 THEN IF r = Span[k - 1] THEN 0 ELSE Span[k - 1]
    ELSE IF \E j \in (k + 1)..Len(content) :
              Run(content[j]) = r /\ \A m \in k..j : ~InBlock(m)
         THEN r ELSE 0

\* An image is rewritten exactly when it is outside every block and every span:
\* no link is lost for being near code, and no quoted text changes, whatever
\* runs of backticks stand unmatched or reach across a block.
ImagesOnly ==
    Finished =>
        result = [k \in 1..Len(content) |->
                    IF content[k] = "image" /\ ~InBlock(k) /\ Span[k] = 0
                    THEN "asset" ELSE content[k]]
=============================================================================
