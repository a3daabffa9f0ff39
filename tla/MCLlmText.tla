----------------------------- MODULE MCLlmText -----------------------------
(* Pages of a few pieces: headings, paragraphs that restate one, repeat    *)
(* another or begin like it, code with and without a comment, code under   *)
(* headings that say the same, logos, and lines of each kind of noise.     *)
EXTENDS LlmText

Text(words) == [mark |-> "text", words |-> words]
Heading(words) == [mark |-> "#", words |-> words]
SubHeading(words) == [mark |-> "##", words |-> words]
Fence == [mark |-> "fence", words |-> <<>>]
Image(word) == [mark |-> "image", words |-> <<word>>]

Prose == {"plans", "price", "terms", "long", "rate", "acme", "bolt", "let", "run"}
Noise == {"next", "9", "self", "tab", "hero", "alt", "scene", "css", "label", "flex", "more", "menu"}
MCWords == Prose \cup Noise
MCWidth == [w \in MCWords |-> IF w \in {"long", "terms"} THEN 21 ELSE 5]
MCKind == [w \in MCWords |->
  CASE w \in Prose -> "prose" [] w = "next" -> "control" [] w = "9" -> "number"
    [] w = "self" -> "script" [] w = "tab" -> "chrome" [] w = "hero" -> "file"
    [] w = "alt" -> "alt" [] w = "scene" -> "description" [] w = "css" -> "css"
    [] w = "label" -> "asset" [] w = "flex" -> "class" [] w = "more" -> "more"
    [] w = "menu" -> "section"]
MCHref == [w \in MCWords |-> CASE w = "rate" -> "/rate" [] w = "next" -> "/2" [] OTHER -> NoHref]
MCPieces ==
  {<<Heading(<<"plans">>)>>, <<SubHeading(<<"plans">>)>>,
   <<Text(<<"plans", "long">>)>>, <<Text(<<"plans">>), Blank>>,
   <<Text(<<"price", "long", "rate">>), Text(<<"more", "long", "rate">>), Blank>>,
   <<Text(<<"price", "long", "terms", "tab">>), Blank>>,
   <<Text(<<"price">>), Text(<<"long", "terms">>), Blank>>,
   <<Text(<<"price", "terms", "price", "terms", "flex", "flex">>), Blank>>,
   <<Fence, Text(<<"let">>), Text(<<"let">>), Fence>>,
   <<Fence, Heading(<<"run">>), Text(<<"run">>), Fence>>,
   <<Heading(<<"plans", "tab">>), Fence, Text(<<"let">>), Blank, Text(<<"run">>), Fence>>,
   <<Heading(<<"plans">>), Fence, Text(<<"let">>), Blank, Text(<<"acme">>), Fence>>,
   <<Text(<<"acme">>), SubHeading(<<"terms", "long">>), Blank>>,
   <<Text(<<"acme", "terms", "long">>), Blank>>,
   <<Image("acme"), Image("bolt"), Blank>>,
   <<Text(<<"acme">>), Image("bolt"), Text(<<"tab">>), Blank, Text(<<"plans", "long">>), Blank>>,
   <<Fence, Blank, Fence, Text(<<"next", "9">>), Text(<<"self">>), Text(<<"hero">>), Text(<<"alt">>),
     Text(<<"scene">>), Text(<<"css">>), Text(<<"label">>), Blank, Text(<<"9">>), Blank,
     Text(<<"flex", "flex", "plans">>), SubHeading(<<"menu">>)>>}
=============================================================================
