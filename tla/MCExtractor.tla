----------------------------- MODULE MCExtractor -----------------------------
EXTENDS Extractor
At(up, tag, mark, text) == [tag |-> tag, mark |-> mark, text |-> text, up |-> up]
Plain(up, tag, text) == At(up, tag, "plain", text)
Holder(up, tag, mark) == At(up, tag, mark, NoText)
MCChars == [text \in {"title", "search", "plans", "team", "42", "tagline", "offer", "crew", "story", "book",
                      "news", "shop", "help", "legal", "cart", "faq", "terms", "docs"} |->
  CASE text = "42" -> 2 [] text = "offer" -> 60 [] text = "crew" -> 90 [] text = "tagline" -> 20 [] text = "story" -> 400
    [] text = "book" -> 5200 [] OTHER -> 12]
MCFragments ==
  {<<Holder(0, "header", "plain"), Plain(1, "h1", "title")>>,
   <<Holder(0, "div", "hidden"), At(1, "h1", "hidden", "search"), Plain(1, "p", "crew")>>,
   <<Holder(0, "main", "plain")>>, <<Holder(0, "div", "sidebar")>>, <<Holder(0, "div", "dot-nav")>>,
   <<Holder(0, "section", "plain"), Plain(1, "h2", "plans"), Plain(1, "p", "offer"), Plain(1, "p", "42")>>,
   <<Holder(0, "section", "plain"), Holder(1, "div", "sr-only"), Plain(2, "p", "news"), Plain(2, "h2", "team"), Plain(1, "p", "crew")>>,
   <<Plain(0, "p", "tagline")>>, <<Plain(0, "p", "42")>>, <<Plain(0, "p", "story")>>, <<Plain(0, "p", "book")>>,
   <<Holder(0, "form", "plain")>>, <<Holder(0, "div", "dialog"), Plain(1, "h1", "search")>>,
   <<Holder(0, "div", "content"), Plain(1, "p", "offer"), Plain(1, "a", "cart"), Plain(1, "a", "faq"), Plain(1, "a", "terms")>>,
   <<Plain(0, "h2", "plans")>>, <<Plain(0, "img", "team")>>,
   <<Plain(0, "json", "offer"), Plain(0, "json", "tagline")>>, <<Plain(0, "js", "tagline"), Plain(0, "js", "crew")>>,
   <<At(0, "div", "announcement", "offer")>>,
   <<Holder(0, "div", "suspense"), Plain(1, "h2", "shop"), Plain(1, "p", "tagline")>>,
   <<Holder(0, "footer", "plain"), Plain(1, "h2", "shop"), At(1, "a", "cta", "docs"), Plain(1, "a", "cart")>>,
   <<Holder(0, "footer", "plain"), Holder(1, "div", "plain"), Plain(2, "h3", "shop"), Plain(2, "a", "cart"), Plain(2, "a", "faq"),
     Holder(1, "div", "plain"), Plain(6, "h3", "help"), Plain(6, "a", "faq"), At(6, "a", "cta", "docs"),
     Holder(1, "div", "plain"), Plain(10, "h3", "legal"), Plain(10, "a", "terms"), Plain(10, "a", "faq")>>}
=============================================================================
