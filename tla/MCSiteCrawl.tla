---------------------------- MODULE MCSiteCrawl ----------------------------
(* Model-checking instance of SiteCrawl: small sites with a cycle, a hub, a    *)
(* page reached along paths of different lengths, and a closed page.          *)
EXTENDS SiteCrawl, TLC

CONSTANTS a, b, c, d, e, f, g,  \* pages
          b2, mailto, none       \* hrefs: another spelling of b, and no page

Spelt == [href \in {a, b, c, d, e, f, g, b2, mailto} |->
            CASE href = b2 -> b [] href = mailto -> none [] OTHER -> href]

Site(of_a, of_b, of_c, of_d, of_e) ==
  (a :> of_a) @@ (b :> of_b) @@ (c :> of_c) @@ (d :> of_d) @@ (e :> of_e) @@ (f :> of_e)
    @@ (g :> {c, d})

Cycle   == Site({b, b2}, {a, c}, {a, d}, {a}, {})
Hub     == Site({b, c, d, mailto}, {a, c}, {b2}, {b}, {})
Diamond == Site({b, c, g}, {d}, {b, d}, {c}, {})   \* and a page out of scope
Detour  == Site({b, c}, {c}, {d}, {}, {})
Fenced  == Site({b, e}, {c, f}, {}, {}, {d})       \* d behind closed pages only

SomeSites == {Cycle, Hub, Diamond, Detour, Fenced}
=============================================================================
