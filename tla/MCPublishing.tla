---------------------------- MODULE MCPublishing ----------------------------
(***************************************************************************)
(* Model values for Publishing: three addresses and categories (a loop of  *)
(* two and of three), two variants and reviewers.                          *)
(***************************************************************************)
EXTENDS Publishing, TLC

CONSTANTS launch, sale, suit, kurta, dress, women, pret, suitS, kurtaS, kurtaM, dressM, small, medium, red

\* Two gift card pages that share no amount.
CardPages == launch :> [denominations |-> {6}, min |-> 2, max |-> 4, years |-> 3]
          @@ sale   :> [denominations |-> {8}, min |-> 10, max |-> 10, years |-> 1]

\* A suit and the kurta in it, two of one shelf, and a dress sold in parts; the
\* suit and the dress share a colour.
Wares ==
    suit  :> [category |-> pret, price |-> 5, published |-> 1, pieces |-> {kurta}, parts |-> {}] @@
    kurta :> [category |-> pret, price |-> 3, published |-> 2, pieces |-> {}, parts |-> {}] @@
    dress :> [category |-> women, price |-> 4, published |-> 3, pieces |-> {}, parts |-> {2, 6}]
Departments == women :> None @@ pret :> women
Sizes ==
    suitS  :> [of |-> suit,  values |-> {small, red}] @@
    kurtaS :> [of |-> kurta, values |-> {small}] @@
    kurtaM :> [of |-> kurta, values |-> {medium}] @@
    dressM :> [of |-> dress, values |-> {medium, red}]
Labels == small :> "size" @@ medium :> "size" @@ red :> "colour"

=============================================================================
