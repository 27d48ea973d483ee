------------------------------- MODULE Canvas -------------------------------
(***************************************************************************)
(* The HTML canvas as app/static/novnc/core/display.js uses it, reduced to *)
(* one row: a picture is a function from columns to colours.  What is      *)
(* drawn outside of a picture is clipped; a canvas that is given a new     *)
(* size is cleared.                                                        *)
(***************************************************************************)
EXTENDS Integers

Blank == "blank"
Stray == "stray"     \* pixels that are not those of the rectangle

Cleared(n) == [i \in 0..(n - 1) |-> Blank]

(* fillRect, putImageData and drawImage with an image. *)
Painted(pic, x, w, c) == [i \in DOMAIN pic |-> IF i \in x..(x + w - 1) THEN c ELSE pic[i]]

(* drawImage with another canvas, or itself, as the source. *)
Copied(pic, src, from, to, w) ==
    [i \in DOMAIN pic |-> IF i \in to..(to + w - 1) /\ (i - to + from) \in DOMAIN src
                          THEN src[i - to + from] ELSE pic[i]]

(* A new size with the old content put back (getImageData, putImageData). *)
Resized(pic, n) == Copied(Cleared(n), pic, 0, 0, n)
=============================================================================
