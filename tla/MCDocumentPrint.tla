--------------------------- MODULE MCDocumentPrint ---------------------------
(* DocumentPrint on a driver with an ordinary, a turned and a wrong form.    *)
EXTENDS DocumentPrint

CONSTANTS pid1, pid2

Size(w, h) == [width |-> w, height |-> h]

Form(nominal, measured, number) == [size |-> nominal, physical |-> measured, kind |-> number]

\* A form the driver measures otherwise, A4, one with the number of A4, a square
\* one that is measured a little wrong, and one that the driver does not know.
MCForms ==
    <<Form(Size(29700, 21000), Size(14000, 14000), 8),
      Form(Size(21000, 29700), Size(20990, 29710), 9),
      Form(Size(21000, 29700), Size(20990, 29710), 9),
      Form(Size(5000, 5050), Size(5040, 5010), 10),
      Form(Size(100, 100), Size(100, 100), 0)>>

Named(size) == [NoToken EXCEPT !.known = size]
Sized(size, one_unit, is_custom) ==
    [known |-> None, width |-> size.width, height |-> size.height, unit |-> one_unit,
     custom |-> is_custom]

\* A name, inches without a unit, a custom size in each unit, the pattern
\* Custom.WIDTHxHEIGHT.  8.27 inches come to a page that is rounded.
MCChoices ==
    <<Named(Size(21000, 29700)), Sized(Size(850, 1100), None, FALSE),
      Sized(Size(2000, 1500), "mm", TRUE), Sized(Size(827, 413), "in", TRUE),
      Sized(Size(0, 0), None, TRUE)>>

\* The last one is the small custom size, were it taken for inches.
MCRequests == {Size(21000, 29700), Size(29700, 21000), Size(5050, 5000), Size(21590, 27940),
               Size(21006, 10490), Size(2000, 1500), Size(50800, 38100)}
=============================================================================
