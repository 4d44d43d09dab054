------------------------------ MODULE MCParser ------------------------------
(* Files shorter than a batch, longer than one, and as long as two; a label *)
(* is met again in a triple, in another batch and in another file.          *)
EXTENDS Parser

MCFiles ==
  { <<>>, << <<1, 2, 3>> >>, << <<-1, 2, -1>>, <<0, 2, -1>>, <<-1, 2, 0>>, <<-2, 2, -1>>, <<1, 2, 3>> >>,
    << <<0, 2, 0>>, <<-1, 2, 3>>, <<1, 2, -2>>, <<-2, 2, -1>> >> }
=============================================================================
