------------------------------ MODULE MCStores ------------------------------
EXTENDS Stores

MCTerms == {11, 12, 13}

\* Two that share subject and object, one of a single node, one reversed.
MCTriples == {<<11, 12, 13>>, <<11, 11, 11>>, <<13, 12, 11>>, <<11, 13, 13>>}

\* A blank node, an IRI, and a value as a literal of each kind.
MCMapNodes == {M!Node("B", 1, 0), M!Node("R", 1, 0), M!Node("L", 1, 0), M!Node("G", 1, 1),
               M!Node("D", 2, 1)}
=============================================================================
