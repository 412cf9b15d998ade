----------------------------- MODULE MCKernels -----------------------------
EXTENDS Kernels
\* The ends of February in each kind of year, of a month, of years; hours
\* around noon and midnight, and those whose time in India is the next day.
MCDates == {Date(y, mo, d, h, m, 59) :
              y \in {2000, 2023, 2024, 2099}, mo \in {1, 2, 4, 12}, d \in {1, 28, 29, 30, 31},
              h \in {0, 9, 11, 12, 18, 23}, m \in {0, 29, 30}}
MCModes == {<< FALSE, FALSE >>, << FALSE, TRUE >>, << TRUE, FALSE >>}
MCLengths == [1 .. 5 -> 0 .. 3]
Base == << Literal(0), Literal(143), Literal(144), Literal(255), Literal(7) >>
\* Every length with its smallest and largest extra bits, near distances, and
\* far ones where there is enough to go back to.
MCMatches == {Match(s, more, d, 0) : s \in {257, 264, 265, 273}, more \in {0}, d \in {0, 1, 3}}
  \cup {Match(s, Two[ExtraBits(s)] - 1, d, Two[FarBits(d)] - 1) : s \in 257 .. 285, d \in {1, 2}}
  \cup {Match(260, 0, 4, 0)}
MCFar == {Match(258, 0, d, Two[FarBits(d)] - 1) : d \in 4 .. 13}
\* Codes for 97 and the end, or with a match of three or four; distance 1 or 2.
\* The second has every length of the code lengths' codes and every repeat.
Lens(n, used) == [i \in 1 .. n |-> IF i - 1 \in DOMAIN used THEN used[i - 1] ELSE 0]
MCDynamic ==
  DynamicBlock(Lens(258, [s \in {97, 256, 257} |-> IF s = 97 THEN 1 ELSE 2]), << 1 >>,
               19, Lens(19, [s \in 0 .. 18 |-> 5]),
               << Item(18, 86), Item(1, 0), Item(18, 127), Item(17, 7), Item(17, 7),
                  Item(2, 0), Item(2, 0), Item(1, 0) >>,
               << Literal(97), Match(257, 0, 0, 0), Literal(97) >>)
MCDynamic2 ==
  DynamicBlock(Lens(260, [s \in {97, 256, 257, 258, 259} |-> IF s = 97 THEN 1 ELSE 3]), << 1, 1 >>,
               18, Lens(19, [s \in {0, 1, 3, 16, 17, 18} |->
                               IF s \in {0, 1} THEN 2 ELSE IF s = 18 THEN 2 ELSE IF s = 3 THEN 3
                               ELSE 4]),
               << Item(18, 86), Item(1, 0), Item(18, 127), Item(17, 0), Item(0, 0), Item(18, 5),
                  Item(3, 0), Item(16, 0), Item(1, 0), Item(1, 0) >>,
               << Literal(97), Literal(97), Match(258, 0, 1, 0) >>)
MCStreams ==
  {<< FixedBlock(Append(Base, op)) >> : op \in MCMatches}
  \cup {<< FixedBlock(Base \o << Match(285, 0, 3, 0), op >>) >> : op \in MCFar}
  \cup {<< StoredBlock(<< 1, 2 >>), StoredBlock(<< 255 >>) >>, << StoredBlock(<< >>) >>,
        << StoredBlock(<< 9 >>), FixedBlock(<< Literal(8) >>) >>,
        << FixedBlock(<< Literal(8) >>), StoredBlock(<< 9 >>), FixedBlock(<< Match(257, 0, 1, 0) >>) >>,
        << MCDynamic >>, << MCDynamic2, MCDynamic >>}
MCPictures ==
  {[channels |-> 3, rows |-> << << p[1], 7, 9, p[2], 7, 9 >>, << p[3], 7, 9, p[4], 7, 9 >> >>] :
     p \in [1 .. 4 -> {0, 1, 200, 255}]}
MCRooms == {-1, 0}
MCFilters == {<< a, b >> : a, b \in 0 .. 5}
\* Huge pages of two sizes, a range mapped before, nothing.
Direct == 2 ^ 3
MCSpaces ==
  LET none == << >>
      huge2 == [p \in {<< 1 >>, << 1, 0 >>} |-> IF Len(p) = 1 THEN Table ELSE 0]
      huge3 == [p \in {<< 1 >>, << 1, 0 >>, << 1, 0, 1 >>} |-> IF Len(p) < 3 THEN Table ELSE 2]
      four == [p \in {<< 1 >>, << 1, 0 >>, << 1, 0, 0 >>, << 1, 0, 0, 1 >>} |->
                 IF Len(p) < 4 THEN Table ELSE 6]
  IN {Space(e, n) : e \in {none, huge2, huge3, four}, n \in 0 .. 7}
\* Two and three columns; two, three and five rows, over three slots.
MCBodies == {10, 14} \X {3, 8, 12}
MCRanges == (0 .. 19) \X (1 .. 12)
============================================================================
