CONSTANTS
  i1 = i1
  i2 = i2
  i3 = i3
  r1 = r1
  r2 = r2
  b0 = b0
  b1 = b1
  b2 = b2
  Nothing = Nothing
  NoBlock = NoBlock
  Instrs <- MCInstrs
  Ranges <- MCRanges
  Blocks <- MCBlocks
  Dominator <- MCDominator
  HashCode <- MCHashCode
  K <- MCK
  MaxAdds <- MCMaxAdds
SPECIFICATION Spec
CHECK_DEADLOCK FALSE
INVARIANTS TypeOK RepOK LookupSound
