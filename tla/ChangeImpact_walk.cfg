\* Two references of any kind in one file, or any graph.
SPECIFICATION Spec
CONSTANTS
  aFoo = aFoo  bFoo = bFoo  nFoo = nFoo  xFoo = xFoo  aBar = aBar  bCtl = bCtl
  Foo = Foo  Bar = Bar  Ctl = Ctl  a = a  b = b  x = x
  Class = {aFoo, bFoo, nFoo, aBar, bCtl}
  Library = {xFoo}
  Nested = {nFoo, xFoo}
  Name = {Foo, Bar, Ctl}
  Package = {a, b, x}
  NameOf <- MCNameOf
  PackageOf <- MCPackageOf
  Sources <- MCSources
  Endpoint = {aFoo, aBar, bCtl}
  Owner <- MCOwner
  MaxTransitiveDepth = 2
  NoClass = NoClass
CHECK_DEADLOCK FALSE
INVARIANTS
  TypeOK
  
  NamesakesAreTold
  HopsAreShortest
