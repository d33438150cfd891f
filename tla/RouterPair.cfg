SPECIFICATION Spec
CONSTANTS
  Pattern <- MCPattern
  Subject <- MCSubject
  RouterMatching <- MCRouterMatching
  OptimizedMatching <- MCOptimizedMatching
  s1 = s1
  s2 = s2
  s3 = s3
  Session = {s1, s2, s3}
  MaxList = 3
 
PROPERTIES RouterImplementsSpec OptimizedImplementsSpec
SYMMETRY Symmetry
